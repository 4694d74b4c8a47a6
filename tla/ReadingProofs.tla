--------------------------- MODULE ReadingProofs ----------------------------
(***************************************************************************)
(* How stored messages reach their reader: live or listed on connection,   *)
(* and page by page on request: proofs about MessageDelivery and about     *)
(* Pagination, which share no state.                                       *)
(***************************************************************************)
EXTENDS MessageDelivery, Pagination, FiniteSetTheorems, SequenceTheorems, TLAPS

-----------------------------------------------------------------------------
(***************************************************************************)
(* MessageDelivery.  No message falls between the list of a connecting     *)
(* socket and the live events, for any messages and any sockets.           *)
(***************************************************************************)
\* While the loop runs, what is not yet in the client's hands is in the list.
ListOrLive ==
  \A s \in room : conns[s].pc = "loop" =>
    Stored \ unsent \subseteq got[s] \cup conns[s].list

\* A listed message was in the table when it was listed.
ListedWasSent ==
  \A s \in Socket : conns[s].pc = "loop" =>
    conns[s].list \subseteq sent /\ conns[s].todo \subseteq conns[s].list

DeliveryInv ==
  TypeOK /\ ListOrLive /\ ListedWasSent /\ NothingMissed /\ ListIsDelivered

LEMMA InitDeliveryInv == Init => DeliveryInv
  BY DEF Init, DeliveryInv, TypeOK, ListOrLive, ListedWasSent, NothingMissed,
     ListIsDelivered, Stored, Idle

\* A message enters the table unsent, so no socket is owed it yet.
LEMMA CreateMessageStep ==
  ASSUME DeliveryInv, NEW m \in Message, CreateMessage(m)
  PROVE  DeliveryInv'
<1>1. /\ sent' = sent \cup {m} /\ m \notin sent
      /\ Stored' = Stored \cup {m} /\ unsent' = unsent \cup {m}
      /\ UNCHANGED <<live, delivered, room, conns, got>>
  BY DEF CreateMessage, Stored
<1>2. TypeOK'
  BY <1>1 DEF DeliveryInv, TypeOK
<1>3. ListOrLive' /\ NothingMissed'
  BY <1>1 DEF DeliveryInv, ListOrLive, NothingMissed
<1>4. ListedWasSent'
  BY <1>1 DEF DeliveryInv, ListedWasSent
<1>5. ListIsDelivered'
  BY <1>1 DEF DeliveryInv, ListedWasSent, ListIsDelivered
<1> QED
  BY <1>2, <1>3, <1>4, <1>5 DEF DeliveryInv

\* An emit to the room only adds to what its sockets have.
LEMMA EmitToRoomAdds ==
  ASSUME TypeOK, NEW ms \in SUBSET sent, EmitToRoom(ms)
  PROVE  /\ got' \in [Socket -> SUBSET sent]
         /\ \A s \in Socket : got[s] \subseteq got'[s]
         /\ \A s \in room : got'[s] = got[s] \cup ms
  BY DEF TypeOK, EmitToRoom

\* It leaves unsent when every socket of the room has received it.
LEMMA EmitMessageStep ==
  ASSUME DeliveryInv, NEW m \in Message, EmitMessage(m)
  PROVE  DeliveryInv'
<1>1. /\ Stored' = Stored /\ unsent' = unsent \ {m} /\ m \in unsent
      /\ UNCHANGED <<live, sent, delivered, room, conns>>
  BY DEF EmitMessage, Stored
<1>2. /\ got' \in [Socket -> SUBSET sent]
      /\ \A s \in room : got'[s] = got[s] \cup {m}
  BY <1>1, EmitToRoomAdds DEF DeliveryInv, TypeOK, EmitMessage
<1>3. TypeOK'
  BY <1>1, <1>2 DEF DeliveryInv, TypeOK
<1>4. ListOrLive' /\ NothingMissed'
  BY <1>1, <1>2 DEF DeliveryInv, ListOrLive, NothingMissed
<1>5. ListedWasSent' /\ ListIsDelivered'
  BY <1>1 DEF DeliveryInv, ListedWasSent, ListIsDelivered
<1> QED
  BY <1>3, <1>4, <1>5 DEF DeliveryInv

LEMMA ConnectStep ==
  ASSUME DeliveryInv, NEW s \in Socket, Connect(s)
  PROVE  DeliveryInv'
<1>1. /\ Stored' = Stored /\ room' = room \cup {s}
      /\ UNCHANGED <<live, sent, delivered, unsent, got>>
      /\ conns' \in [Socket -> Connecting \cup {Idle}]
      /\ conns'[s] = [pc |-> "fetch"]
      /\ \A t \in Socket : t # s => conns'[t] = conns[t]
  BY DEF DeliveryInv, TypeOK, Connect, Connecting, Stored
<1>2. conns'[s] # Idle /\ conns'[s].pc # "loop"
  BY <1>1 DEF Idle
<1>3. TypeOK'
  BY <1>1 DEF DeliveryInv, TypeOK
<1>4. ListOrLive' /\ NothingMissed'
  BY <1>1, <1>2 DEF DeliveryInv, TypeOK, ListOrLive, NothingMissed
<1>5. ListedWasSent' /\ ListIsDelivered'
  BY <1>1, <1>2 DEF DeliveryInv, ListedWasSent, ListIsDelivered
<1> QED
  BY <1>3, <1>4, <1>5 DEF DeliveryInv

LEMMA FetchStep ==
  ASSUME DeliveryInv, NEW s \in Socket, Fetch(s)
  PROVE  DeliveryInv'
<1> DEFINE h == [pc |-> "loop", list |-> Stored, todo |-> Stored \ delivered]
<1>1. Stored \subseteq sent /\ sent \subseteq Message
  BY DEF Stored, DeliveryInv, TypeOK
<1>2. /\ Stored' = Stored
      /\ UNCHANGED <<live, sent, delivered, unsent, room, got>>
      /\ conns'[s] = h
      /\ \A t \in Socket : t # s => conns'[t] = conns[t]
  BY DEF DeliveryInv, TypeOK, Fetch, Stored
<1>3. h \in Connecting /\ h # Idle
  BY <1>1 DEF Connecting, Idle
<1>4. TypeOK'
  BY <1>1, <1>3 DEF DeliveryInv, TypeOK, Fetch
<1>5. ListOrLive' /\ NothingMissed'
  BY <1>2, <1>3 DEF DeliveryInv, TypeOK, ListOrLive, NothingMissed
<1>6. ListedWasSent' /\ ListIsDelivered'
  BY <1>1, <1>2 DEF DeliveryInv, ListedWasSent, ListIsDelivered
<1> QED
  BY <1>4, <1>5, <1>6 DEF DeliveryInv

LEMMA AcknowledgeStep ==
  ASSUME DeliveryInv, NEW s \in Socket, Acknowledge(s)
  PROVE  DeliveryInv'
<1>1. PICK m \in conns[s].todo :
        /\ m \in Stored
        /\ delivered' = delivered \cup {m}
        /\ conns' = [conns EXCEPT ![s].todo = @ \ {m}]
  BY DEF Acknowledge
<1>2. /\ conns[s].pc = "loop" /\ conns[s] \in Connecting
      /\ UNCHANGED <<live, sent, unsent, room, got>>
      /\ Stored' = Stored
  BY DEF DeliveryInv, TypeOK, Acknowledge, Idle, Stored
<1>3. /\ conns'[s] \in Connecting
      /\ conns'[s].pc = "loop" /\ conns'[s].list = conns[s].list
      /\ conns'[s].todo = conns[s].todo \ {m}
      /\ \A t \in Socket : t # s => conns'[t] = conns[t]
  BY <1>1, <1>2 DEF DeliveryInv, TypeOK, Connecting
<1>4. conns'[s] # Idle
  BY <1>3 DEF Idle
<1>5. TypeOK'
  BY <1>1, <1>2, <1>3 DEF DeliveryInv, TypeOK, Stored
<1>6. ListOrLive' /\ NothingMissed'
  BY <1>2, <1>3, <1>4 DEF DeliveryInv, TypeOK, ListOrLive, NothingMissed
<1>7. ListedWasSent' /\ ListIsDelivered'
  BY <1>1, <1>2, <1>3 DEF DeliveryInv, ListedWasSent, ListIsDelivered
<1> QED
  BY <1>5, <1>6, <1>7 DEF DeliveryInv

\* The list completes what the live events have brought since it was fetched.
LEMMA EmitUnreadMessagesStep ==
  ASSUME DeliveryInv, NEW s \in Socket, EmitUnreadMessages(s)
  PROVE  DeliveryInv'
<1>1. /\ conns[s].pc = "loop" /\ conns' = [conns EXCEPT ![s] = Idle]
      /\ UNCHANGED <<live, sent, delivered, unsent, room>>
      /\ Stored' = Stored
  BY DEF EmitUnreadMessages, Stored
<1>2. conns[s].list \subseteq sent
  BY <1>1 DEF DeliveryInv, ListedWasSent
<1>3. /\ got' \in [Socket -> SUBSET sent]
      /\ \A t \in Socket : got[t] \subseteq got'[t]
      /\ \A t \in room : got'[t] = got[t] \cup conns[s].list
  BY <1>2, EmitToRoomAdds DEF DeliveryInv, EmitUnreadMessages
<1>4. /\ conns'[s] = Idle /\ Idle.pc # "loop"
      /\ \A t \in Socket : t # s => conns'[t] = conns[t]
  BY <1>1 DEF DeliveryInv, TypeOK, Idle
<1>5. TypeOK'
  BY <1>1, <1>3 DEF DeliveryInv, TypeOK
<1>6. ListOrLive'
  BY <1>1, <1>3, <1>4 DEF DeliveryInv, TypeOK, ListOrLive
<1>7. NothingMissed'
  <2>1. ASSUME NEW t \in room, conns'[t] = Idle
        PROVE  Stored \ unsent \subseteq got'[t]
    <3>1. t \in Socket
      BY DEF DeliveryInv, TypeOK
    <3>2. CASE t = s
      BY <1>1, <1>3, <3>2 DEF DeliveryInv, ListOrLive
    <3>3. CASE t # s
      BY <1>3, <1>4, <2>1, <3>1, <3>3 DEF DeliveryInv, NothingMissed
    <3> QED
      BY <3>2, <3>3
  <2> QED
    BY <1>1, <2>1 DEF NothingMissed
<1>8. ListedWasSent' /\ ListIsDelivered'
  BY <1>1, <1>4 DEF DeliveryInv, ListedWasSent, ListIsDelivered
<1> QED
  BY <1>5, <1>6, <1>7, <1>8 DEF DeliveryInv

\* A socket that leaves the room is owed nothing.
LEMMA LeaveStep ==
  ASSUME DeliveryInv, NEW s \in Socket, Leave(s),
         conns' = [conns EXCEPT ![s] = Idle] \/ UNCHANGED conns,
         UNCHANGED <<live, sent, delivered, unsent>>
  PROVE  DeliveryInv'
<1>1. /\ Stored' = Stored
      /\ room' = room \ {s} /\ got' \in [Socket -> SUBSET sent]
      /\ \A t \in Socket : t # s => got'[t] = got[t] /\ conns'[t] = conns[t]
      /\ conns'[s] = Idle \/ conns'[s] = conns[s]
      /\ conns' \in [Socket -> Connecting \cup {Idle}]
      /\ Idle.pc # "loop"
  BY DEF DeliveryInv, TypeOK, Leave, Stored, Idle
<1>2. TypeOK'
  BY <1>1 DEF DeliveryInv, TypeOK
<1>3. ListOrLive' /\ NothingMissed'
  BY <1>1 DEF DeliveryInv, TypeOK, ListOrLive, NothingMissed
<1>4. ListedWasSent' /\ ListIsDelivered'
  BY <1>1 DEF DeliveryInv, ListedWasSent, ListIsDelivered
<1> QED
  BY <1>2, <1>3, <1>4 DEF DeliveryInv

\* Flags set by other handlers, and deleted conversations, owe nothing new.
LEMMA OthersStep ==
  ASSUME DeliveryInv,
         \/ \E m \in Message : MarkDelivered(m)
         \/ \E c \in Conversation : DeleteConversation(c)
         \/ UNCHANGED vars
  PROVE  DeliveryInv'
<1>1. /\ Stored' \subseteq Stored /\ Stored \subseteq sent
      /\ delivered \cap Stored' \subseteq delivered'
      /\ UNCHANGED <<sent, unsent, room, conns, got>>
  BY DEF MarkDelivered, DeleteConversation, vars, Stored
<1>2. TypeOK'
  BY <1>1 DEF DeliveryInv, TypeOK, MarkDelivered, DeleteConversation, vars
<1>3. ListOrLive' /\ NothingMissed' /\ ListedWasSent' /\ ListIsDelivered'
  BY <1>1 DEF DeliveryInv, ListOrLive, NothingMissed, ListedWasSent,
     ListIsDelivered
<1> QED
  BY <1>2, <1>3 DEF DeliveryInv

LEMMA RestartStep ==
  ASSUME DeliveryInv, Restart
  PROVE  DeliveryInv'
  BY DEF Restart, DeliveryInv, TypeOK, ListOrLive, NothingMissed, ListedWasSent,
     ListIsDelivered, Stored, Idle

\* The conjunction is inductive.
THEOREM DeliveryInvariance == Spec => []DeliveryInv
<1>1. DeliveryInv /\ [Next]_vars => DeliveryInv'
  <2> SUFFICES ASSUME DeliveryInv, [Next]_vars
               PROVE  DeliveryInv'
    OBVIOUS
  <2>1. ASSUME NEW s \in Socket, Handle(s) \/ Connect(s)
        PROVE  DeliveryInv'
    <3>1. CASE AcknowledgeDeleted(s)
      BY <3>1, LeaveStep DEF AcknowledgeDeleted
    <3> QED
      BY <2>1, <3>1, FetchStep, AcknowledgeStep, EmitUnreadMessagesStep,
         ConnectStep DEF Handle
  <2>2. ASSUME NEW s \in Socket, Fail(s) \/ Disconnect(s)
        PROVE  DeliveryInv'
    BY <2>2, LeaveStep DEF Fail, Disconnect
  <2>3. ASSUME NEW m \in Message, CreateMessage(m) \/ EmitMessage(m)
        PROVE  DeliveryInv'
    BY <2>3, CreateMessageStep, EmitMessageStep
  <2> QED
    BY <2>1, <2>2, <2>3, OthersStep, RestartStep DEF Next, Users, Server
<1> QED
  BY InitDeliveryInv, <1>1, PTL DEF Spec

\* Rooms, connections and what the clients have received keep their types.
THEOREM DeliveryTypeCorrectness == Spec => []TypeOK
<1>1. DeliveryInv => TypeOK
  BY DEF DeliveryInv
<1> QED
  BY <1>1, DeliveryInvariance, PTL

\* A socket whose connection was handled has every stored message that its
\* sender's handler has already emitted.
THEOREM DeliveryIsComplete == Spec => []NothingMissed
<1>1. DeliveryInv => NothingMissed
  BY DEF DeliveryInv
<1> QED
  BY <1>1, DeliveryInvariance, PTL

\* What emitUnreadMessages sends out has been flagged as delivered.
THEOREM ListsAreDelivered == Spec => []ListIsDelivered
<1>1. DeliveryInv => ListIsDelivered
  BY DEF DeliveryInv
<1> QED
  BY <1>1, DeliveryInvariance, PTL

-----------------------------------------------------------------------------
(***************************************************************************)
(* Pagination.  What a client that follows the links of a conversation gets *)
(* to see, for any size of a page, any number of messages and of deletions. *)
(***************************************************************************)
(***************************************************************************)
(* The rank of a row: how many rows come before it.                        *)
(***************************************************************************)
Rank(S, m) == Cardinality({k \in S : k < m})

LEMMA RankType ==
  ASSUME NEW S \in SUBSET Nat, IsFiniteSet(S), NEW m \in S
  PROVE  /\ Rank(S, m) \in Nat
         /\ Cardinality(S) \in Nat
         /\ Rank(S, m) < Cardinality(S)
<1> DEFINE B == {k \in S : k < m}
<1>1. B \in SUBSET S /\ m \notin B
  BY m \in Nat
<1>2. IsFiniteSet(B) /\ Cardinality(B) <= Cardinality(S) /\ B # S
  /\ (Cardinality(S) = Cardinality(B) => S = B)
  BY <1>1, FS_Subset
<1>3. Cardinality(B) \in Nat /\ Cardinality(S) \in Nat
  BY <1>2, FS_CardinalityType
<1> HIDE DEF B
<1>4. Cardinality(B) < Cardinality(S)
  BY <1>2, <1>3
<1> QED
  BY <1>3, <1>4 DEF Rank, B

LEMMA RankGrows ==
  ASSUME NEW S \in SUBSET Nat, IsFiniteSet(S), NEW m \in S, NEW n \in S, m < n
  PROVE  Rank(S, m) < Rank(S, n)
<1> DEFINE B == {k \in S : k < n}
<1>1. B \in SUBSET S /\ m \in B /\ B \in SUBSET Nat
  BY m \in Nat, n \in Nat
<1>2. IsFiniteSet(B)
  BY <1>1, FS_Subset
<1>3. Rank(B, m) < Cardinality(B)
  BY <1>1, <1>2, RankType
<1>4. \A k \in S : k < m => k < n
  BY \A k \in S : k \in Nat
<1>5. {k \in S : k < m} = {k \in B : k < m}
  BY <1>4
<1> QED
  BY <1>3, <1>5 DEF Rank

\* Rows of the same rank are one row.
LEMMA RankIsInjective ==
  ASSUME NEW S \in SUBSET Nat, IsFiniteSet(S), NEW m \in S, NEW n \in S,
         Rank(S, m) = Rank(S, n)
  PROVE  m = n
<1>1. m \in Nat /\ n \in Nat /\ Rank(S, m) \in Nat /\ Rank(S, n) \in Nat
  BY RankType
<1>2. ~ (m < n) /\ ~ (n < m)
  BY <1>1, RankGrows
<1> QED
  BY <1>1, <1>2

\* No more rows than ranks: those from lo on, below hi.
LEMMA RanksCount ==
  ASSUME NEW S \in SUBSET Nat, IsFiniteSet(S), NEW lo \in Nat, NEW hi \in Nat,
         NEW T \in SUBSET S, \A m \in T : Rank(S, m) \in lo .. (hi - 1)
  PROVE  /\ IsFiniteSet(T)
         /\ Cardinality(T) \in Nat
         /\ lo <= hi => Cardinality(T) <= hi - lo
         /\ hi <= lo => Cardinality(T) = 0
<1> DEFINE f == [m \in T |-> Rank(S, m)]
<1>1. IsFiniteSet(T) /\ Cardinality(T) \in Nat
  BY FS_Subset, FS_CardinalityType
<1>2. /\ IsFiniteSet(lo .. (hi - 1))
      /\ Cardinality(lo .. (hi - 1)) = IF lo > hi - 1 THEN 0 ELSE (hi - 1) - lo + 1
  BY FS_Interval, lo \in Int, hi - 1 \in Int
<1>3. f \in Injection(T, lo .. (hi - 1))
  <2>1. f \in [T -> lo .. (hi - 1)]
    OBVIOUS
  <2>2. \A m, n \in T : f[m] = f[n] => m = n
    BY RankIsInjective
  <2> QED
    BY <2>1, <2>2 DEF Injection, IsInjective
<1> HIDE DEF f
<1>4. Cardinality(T) <= Cardinality(lo .. (hi - 1))
  BY <1>2, <1>3, FS_Injection
<1> QED
  BY <1>1, <1>2, <1>4

\* A row is deleted: those after it move up.
LEMMA RankAfterDelete ==
  ASSUME NEW S \in SUBSET Nat, IsFiniteSet(S), NEW d \in S, NEW m \in S \ {d}
  PROVE  Rank(S \ {d}, m) = IF d < m THEN Rank(S, m) - 1 ELSE Rank(S, m)
<1> DEFINE B == {k \in S : k < m}
<1>1. IsFiniteSet(B)
  BY FS_Subset
<1>2. Cardinality(B \ {d}) = IF d \in B THEN Cardinality(B) - 1 ELSE Cardinality(B)
  BY <1>1, FS_RemoveElement
<1>3. {k \in S \ {d} : k < m} = B \ {d}
  OBVIOUS
<1> QED
  BY <1>2, <1>3 DEF Rank

\* A row is inserted after all others.
LEMMA RankAfterInsert ==
  ASSUME NEW S \in SUBSET Nat, IsFiniteSet(S), NEW x \in Nat, \A k \in S : k < x
  PROVE  /\ \A m \in S : Rank(S \cup {x}, m) = Rank(S, m)
         /\ Rank(S \cup {x}, x) = Cardinality(S)
<1>1. ASSUME NEW m \in S
      PROVE  {k \in S \cup {x} : k < m} = {k \in S : k < m}
  BY m \in Nat, m < x
<1>2. {k \in S \cup {x} : k < x} = S
  BY ~ (x < x)
<1> QED
  BY <1>1, <1>2 DEF Rank
-----------------------------------------------------------------------------
(***************************************************************************)
(* Pages.                                                                  *)
(***************************************************************************)
LEMMA NextPage ==
  ASSUME NEW n \in Nat
  PROVE  /\ n * Limit \in Nat
         /\ (n + 1) * Limit = n * Limit + Limit
  BY PaginationAssumption

\* The rounding: there is a next page when half a page of rows follows.
LEMMA LastPage ==
  ASSUME NEW n \in Nat, NEW total \in Nat
  PROVE  /\ n < TotalPages(total) => n * Limit <= total
         /\ ~ (n < TotalPages(total)) => 2 * (total - n * Limit) < Limit
<1> DEFINE q == (2 * total + Limit) \div (2 * Limit)
           r == (2 * total + Limit) % (2 * Limit)
<1>1. Limit \in Nat /\ Limit > 0
  BY PaginationAssumption
<1>2. /\ q \in Int /\ r \in Int
      /\ 2 * total + Limit = 2 * Limit * q + r
      /\ 0 <= r /\ r < 2 * Limit
  BY <1>1
<1> HIDE DEF q, r
<1>3. TotalPages(total) = q
  BY DEF TotalPages, q
<1>4. ASSUME n < q
      PROVE  n * Limit <= total
  <2>1. PICK d \in Nat : q = n + 1 + d
    BY <1>2, <1>4, q - n - 1 \in Nat, q = n + 1 + (q - n - 1)
  <2>2. Limit * q = n * Limit + Limit + Limit * d /\ Limit * d \in Nat
    BY <1>1, <2>1
  <2> QED
    BY <1>1, <1>2, <2>2
<1>5. ASSUME ~ (n < q)
      PROVE  2 * (total - n * Limit) < Limit
  <2>1. PICK d \in Nat : n = q + d
    BY <1>2, <1>5, n - q \in Nat, n = q + (n - q)
  <2>2. n * Limit = Limit * q + Limit * d /\ Limit * d \in Nat
    BY <1>1, <1>2, <2>1
  <2> QED
    BY <1>1, <1>2, <2>2
<1> QED
  BY <1>3, <1>4, <1>5
-----------------------------------------------------------------------------
(***************************************************************************)
(* The inductive invariant.  What the client has read, or has passed       *)
(* without reading, lies before the offset of the next page; every message *)
(* passed was brought there by a deletion, or was stored where a deletion  *)
(* had made room before the offset.                                        *)
(***************************************************************************)
Offset == Len(pages) * Limit

Shown == UNION {pages[p] : p \in DOMAIN pages}

Passed == {m \in messages \ (late \cup Shown) : Before(m) < Offset}

ShownIsPassed == \A m \in Shown \cap messages : Before(m) < Offset

DeletionsPay ==
  /\ Cardinality(Passed) <= deleted
  /\ pc = "find" =>
       Cardinality(Passed) + Offset <= deleted + Cardinality(messages)

PagesInv ==
  /\ PaginationTypeOK
  /\ ShownIsPassed
  /\ PagesAreDisjoint
  /\ DeletionsPay
  /\ LittleIsMissed

LEMMA MessagesFinite ==
  ASSUME PaginationTypeOK
  PROVE  /\ messages \in SUBSET Nat /\ IsFiniteSet(messages)
         /\ Cardinality(messages) \in Nat
         /\ \A m \in messages : m < nextMessage
         /\ nextMessage \in Nat \ {0}
<1>1. nextMessage \in Nat \ {0}
  BY PaginationAssumption DEF PaginationTypeOK
<1>2. IsFiniteSet(1 .. (nextMessage - 1))
  BY <1>1, FS_Interval, 1 \in Int, nextMessage - 1 \in Int
<1>3. IsFiniteSet(messages)
  BY <1>2, FS_Subset DEF PaginationTypeOK
<1>4. Cardinality(messages) \in Nat
  BY <1>3, FS_CardinalityType
<1>5. messages \in SUBSET (1 .. (nextMessage - 1))
  BY DEF PaginationTypeOK
<1> QED
  BY <1>1, <1>3, <1>4, <1>5

LEMMA OffsetType ==
  ASSUME PaginationTypeOK
  PROVE  Len(pages) \in Nat /\ DOMAIN pages = 1 .. Len(pages) /\ Offset \in Nat
<1>1. Len(pages) \in Nat /\ DOMAIN pages = 1 .. Len(pages)
  BY DEF PaginationTypeOK
<1> QED
  BY <1>1, NextPage DEF Offset

\* Sets of messages are finite, and a larger one has no fewer.
LEMMA SetsOfMessages ==
  ASSUME PaginationTypeOK, NEW T \in SUBSET messages
  PROVE  /\ IsFiniteSet(T)
         /\ Cardinality(T) \in Nat
         /\ \A U \in SUBSET T : /\ IsFiniteSet(U)
                                /\ Cardinality(U) \in Nat
                                /\ Cardinality(U) <= Cardinality(T)
<1>1. IsFiniteSet(T)
  BY MessagesFinite, FS_Subset
<1> QED
  BY <1>1, FS_Subset, FS_CardinalityType

LEMMA InitPagesInv == PaginationInit => PagesInv
<1> SUFFICES ASSUME PaginationInit
             PROVE  PagesInv
  OBVIOUS
<1>1. nextMessage \in Nat \ {0}
  BY PaginationAssumption DEF PaginationInit
<1>2. PaginationTypeOK
  BY <1>1, PaginationAssumption DEF PaginationInit, PaginationTypeOK
<1>3. Len(pages) = 0 /\ Offset = 0 /\ Shown = {} /\ DOMAIN pages = {}
  BY PaginationAssumption DEF PaginationInit, Offset, Shown
<1>4. Passed = {}
  <2>1. \A m \in messages : Before(m) \in Nat
    BY <1>2, MessagesFinite, RankType DEF Before, Rank
  <2> QED
    BY <1>3, <2>1 DEF Passed
<1>5. ShownIsPassed /\ PagesAreDisjoint /\ LittleIsMissed
  BY <1>3 DEF PaginationInit, ShownIsPassed, PagesAreDisjoint, LittleIsMissed
<1>6. DeletionsPay
  BY <1>2, <1>3, <1>4, MessagesFinite, FS_EmptySet DEF PaginationInit,
     DeletionsPay
<1> QED
  BY <1>2, <1>5, <1>6 DEF PagesInv
-----------------------------------------------------------------------------
\* The rows of a page lie from the offset on, and are no more than Limit.
LEMMA RowsOfPage ==
  ASSUME PaginationTypeOK
  PROVE  /\ RowsOf(Len(pages) + 1) =
              {m \in messages : Before(m) \in Offset .. (Offset + Limit - 1)}
         /\ Cardinality(RowsOf(Len(pages) + 1)) <= Limit
<1> DEFINE R == {m \in messages : Before(m) \in Offset .. (Offset + Limit - 1)}
<1>1. Limit \in Nat \ {0} /\ Offset \in Nat /\ Offset + Limit \in Nat
  BY OffsetType, PaginationAssumption
<1>2. /\ ((Len(pages) + 1) - 1) * Limit = Offset
      /\ (Len(pages) + 1) * Limit = Offset + Limit
  <2>1. (Len(pages) + 1) - 1 = Len(pages)
    BY OffsetType
  <2> QED
    BY <2>1, OffsetType, NextPage DEF Offset
<1>3. RowsOf(Len(pages) + 1) = R
  <2>1. ((Len(pages) + 1) - 1) * Limit .. ((Len(pages) + 1) * Limit - 1)
          = Offset .. (Offset + Limit - 1)
    BY <1>1, <1>2
  <2> QED
    BY <2>1 DEF RowsOf
<1>4. R \in SUBSET messages
      /\ \A m \in R : Rank(messages, m) \in Offset .. ((Offset + Limit) - 1)
  <2>1. \A m \in messages : Rank(messages, m) = Before(m)
    BY DEF Before, Rank
  <2> QED
    BY <1>1, <2>1
<1> HIDE DEF R
<1>5. messages \in SUBSET Nat /\ IsFiniteSet(messages)
  BY MessagesFinite
<1>6. Cardinality(R) <= (Offset + Limit) - Offset
  <2>1. Offset <= Offset + Limit
    BY <1>1
  <2> QED
    BY <1>1, <1>4, <1>5, <2>1, RanksCount
<1>7. Cardinality(R) <= Limit
  BY <1>1, <1>6
<1> QED
  BY <1>3, <1>7 DEF R

\* A page is read: what lies before the next offset is shown or was passed.
LEMMA FindStep ==
  ASSUME PagesInv, Find
  PROVE  PagesInv'
<1> DEFINE n == Len(pages)
           R == RowsOf(n + 1)
<1>1. PaginationTypeOK
  BY DEF PagesInv
<1>2. /\ n \in Nat /\ DOMAIN pages = 1 .. n
      /\ Offset \in Nat /\ Limit \in Nat \ {0}
  BY <1>1, OffsetType, PaginationAssumption
<1>3. /\ pc = "find" /\ pc' = "count" /\ pages' = Append(pages, R)
      /\ UNCHANGED <<messages, nextMessage, late, deleted>>
  BY DEF Find, Page
<1>4. /\ R = {m \in messages : Before(m) \in Offset .. (Offset + Limit - 1)}
      /\ Cardinality(R) <= Limit
  BY <1>1, RowsOfPage
<1>5. R \in SUBSET (1 .. (nextMessage - 1))
  BY <1>1, <1>4 DEF PaginationTypeOK
<1> HIDE DEF R
<1>6. /\ Len(pages') = n + 1 /\ DOMAIN pages' = 1 .. (n + 1)
      /\ \A p \in DOMAIN pages : pages'[p] = pages[p]
      /\ pages'[n + 1] = R
      /\ pages' \in Seq(SUBSET (1 .. (nextMessage - 1)))
  BY <1>1, <1>2, <1>3, <1>5 DEF PaginationTypeOK
<1>7. Offset' = Offset + Limit
  BY <1>2, <1>6, NextPage DEF Offset
<1>8. Shown' = Shown \cup R
  BY <1>2, <1>6 DEF Shown
<1>9. PaginationTypeOK'
  <2>1. \A p \in 1 .. (n + 1) : p \in DOMAIN pages \/ p = n + 1
    BY <1>2
  <2>2. \A p \in DOMAIN pages' : Cardinality(pages'[p]) <= Limit
    BY <1>1, <1>4, <1>6, <2>1 DEF PaginationTypeOK
  <2>3. pc' \in {"find", "count", "end"}
    BY <1>3
  <2> QED
    BY <1>1, <1>3, <1>6, <2>2, <2>3 DEF PaginationTypeOK
<1>10. \A m \in messages : Before(m) \in Nat /\ Before(m)' = Before(m)
  BY <1>1, <1>3, MessagesFinite, RankType DEF Before, Rank
<1>11. ShownIsPassed'
  BY <1>2, <1>3, <1>4, <1>7, <1>8, <1>10 DEF PagesInv, ShownIsPassed
<1>12. PagesAreDisjoint'
  <2>1. \A p \in DOMAIN pages : pages[p] \cap R = {}
    BY <1>2, <1>4 DEF PagesInv, ShownIsPassed, Shown
  <2> QED
    BY <1>2, <1>6, <2>1 DEF PagesInv, PagesAreDisjoint
<1>13. Passed' \in SUBSET Passed
  BY <1>2, <1>3, <1>4, <1>7, <1>8, <1>10 DEF Passed
<1>14. DeletionsPay'
  <2>1. Cardinality(Passed') <= Cardinality(Passed)
        /\ Cardinality(Passed') \in Nat /\ Cardinality(Passed) \in Nat
    BY <1>1, <1>13, SetsOfMessages DEF Passed
  <2>2. Cardinality(Passed) <= deleted /\ deleted \in Nat
    BY <1>1, PaginationAssumption DEF PagesInv, DeletionsPay, PaginationTypeOK
  <2> QED
    BY <1>3, <2>1, <2>2 DEF DeletionsPay
<1>15. LittleIsMissed'
  BY <1>3 DEF LittleIsMissed
<1> QED
  BY <1>9, <1>11, <1>12, <1>14, <1>15 DEF PagesInv

\* The client follows the link if there is one; if there is none, less than half
\* a page lies behind the offset.
LEMMA CountStep ==
  ASSUME PagesInv, Count
  PROVE  PagesInv'
<1> DEFINE n == Len(pages)
           total == Cardinality(messages)
<1>1. PaginationTypeOK
  BY DEF PagesInv
<1>2. /\ n \in Nat /\ Offset \in Nat /\ total \in Nat /\ deleted \in Nat
      /\ Limit \in Nat \ {0}
  BY <1>1, OffsetType, MessagesFinite, PaginationAssumption DEF PaginationTypeOK
<1>3. /\ pc = "count" /\ pc' = IF n < TotalPages(total) THEN "find" ELSE "end"
      /\ UNCHANGED <<messages, nextMessage, pages, late, deleted>>
  BY DEF Count, HasMore, Page
<1>4. /\ PaginationTypeOK' /\ ShownIsPassed' /\ PagesAreDisjoint'
      /\ Passed' = Passed /\ Offset' = Offset
  BY <1>1, <1>3 DEF PagesInv, PaginationTypeOK, ShownIsPassed, PagesAreDisjoint,
     Passed, Shown, Offset, Before
<1>5. Cardinality(Passed) \in Nat /\ Cardinality(Passed) <= deleted
  BY <1>1, SetsOfMessages DEF PagesInv, DeletionsPay, Passed
<1> HIDE DEF total
<1>6. DeletionsPay'
  <2>1. pc' = "find" => Offset <= total
    BY <1>2, <1>3, LastPage DEF Offset
  <2> QED
    BY <1>2, <1>3, <1>4, <1>5, <2>1 DEF DeletionsPay, total
<1>7. ASSUME pc' = "end"
      PROVE  2 * (Cardinality(Missed) - deleted) < Limit
  <2> DEFINE Behind == {m \in Missed : ~ (Before(m) < Offset)}
  <2>1. 2 * (total - Offset) < Limit
    BY <1>2, <1>3, <1>7, LastPage DEF Offset
  <2>2. Missed = Passed \cup Behind /\ Passed \cap Behind = {}
        /\ Behind \in SUBSET messages /\ Passed \in SUBSET messages
    BY DEF Missed, Passed, Shown
  <2>3. \A m \in Behind : Rank(messages, m) \in Offset .. (total - 1)
    BY <1>1, <1>2, MessagesFinite, RankType DEF Missed, Before, Rank, total
  <2> HIDE DEF Behind
  <2>4. /\ Cardinality(Behind) \in Nat
        /\ Offset <= total => Cardinality(Behind) <= total - Offset
        /\ total <= Offset => Cardinality(Behind) = 0
    BY <1>1, <1>2, <2>2, <2>3, MessagesFinite, RanksCount
  <2>5. Cardinality(Missed) = Cardinality(Passed) + Cardinality(Behind)
    <3>1. IsFiniteSet(Passed) /\ IsFiniteSet(Behind)
      BY <1>1, <2>2, SetsOfMessages
    <3> QED
      BY <1>5, <2>2, <2>4, <3>1, FS_Union, FS_EmptySet
  <2> QED
    BY <1>2, <1>5, <2>1, <2>4, <2>5
<1>8. LittleIsMissed'
  BY <1>3, <1>7 DEF LittleIsMissed, Missed
<1> QED
  BY <1>4, <1>6, <1>8 DEF PagesInv
-----------------------------------------------------------------------------
\* A message is stored after all others: it is passed only where deletions have
\* left less than an offset of rows.
LEMMA CreateStep ==
  ASSUME PagesInv, SendMessage
  PROVE  PagesInv'
<1> DEFINE total == Cardinality(messages)
<1>1. PaginationTypeOK
  BY DEF PagesInv
<1>2. PICK x \in Nat \ {0} : x = nextMessage
  BY <1>1, MessagesFinite
<1>3. /\ messages \in SUBSET Nat /\ IsFiniteSet(messages)
      /\ \A m \in messages : m < x
      /\ x \in Nat \ {0} /\ x <= MaxMessages /\ total \in Nat
      /\ Offset \in Nat /\ deleted \in Nat /\ MaxMessages \in Nat
  BY <1>1, <1>2, MessagesFinite, OffsetType, PaginationAssumption
     DEF SendMessage, PaginationTypeOK
<1>4. /\ pc # "end" /\ messages' = messages \cup {x} /\ nextMessage' = x + 1
      /\ late' = (IF pc = "count" THEN late \cup {x} ELSE late)
      /\ UNCHANGED <<pc, pages, deleted>>
  BY <1>2 DEF SendMessage
<1>5. x \notin messages /\ x \notin late /\ x \notin Shown
  <2>1. \A i \in 1 .. (x - 1) : i # x
    BY <1>3
  <2> QED
    BY <1>1, <1>2, <1>3, <2>1 DEF PaginationTypeOK, Shown
<1>6. /\ Cardinality(messages') = total + 1
      /\ Offset' = Offset /\ Shown' = Shown
  <2>1. Cardinality(messages \cup {x}) = total + 1
    BY <1>3, <1>5, FS_AddElement
  <2> QED
    BY <1>4, <2>1 DEF Offset, Shown
<1>7. PaginationTypeOK'
  <2>1. 1 .. (x - 1) \subseteq 1 .. ((x + 1) - 1) /\ x \in 1 .. ((x + 1) - 1)
        /\ x + 1 \in 1 .. (MaxMessages + 1)
    BY <1>3
  <2>2. pages \in Seq(SUBSET (1 .. ((x + 1) - 1)))
    <3>1. /\ Len(pages) \in Nat /\ DOMAIN pages = 1 .. Len(pages)
          /\ pages \in [1 .. Len(pages) -> SUBSET (1 .. ((x + 1) - 1))]
      BY <1>1, <1>2, <2>1, OffsetType DEF PaginationTypeOK
    <3> QED
      BY <3>1, SeqDef
  <2> QED
    BY <1>1, <1>2, <1>4, <2>1, <2>2 DEF PaginationTypeOK
<1>8. /\ \A m \in messages : Before(m)' = Before(m)
      /\ Before(x)' = total
  <2>1. /\ \A m \in messages : Rank(messages \cup {x}, m) = Rank(messages, m)
        /\ Rank(messages \cup {x}, x) = total
    BY <1>3, RankAfterInsert
  <2>2. \A m : Before(m) = Rank(messages, m) /\ Before(m)' = Rank(messages', m)
    BY DEF Before, Rank
  <2> QED
    BY <1>4, <2>1, <2>2
<1>9. ShownIsPassed'
  BY <1>4, <1>5, <1>6, <1>8 DEF PagesInv, ShownIsPassed
<1>10. PagesAreDisjoint' /\ LittleIsMissed'
  BY <1>4 DEF PagesInv, PagesAreDisjoint, LittleIsMissed
<1>11. DeletionsPay'
  <2>1. /\ Passed \in SUBSET messages /\ IsFiniteSet(Passed)
        /\ Cardinality(Passed) \in Nat
    BY <1>1, SetsOfMessages DEF Passed
  <2>2. CASE pc = "find" /\ total < Offset
    <3>1. Passed' = Passed \cup {x} /\ x \notin Passed
      BY <1>3, <1>4, <1>5, <1>6, <1>8, <2>2 DEF Passed
    <3>2. Cardinality(Passed') = Cardinality(Passed) + 1
      BY <2>1, <3>1, FS_AddElement
    <3> QED
      BY <1>3, <1>4, <1>6, <2>1, <2>2, <3>2 DEF PagesInv, DeletionsPay
  <2>3. CASE pc # "find" \/ Offset <= total
    <3>1. Passed' = Passed
      <4>1. x \notin Passed'
        BY <1>1, <1>3, <1>4, <1>6, <1>8, <2>3 DEF Passed, PaginationTypeOK
      <4> QED
        BY <1>4, <1>5, <1>6, <1>8, <4>1 DEF Passed
    <3> QED
      BY <1>3, <1>4, <1>6, <2>1, <2>3, <3>1 DEF PagesInv, DeletionsPay
  <2> QED
    BY <1>3, <2>2, <2>3
<1> QED
  BY <1>7, <1>9, <1>10, <1>11 DEF PagesInv

\* A message is deleted: the one behind the offset, if there is one, is passed.
LEMMA DeleteStep ==
  ASSUME PagesInv, DeleteMessage
  PROVE  PagesInv'
<1> DEFINE total == Cardinality(messages)
<1>1. PaginationTypeOK
  BY DEF PagesInv
<1>2. PICK d \in messages : messages' = messages \ {d}
  BY DEF DeleteMessage
<1>3. /\ messages \in SUBSET Nat /\ IsFiniteSet(messages) /\ total \in Nat
      /\ Offset \in Nat /\ deleted \in Nat /\ MaxDeletions \in Nat
      /\ deleted < MaxDeletions
  BY <1>1, MessagesFinite, OffsetType, PaginationAssumption
     DEF DeleteMessage, PaginationTypeOK
<1>4. /\ pc # "end" /\ deleted' = deleted + 1
      /\ UNCHANGED <<nextMessage, pc, pages, late>>
  BY DEF DeleteMessage
<1>5. /\ Cardinality(messages') = total - 1
      /\ Offset' = Offset /\ Shown' = Shown
  <2>1. Cardinality(messages \ {d}) = total - 1
    BY <1>3, FS_RemoveElement
  <2> QED
    BY <1>2, <1>4, <2>1 DEF Offset, Shown
<1>6. PaginationTypeOK'
  BY <1>1, <1>2, <1>3, <1>4 DEF PaginationTypeOK
<1>7. \A m \in messages' :
        Before(m)' = IF d < m THEN Before(m) - 1 ELSE Before(m)
  <2>1. \A m \in messages \ {d} : Rank(messages \ {d}, m) =
          IF d < m THEN Rank(messages, m) - 1 ELSE Rank(messages, m)
    BY <1>3, RankAfterDelete
  <2>2. \A m : Before(m) = Rank(messages, m) /\ Before(m)' = Rank(messages', m)
    BY DEF Before, Rank
  <2> QED
    BY <1>2, <2>1, <2>2
<1>8. \A m \in messages : Before(m) \in Nat /\ Before(m) < total
  BY <1>3, RankType DEF Before, Rank
<1>9. ShownIsPassed'
  <2>1. ASSUME NEW m \in Shown' \cap messages'
        PROVE  Before(m)' < Offset'
    <3>1. m \in messages' /\ m \in messages /\ Before(m) < Offset
      BY <1>2, <1>5 DEF PagesInv, ShownIsPassed
    <3>2. Before(m)' = Before(m) - 1 \/ Before(m)' = Before(m)
      BY <1>7, <3>1
    <3>3. Before(m) \in Nat
      BY <1>8, <3>1
    <3> QED
      BY <1>3, <1>5, <3>1, <3>2, <3>3
  <2> QED
    BY <2>1 DEF ShownIsPassed
<1>10. PagesAreDisjoint' /\ LittleIsMissed'
  BY <1>4 DEF PagesInv, PagesAreDisjoint, LittleIsMissed
<1>11. DeletionsPay'
  <2>1. /\ Passed \in SUBSET messages /\ IsFiniteSet(Passed)
        /\ Cardinality(Passed) \in Nat
    BY <1>1, SetsOfMessages DEF Passed
  <2>2. \A m \in Passed' : m \in messages /\ (m \in Passed \/ Before(m) = Offset)
    BY <1>2, <1>3, <1>4, <1>5, <1>7, <1>8 DEF Passed
  <2>3. /\ Cardinality(Passed') \in Nat
        /\ Cardinality(Passed') <= Cardinality(Passed) + 1
        /\ total <= Offset => Cardinality(Passed') <= Cardinality(Passed)
    <3>1. CASE \A m \in messages : Before(m) # Offset
      <4>1. Passed' \in SUBSET Passed
        BY <2>2, <3>1
      <4> QED
        BY <1>1, <2>1, <4>1, SetsOfMessages
    <3>2. CASE \E m \in messages : Before(m) = Offset
      <4>1. PICK m \in messages : Before(m) = Offset
        BY <3>2
      <4>2. \A k \in messages : Before(k) = Offset => k = m
        BY <1>3, <4>1, RankIsInjective DEF Before, Rank
      <4>3. Passed' \in SUBSET (Passed \cup {m})
        BY <2>2, <4>2
      <4>4. /\ Passed \cup {m} \in SUBSET messages
            /\ Cardinality(Passed \cup {m}) \in Nat
            /\ Cardinality(Passed \cup {m}) <= Cardinality(Passed) + 1
        <5>1. Cardinality(Passed \cup {m}) =
                IF m \in Passed THEN Cardinality(Passed)
                ELSE Cardinality(Passed) + 1
          BY <2>1, FS_AddElement
        <5> QED
          BY <2>1, <4>1, <5>1
      <4>5. ~ (total <= Offset)
        BY <1>3, <1>8, <4>1
      <4>6. /\ Cardinality(Passed') \in Nat
            /\ Cardinality(Passed') <= Cardinality(Passed \cup {m})
        BY <1>1, <4>3, <4>4, SetsOfMessages
      <4> QED
        BY <2>1, <4>4, <4>5, <4>6
    <3> QED
      BY <3>1, <3>2
  <2>4. /\ Cardinality(Passed) <= deleted
        /\ pc = "find" => Cardinality(Passed) + Offset <= deleted + total
    BY DEF PagesInv, DeletionsPay
  <2> HIDE DEF total
  <2>5. Cardinality(Passed') <= deleted + 1
    BY <1>3, <2>1, <2>3, <2>4
  <2>6. pc = "find" =>
          Cardinality(Passed') + Offset <= (deleted + 1) + (total - 1)
    BY <1>3, <2>1, <2>3, <2>4, <2>5
  <2> QED
    BY <1>4, <1>5, <2>5, <2>6 DEF DeletionsPay
<1> QED
  BY <1>6, <1>9, <1>10, <1>11 DEF PagesInv

THEOREM PagesInvariance == PaginationSpec => []PagesInv
<1>1. PaginationInit => PagesInv
  BY InitPagesInv
<1>2. PagesInv /\ [PaginationNext]_pageVars => PagesInv'
  <2> SUFFICES ASSUME PagesInv, [PaginationNext]_pageVars
               PROVE  PagesInv'
    OBVIOUS
  <2>1. CASE Find
    BY <2>1, FindStep
  <2>2. CASE Count
    BY <2>2, CountStep
  <2>3. CASE SendMessage
    BY <2>3, CreateStep
  <2>4. CASE DeleteMessage
    BY <2>4, DeleteStep
  <2>5. CASE UNCHANGED pageVars
    BY <2>5 DEF pageVars, PagesInv, PaginationTypeOK, ShownIsPassed,
       PagesAreDisjoint, DeletionsPay, LittleIsMissed, Missed, Passed, Shown,
       Offset, Before
  <2> QED
    BY <2>1, <2>2, <2>3, <2>4, <2>5 DEF PaginationNext
<1> QED
  BY <1>1, <1>2, PTL DEF PaginationSpec

(***************************************************************************)
(* The pages and the rows they were cut from keep their types: in          *)
(* particular no page has more than Limit rows.                            *)
(***************************************************************************)
THEOREM PagesTypeCorrectness == PaginationSpec => []PaginationTypeOK
<1>1. PagesInv => PaginationTypeOK
  BY DEF PagesInv
<1> QED
  BY <1>1, PagesInvariance, PTL

(***************************************************************************)
(* A client that follows the links of paginate is shown no message twice,  *)
(* whatever is stored and deleted while it reads.                          *)
(***************************************************************************)
THEOREM NothingIsShownTwice == PaginationSpec => []PagesAreDisjoint
<1>1. PagesInv => PagesAreDisjoint
  BY DEF PagesInv
<1> QED
  BY <1>1, PagesInvariance, PTL

(***************************************************************************)
(* When there is no link any more, what was missed is at most one message  *)
(* for each deletion, and less than half a page for the rounding.          *)
(***************************************************************************)
THEOREM MissesAreExplained == PaginationSpec => []LittleIsMissed
<1>1. PagesInv => LittleIsMissed
  BY DEF PagesInv
<1> QED
  BY <1>1, PagesInvariance, PTL
=============================================================================
