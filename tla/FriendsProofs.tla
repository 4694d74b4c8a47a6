--------------------------- MODULE FriendsProofs ---------------------------
(***************************************************************************)
(* Friends implements InvitationLifecycle for any accounts, channels and   *)
(* number of concurrent handlers, and what its checks still guarantee.     *)
(***************************************************************************)
EXTENDS Friends, RepositoryProofs

Sending == {"ws_sent", "ws_received", "add_accepted", "add_pending",
            "add_received", "insert"}

\* No invitation from a to b was pending before since.
Later(table, a, b, since) ==
  \A i \in Rows(table, a, b, {"pending"}) : i >= since

\* Some invitation of the two accounts has ended.
Ended(table, a, b) ==
  Rows(table, a, b, Finals) # {} \/ Rows(table, b, a, Finals) # {}

\* What a sending handler has ruled out so far.
RuledOut(table, serial, h) ==
  /\ h.pc \in Sending => h.since <= serial
  /\ h.pc \in {"ws_sent", "ws_received"} => h.via = "ws"
  /\ h.pc \in {"ws_received", "add_received"} =>
       Later(table, h.sender, h.receiver, h.since)
  /\ h.pc = "insert" =>
       \/ /\ Later(table, h.sender, h.receiver, h.since)
          /\ Later(table, h.receiver, h.sender, h.since)
       \/ h.via = "ws" /\ Ended(table, h.sender, h.receiver)

SendersRuledOut ==
  \A r \in Request : RuledOut(invitations, nextInvitation, reqs[r])

\* What was rejected or canceled keeps that status until it is read back.
TouchedStay ==
  \A r \in Request :
    reqs[r].pc = "read" /\ reqs[r].to # "accepted" =>
      /\ reqs[r].touched # {}
      /\ reqs[r].touched \subseteq
           Rows(invitations, reqs[r].sender, reqs[r].receiver, {reqs[r].to})

\* The database hands out no id above the bound.
IdsBounded == nextInvitation <= MaxInvitations + 1

IInv ==
  /\ TypeOK /\ IdsBounded /\ SendersRuledOut /\ TouchedStay
  /\ AnswerEventsCarryARow

LEMMA InitIInv == Init => IInv
  BY FriendsAssumption DEF Init, IInv, TypeOK, IdsBounded, SendersRuledOut,
     RuledOut, Sending, TouchedStay, AnswerEventsCarryARow, NoRows, Idle

\* The kind of a handler follows from where it is suspended.
LEMMA HandlerKinds ==
  ASSUME TypeOK, NEW r \in Request
  PROVE  /\ reqs[r].pc \in {"ws_sent", "ws_received", "add_accepted",
              "add_pending", "add_received", "insert"} =>
                reqs[r] \in SendHandler
         /\ reqs[r].pc \in {"guard", "update", "read"} =>
              reqs[r] \in AnswerHandler
         /\ reqs[r].pc \in {"withdraw", "remove"} => reqs[r] \in OtherHandler
  BY DEF TypeOK, SendHandler, AnswerHandler, OtherHandler, Idle

LEMMA RowsType ==
  ASSUME TypeOK, NEW a, NEW b, NEW statuses
  PROVE  Rows(invitations, a, b, statuses) \in SUBSET (Nat \ {0})
  BY DEF TypeOK, Rows

\* A step that leaves the table alone: what is left is that the one handler
\* that moved claims nothing it has not checked.
LEMMA HandlerStep ==
  ASSUME IInv, NEW r \in Request,
         NEW h \in SendHandler \cup AnswerHandler \cup OtherHandler \cup {Idle},
         reqs' = [reqs EXCEPT ![r] = h],
         UNCHANGED <<invitations, nextInvitation>>,
         emitted' \in SUBSET [to : {"accepted", "rejected", "canceled"},
                              payload : Nat, touched : SUBSET Nat],
         AnswerEventsCarryARow',
         RuledOut(invitations, nextInvitation, h),
         h.pc # "read"
  PROVE  IInv'
<1>1. reqs'[r] = h /\ \A q \in Request : q # r => reqs'[q] = reqs[q]
  BY DEF IInv, TypeOK
<1>2. TypeOK' /\ IdsBounded'
  BY DEF IInv, TypeOK, IdsBounded
<1>3. SendersRuledOut'
  BY <1>1 DEF IInv, SendersRuledOut
<1>4. TouchedStay'
  BY <1>1 DEF IInv, TouchedStay, Rows
<1> QED
  BY <1>2, <1>3, <1>4 DEF IInv

\* A handler that does not send claims nothing.
LEMMA NotSending ==
  ASSUME NEW h, h.pc \notin Sending, NEW table, NEW serial
  PROVE  RuledOut(table, serial, h)
  BY DEF RuledOut, Sending

\* A step that changes the table: no row becomes pending but the one inserted,
\* and no row that ended is touched.
TableMoves ==
  /\ nextInvitation' \in Nat \ {0}
  /\ nextInvitation <= nextInvitation'
  /\ nextInvitation' <= MaxInvitations + 1
  /\ invitations' \in [DOMAIN invitations' -> InvitationRow]
  /\ DOMAIN invitations' \subseteq 1 .. (nextInvitation' - 1)
  /\ \A i \in DOMAIN invitations' :
       invitations'[i].request_status = "pending" =>
         \/ i = nextInvitation
         \/ i \in DOMAIN invitations /\ invitations'[i] = invitations[i]
  /\ \A i \in DOMAIN invitations :
       invitations[i].request_status \in Finals =>
         i \in DOMAIN invitations' /\ invitations'[i] = invitations[i]

\* What the other handlers had ruled out stays so.
LEMMA RuledOutStays ==
  ASSUME IInv, TableMoves, NEW q \in Request
  PROVE  RuledOut(invitations', nextInvitation', reqs[q])
<1> DEFINE h == reqs[q]
<1>1. CASE h.pc \notin Sending
  BY <1>1, NotSending
<1>2. CASE h.pc \in Sending
  <2>1. h \in SendHandler
    BY <1>2, HandlerKinds DEF IInv, Sending
  <2>2. /\ h.since \in Nat /\ nextInvitation \in Nat /\ nextInvitation' \in Nat
        /\ RuledOut(invitations, nextInvitation, h)
        /\ h.since <= nextInvitation
    BY <1>2, <2>1 DEF IInv, TypeOK, SendHandler, SendersRuledOut, RuledOut,
       TableMoves
  <2>3. h.since <= nextInvitation' /\ nextInvitation >= h.since
    BY <2>2 DEF TableMoves
  <2>4. \A a, b : Later(invitations, a, b, h.since) =>
                    Later(invitations', a, b, h.since)
    <3>1. \A a, b : \A i \in Rows(invitations', a, b, {"pending"}) :
            i = nextInvitation \/ i \in Rows(invitations, a, b, {"pending"})
      BY DEF Rows, TableMoves
    <3> HIDE DEF h
    <3> QED
      BY <2>3, <3>1 DEF Later
  <2>5. \A a, b : Ended(invitations, a, b) => Ended(invitations', a, b)
    <3>1. \A a, b : Rows(invitations, a, b, Finals)
                      \subseteq Rows(invitations', a, b, Finals)
      BY DEF Rows, TableMoves
    <3> QED
      BY <3>1 DEF Ended
  <2> HIDE DEF h
  <2>6. RuledOut(invitations', nextInvitation', h)
    BY <2>2, <2>3, <2>4, <2>5 DEF RuledOut
  <2> QED
    BY <2>6 DEF h
<1> QED
  BY <1>1, <1>2

LEMMA TableStep ==
  ASSUME IInv, NEW r \in Request,
         NEW h \in AnswerHandler \cup {Idle},
         reqs' = [reqs EXCEPT ![r] = h],
         TableMoves,
         UNCHANGED emitted,
         h = Idle \/
           /\ h.pc = "read"
           /\ h.touched # {}
           /\ h.touched \subseteq Rows(invitations', h.sender, h.receiver, {h.to})
  PROVE  IInv'
<1>1. reqs'[r] = h /\ \A q \in Request : q # r => reqs'[q] = reqs[q]
  BY DEF IInv, TypeOK
<1>2. TypeOK' /\ IdsBounded'
  BY DEF IInv, TypeOK, IdsBounded, TableMoves
<1>3. h.pc \notin Sending
  BY DEF Idle, Sending
<1>4. SendersRuledOut'
  BY <1>1, <1>3, NotSending, RuledOutStays DEF SendersRuledOut
<1>5. \A a, b : \A to \in {"rejected", "canceled"} :
        Rows(invitations, a, b, {to}) \subseteq Rows(invitations', a, b, {to})
  BY DEF Rows, TableMoves, Finals
<1>6. TouchedStay'
  <2>1. SUFFICES ASSUME NEW q \in Request, reqs'[q].pc = "read",
                        reqs'[q].to # "accepted"
                 PROVE  /\ reqs'[q].touched # {}
                        /\ reqs'[q].touched \subseteq
                             Rows(invitations', reqs'[q].sender,
                                  reqs'[q].receiver, {reqs'[q].to})
    BY DEF TouchedStay, Rows
  <2>2. CASE q = r
    <3>1. reqs'[q] = h /\ h # Idle
      BY <1>1, <2>1, <2>2 DEF Idle
    <3> QED
      BY <3>1
  <2>3. CASE q # r
    <3>1. reqs'[q] = reqs[q]
      BY <1>1, <2>3
    <3>2. reqs[q].to \in {"rejected", "canceled"}
      BY <2>1, <3>1, HandlerKinds DEF IInv, AnswerHandler
    <3>3. /\ reqs[q].touched # {}
          /\ reqs[q].touched \subseteq
               Rows(invitations, reqs[q].sender, reqs[q].receiver, {reqs[q].to})
      BY <2>1, <3>1 DEF IInv, TouchedStay
    <3> QED
      BY <1>5, <3>1, <3>2, <3>3
  <2> QED
    BY <2>2, <2>3
<1> QED
  BY <1>2, <1>4, <1>6 DEF IInv, AnswerEventsCarryARow

\* A step that sends nothing leaves the last event as it was.
LEMMA EventsStay ==
  ASSUME IInv, UNCHANGED emitted
  PROVE  /\ emitted' \in SUBSET [to : {"accepted", "rejected", "canceled"},
                                 payload : Nat, touched : SUBSET Nat]
         /\ AnswerEventsCarryARow'
  BY DEF IInv, TypeOK, AnswerEventsCarryARow

\* A handler that ends without touching the table.
LEMMA FinishStep ==
  ASSUME IInv, NEW r \in Request, Finish(r), KeepTable
  PROVE  IInv'
<1>1. Idle.pc \notin Sending /\ Idle.pc # "read"
  BY DEF Idle, Sending
<1> QED
  BY <1>1, HandlerStep, NotSending, EventsStay DEF Finish, KeepTable

\* A sending handler that goes on to its next statement.
LEMMA SendGotoStep ==
  ASSUME IInv, NEW r \in Request, reqs[r] \in SendHandler, KeepTable,
         reqs[r].pc \in Sending,
         NEW label \in {"ws_received", "add_pending", "add_received", "insert"},
         Goto(r, label),
         label = "ws_received" => reqs[r].via = "ws",
         label \in {"ws_received", "add_received"} =>
           Later(invitations, reqs[r].sender, reqs[r].receiver, reqs[r].since),
         label = "insert" =>
           \/ /\ Later(invitations, reqs[r].sender, reqs[r].receiver,
                       reqs[r].since)
              /\ Later(invitations, reqs[r].receiver, reqs[r].sender,
                       reqs[r].since)
           \/ /\ reqs[r].via = "ws"
              /\ Ended(invitations, reqs[r].sender, reqs[r].receiver)
  PROVE  IInv'
<1> DEFINE h == [reqs[r] EXCEPT !.pc = label]
<1>1. /\ h \in SendHandler /\ h.pc = label
      /\ h.via = reqs[r].via /\ h.since = reqs[r].since
      /\ h.sender = reqs[r].sender /\ h.receiver = reqs[r].receiver
  BY DEF SendHandler
<1>2. reqs' = [reqs EXCEPT ![r] = h]
  BY DEF Goto
<1>3. reqs[r].since <= nextInvitation
  BY DEF IInv, SendersRuledOut, RuledOut
<1> HIDE DEF h
<1>4. RuledOut(invitations, nextInvitation, h)
  BY <1>1, <1>3 DEF RuledOut
<1> QED
  BY <1>1, <1>2, <1>4, HandlerStep, EventsStay DEF KeepTable

\* The serials are above every row, so a row that is not there yet comes after
\* every handler that has arrived.
LEMMA StartSendStep ==
  ASSUME IInv, NEW r \in Request, StartSend(r)
  PROVE  IInv'
<1>1. PICK me, him \in Account, via \in Channel :
        reqs' = [reqs EXCEPT ![r] =
          [pc |-> IF via = "ws" THEN "ws_sent" ELSE "add_accepted",
           via |-> via, sender |-> me, receiver |-> him,
           since |-> nextInvitation]]
  BY DEF StartSend
<1> DEFINE h == [pc |-> IF via = "ws" THEN "ws_sent" ELSE "add_accepted",
                 via |-> via, sender |-> me, receiver |-> him,
                 since |-> nextInvitation]
<1>2. via \in {"ws", "http"} /\ nextInvitation \in Nat
  BY FriendsAssumption DEF IInv, TypeOK
<1>3. /\ h \in SendHandler /\ h.pc \in {"ws_sent", "add_accepted"}
      /\ h.since = nextInvitation
      /\ h.pc = "ws_sent" => h.via = "ws"
  BY <1>2 DEF SendHandler
<1>4. reqs' = [reqs EXCEPT ![r] = h]
  BY <1>1
<1>5. UNCHANGED <<invitations, nextInvitation, emitted>>
  BY DEF StartSend, KeepTable
<1> HIDE DEF h
<1>6. RuledOut(invitations, nextInvitation, h)
  BY <1>2, <1>3 DEF RuledOut
<1> QED
  BY <1>3, <1>4, <1>5, <1>6, HandlerStep, EventsStay

\* A first row that is not active has ended, and without one none is pending.
LEMMA FirstRow ==
  ASSUME IInv, NEW a, NEW b, NEW since,
         NEW found, found = FindOne(Rows(invitations, a, b, RequestStatus))
  PROVE  /\ found = Null => Later(invitations, a, b, since)
         /\ found # Null /\ ~ Active(found) =>
              found \in Rows(invitations, a, b, Finals)
<1> DEFINE ids == Rows(invitations, a, b, RequestStatus)
<1>1. /\ found \in ids \cup {Null}
      /\ found = Null <=> ids = {}
  BY RowsType, FindOneType DEF IInv
<1>2. Rows(invitations, a, b, {"pending"}) \subseteq ids
  BY DEF Rows, RequestStatus
<1>3. \A i \in ids : ~ Active(i) => i \in Rows(invitations, a, b, Finals)
  BY DEF Rows, Active, RequestStatus, Finals
<1> HIDE DEF ids
<1>4. found = Null => Rows(invitations, a, b, {"pending"}) = {}
  BY <1>1, <1>2
<1> QED
  BY <1>1, <1>3, <1>4 DEF Later

LEMMA GuardsStep ==
  ASSUME IInv, NEW r \in Request, GuardSent(r) \/ GuardReceived(r)
  PROVE  IInv'
<1> DEFINE me == reqs[r].sender
           him == reqs[r].receiver
           sent == FindOne(Rows(invitations, me, him, RequestStatus))
           received == FindOne(Rows(invitations, him, me, RequestStatus))
<1>1. reqs[r].pc \in {"ws_sent", "ws_received"} /\ KeepTable
  BY DEF GuardSent, GuardReceived
<1>2. reqs[r] \in SendHandler /\ reqs[r].pc \in Sending /\ reqs[r].via = "ws"
  BY <1>1, HandlerKinds DEF IInv, SendersRuledOut, RuledOut, Sending
<1>3. /\ sent = Null => Later(invitations, me, him, reqs[r].since)
      /\ sent # Null /\ ~ Active(sent) => Ended(invitations, me, him)
  <2>1. sent # Null /\ ~ Active(sent) => Rows(invitations, me, him, Finals) # {}
    BY FirstRow
  <2> QED
    BY <2>1, FirstRow DEF Ended
<1>4. /\ received = Null => Later(invitations, him, me, reqs[r].since)
      /\ received # Null /\ ~ Active(received) => Ended(invitations, me, him)
  <2>1. received # Null /\ ~ Active(received) =>
          Rows(invitations, him, me, Finals) # {}
    BY FirstRow
  <2> QED
    BY <2>1, FirstRow DEF Ended
<1>5. CASE GuardSent(r)
  <2>1. \/ Finish(r)
        \/ sent = Null /\ Goto(r, "ws_received")
        \/ sent # Null /\ ~ Active(sent) /\ Goto(r, "insert")
    BY <1>5 DEF GuardSent
  <2> HIDE DEF sent
  <2> QED
    BY <1>1, <1>2, <1>3, <2>1, FinishStep, SendGotoStep
<1>6. CASE GuardReceived(r)
  <2>1. \/ Finish(r)
        \/ (received = Null \/ ~ Active(received)) /\ Goto(r, "insert")
    BY <1>6 DEF GuardReceived
  <2>2. Later(invitations, me, him, reqs[r].since)
    BY <1>6 DEF GuardReceived, IInv, SendersRuledOut, RuledOut
  <2> HIDE DEF received
  <2> QED
    BY <1>1, <1>2, <1>4, <2>1, <2>2, FinishStep, SendGotoStep
<1> QED
  BY <1>5, <1>6

LEMMA ChecksStep ==
  ASSUME IInv, NEW r \in Request,
         CheckAccepted(r) \/ CheckPending(r) \/ CheckReceived(r)
  PROVE  IInv'
<1>1. reqs[r].pc \in {"add_accepted", "add_pending", "add_received"} /\ KeepTable
  BY DEF CheckAccepted, CheckPending, CheckReceived
<1>2. reqs[r] \in SendHandler /\ reqs[r].pc \in Sending
  BY <1>1, HandlerKinds DEF IInv, Sending
<1>3. CASE CheckAccepted(r)
  <2>1. Finish(r) \/ Goto(r, "add_pending")
    BY <1>3 DEF CheckAccepted
  <2> QED
    BY <1>1, <1>2, <2>1, FinishStep, SendGotoStep
<1>4. CASE CheckPending(r)
  <2>1. \/ Finish(r)
        \/ /\ Goto(r, "add_received")
           /\ Later(invitations, reqs[r].sender, reqs[r].receiver,
                    reqs[r].since)
    BY <1>4 DEF CheckPending, Later
  <2> QED
    BY <1>1, <1>2, <2>1, FinishStep, SendGotoStep
<1>5. CASE CheckReceived(r)
  <2>1. \/ Finish(r)
        \/ /\ Goto(r, "insert")
           /\ Later(invitations, reqs[r].receiver, reqs[r].sender,
                    reqs[r].since)
    BY <1>5 DEF CheckReceived, Later
  <2>2. Later(invitations, reqs[r].sender, reqs[r].receiver, reqs[r].since)
    BY <1>5 DEF CheckReceived, IInv, SendersRuledOut, RuledOut
  <2> QED
    BY <1>1, <1>2, <2>1, <2>2, FinishStep, SendGotoStep
<1> QED
  BY <1>3, <1>4, <1>5

LEMMA SendStep ==
  ASSUME IInv, NEW r \in Request, Send(r)
  PROVE  IInv' \/ CreateInvitation(r)
  BY StartSendStep, GuardsStep, ChecksStep DEF Send

LEMMA CreateInvitationStep ==
  ASSUME IInv, NEW r \in Request, CreateInvitation(r)
  PROVE  IInv'
<1> DEFINE row == [sender |-> reqs[r].sender, receiver |-> reqs[r].receiver,
                   request_status |-> "pending"]
<1>1. reqs[r] \in SendHandler
  BY HandlerKinds DEF IInv, CreateInvitation
<1>2. row \in InvitationRow
  BY <1>1 DEF SendHandler, InvitationRow, RequestStatus
<1>3. /\ nextInvitation \in Nat \ {0}
      /\ invitations \in [DOMAIN invitations -> InvitationRow]
      /\ DOMAIN invitations \subseteq 1 .. (nextInvitation - 1)
      /\ MaxInvitations \in Nat
  BY FriendsAssumption DEF IInv, TypeOK
<1>4. /\ invitations' = Insert(invitations, nextInvitation, row)
      /\ nextInvitation' = nextInvitation + 1
      /\ nextInvitation <= MaxInvitations
      /\ UNCHANGED emitted
      /\ reqs' = [reqs EXCEPT ![r] = Idle]
  BY DEF CreateInvitation, Finish
<1> HIDE DEF row
<1>5. /\ DOMAIN invitations' = DOMAIN invitations \cup {nextInvitation}
      /\ invitations' \in [DOMAIN invitations' -> InvitationRow]
      /\ \A i \in DOMAIN invitations : invitations'[i] = invitations[i]
  BY <1>2, <1>3, <1>4 DEF Insert
<1>6. DOMAIN invitations' \subseteq 1 .. (nextInvitation' - 1)
  BY <1>3, <1>4, <1>5
<1>7. /\ nextInvitation' \in Nat \ {0}
      /\ nextInvitation <= nextInvitation'
      /\ nextInvitation' <= MaxInvitations + 1
  BY <1>3, <1>4
<1>8. /\ \A i \in DOMAIN invitations' :
           invitations'[i].request_status = "pending" =>
             \/ i = nextInvitation
             \/ i \in DOMAIN invitations /\ invitations'[i] = invitations[i]
      /\ \A i \in DOMAIN invitations :
           invitations[i].request_status \in Finals =>
             i \in DOMAIN invitations' /\ invitations'[i] = invitations[i]
  BY <1>5 DEF Finals
<1> QED
  BY <1>4, <1>5, <1>6, <1>7, <1>8, TableStep DEF TableMoves

LEMMA StartAnswerStep ==
  ASSUME IInv, NEW r \in Request, StartAnswer(r)
  PROVE  IInv'
<1> DEFINE H(sender, receiver, via, to) ==
             [pc |-> IF via = "ws" THEN "guard" ELSE "update", via |-> via,
              sender |-> sender, receiver |-> receiver, to |-> to,
              touched |-> {}]
<1>1. \E sender, receiver \in Account, via \in Channel,
         to \in {"accepted", "rejected", "canceled"} :
        reqs' = [reqs EXCEPT ![r] = H(sender, receiver, via, to)]
  <2>1. \E sender, receiver \in Account, via \in Channel,
           to \in {"accepted", "rejected", "canceled"} :
          /\ sender # receiver
          /\ via = "http" => to # "canceled"
          /\ reqs' = [reqs EXCEPT ![r] = H(sender, receiver, via, to)]
    BY Zenon DEF StartAnswer
  <2> HIDE DEF H
  <2> QED
    BY <2>1
<1>2. \A sender, receiver \in Account, via \in Channel,
         to \in {"accepted", "rejected", "canceled"} :
        /\ H(sender, receiver, via, to) \in AnswerHandler
        /\ H(sender, receiver, via, to).pc \in {"guard", "update"}
  BY FriendsAssumption DEF AnswerHandler
<1>3. UNCHANGED <<invitations, nextInvitation, emitted>>
  BY DEF StartAnswer, KeepTable
<1> HIDE DEF H
<1>4. PICK h \in AnswerHandler : /\ h.pc \in {"guard", "update"}
                                 /\ reqs' = [reqs EXCEPT ![r] = h]
  BY <1>1, <1>2
<1> QED
  BY <1>3, <1>4, HandlerStep, EventsStay, NotSending DEF Sending

LEMMA GuardAnswerStep ==
  ASSUME IInv, NEW r \in Request, GuardAnswer(r)
  PROVE  IInv'
<1>1. CASE Finish(r)
  BY <1>1, FinishStep DEF GuardAnswer
<1>2. CASE ~ Finish(r)
  <2> DEFINE h == [reqs[r] EXCEPT !.pc = "update"]
  <2>1. reqs[r] \in AnswerHandler
    BY HandlerKinds DEF IInv, GuardAnswer
  <2>2. h \in AnswerHandler /\ h.pc = "update"
    BY <2>1 DEF AnswerHandler
  <2>3. reqs' = [reqs EXCEPT ![r] = h]
    BY <1>2 DEF GuardAnswer, Goto
  <2> HIDE DEF h
  <2> QED
    BY <2>2, <2>3, HandlerStep, NotSending, EventsStay
       DEF GuardAnswer, KeepTable, Sending
<1> QED
  BY <1>1, <1>2

\* What an UPDATE of rows with one status leaves behind.
LEMMA UpdateStatus ==
  ASSUME TypeOK, NEW ids \in SUBSET DOMAIN invitations, NEW to \in RequestStatus,
         invitations' = Update(invitations, ids,
           "request_status", to)
  PROVE  /\ DOMAIN invitations' = DOMAIN invitations
         /\ invitations' \in [DOMAIN invitations' -> InvitationRow]
         /\ \A i \in DOMAIN invitations \ ids : invitations'[i] = invitations[i]
         /\ \A i \in ids :
              invitations'[i] = [invitations[i] EXCEPT !.request_status = to]
  BY DEF TypeOK, Update, InvitationRow

LEMMA UpdateAnswerStep ==
  ASSUME IInv, NEW r \in Request, UpdateAnswer(r)
  PROVE  IInv'
<1> DEFINE me == reqs[r]
           ids == Rows(invitations, me.sender, me.receiver, {"pending"})
           h == [me EXCEPT !.pc = "read", !.touched = ids]
<1>1. reqs[r] \in AnswerHandler
  BY HandlerKinds DEF IInv, UpdateAnswer
<1>2. /\ me.to \in {"accepted", "rejected", "canceled"}
      /\ me.to \in RequestStatus
  BY <1>1 DEF AnswerHandler, RequestStatus
<1>3. /\ ids \subseteq DOMAIN invitations
      /\ ids \in SUBSET Nat
      /\ \A i \in ids : /\ invitations[i].request_status = "pending"
                        /\ invitations[i].sender = me.sender
                        /\ invitations[i].receiver = me.receiver
  BY DEF Rows, IInv, TypeOK
<1>4. /\ DOMAIN invitations' = DOMAIN invitations
      /\ invitations' \in [DOMAIN invitations' -> InvitationRow]
      /\ \A i \in DOMAIN invitations \ ids : invitations'[i] = invitations[i]
      /\ \A i \in ids :
           invitations'[i] = [invitations[i] EXCEPT !.request_status = me.to]
  <2>1. invitations' = Update(invitations, ids,
          "request_status", me.to)
    BY DEF UpdateAnswer
  <2> HIDE DEF ids, me
  <2> QED
    BY <1>2, <1>3, <2>1, UpdateStatus DEF IInv
<1>5. \A i \in ids : /\ invitations'[i].request_status = me.to
                     /\ invitations'[i].sender = me.sender
                     /\ invitations'[i].receiver = me.receiver
  <2>1. \A i \in ids : invitations[i] \in InvitationRow
    BY <1>3 DEF IInv, TypeOK
  <2> HIDE DEF ids, me
  <2> QED
    BY <1>3, <1>4, <2>1 DEF InvitationRow
<1>6. /\ h \in AnswerHandler /\ h.pc = "read" /\ h.touched = ids
      /\ h.sender = me.sender /\ h.receiver = me.receiver /\ h.to = me.to
  BY <1>1, <1>3 DEF AnswerHandler
<1>7. ids \subseteq Rows(invitations', me.sender, me.receiver, {me.to})
  BY <1>3, <1>4, <1>5 DEF Rows
<1>8. \/ reqs' = [reqs EXCEPT ![r] = Idle]
      \/ reqs' = [reqs EXCEPT ![r] = h] /\ ids # {}
  BY DEF UpdateAnswer, Finish
<1>9. UNCHANGED <<nextInvitation, emitted>>
  BY DEF UpdateAnswer
<1>10. /\ nextInvitation' \in Nat \ {0}
       /\ nextInvitation <= nextInvitation'
       /\ nextInvitation' <= MaxInvitations + 1
       /\ DOMAIN invitations' \subseteq 1 .. (nextInvitation' - 1)
  BY <1>4, <1>9 DEF IInv, TypeOK, IdsBounded
<1> HIDE DEF ids, h, me
<1>11. \A i \in DOMAIN invitations' :
         invitations'[i].request_status = "pending" =>
           \/ i = nextInvitation
           \/ i \in DOMAIN invitations /\ invitations'[i] = invitations[i]
  BY <1>2, <1>4, <1>5
<1>12. \A i \in DOMAIN invitations :
         invitations[i].request_status \in Finals =>
           i \in DOMAIN invitations' /\ invitations'[i] = invitations[i]
  BY <1>3, <1>4 DEF Finals
<1>13. CASE reqs' = [reqs EXCEPT ![r] = Idle]
  BY <1>4, <1>9, <1>10, <1>11, <1>12, <1>13, TableStep DEF TableMoves
<1>14. CASE reqs' = [reqs EXCEPT ![r] = h] /\ ids # {}
  BY <1>4, <1>6, <1>7, <1>9, <1>10, <1>11, <1>12, <1>14, TableStep DEF TableMoves
<1> QED
  BY <1>8, <1>13, <1>14

\* The row that was answered is still there to be read back.
LEMMA EmitAnswerStep ==
  ASSUME IInv, NEW r \in Request, EmitAnswer(r)
  PROVE  IInv'
<1> DEFINE me == reqs[r]
           ids == Rows(invitations, me.sender, me.receiver, {me.to})
           e == [to |-> me.to, touched |-> me.touched, payload |-> FindOne(ids)]
<1>1. me \in AnswerHandler
  BY HandlerKinds DEF IInv, EmitAnswer
<1>2. /\ me.to \in {"accepted", "rejected", "canceled"}
      /\ me.touched \in SUBSET Nat
  BY <1>1 DEF AnswerHandler
<1>3. ids \in SUBSET (Nat \ {0})
  BY RowsType DEF IInv
<1>4. me.to # "accepted" => me.touched # {} /\ me.touched \subseteq ids
  BY DEF EmitAnswer, IInv, TouchedStay
<1>5. emitted' = {e} /\ reqs' = [reqs EXCEPT ![r] = Idle]
  BY DEF EmitAnswer, Finish
<1>6. UNCHANGED <<invitations, nextInvitation>>
  BY DEF EmitAnswer
<1> HIDE DEF ids, me
<1>7. /\ FindOne(ids) \in Nat
      /\ ids # {} => /\ FindOne(ids) # Null
                     /\ \A i \in ids : FindOne(ids) <= i
  <2>1. /\ FindOne(ids) \in ids \cup {Null}
        /\ FindOne(ids) = Null <=> ids = {}
    BY <1>3, FindOneType
  <2>2. Null \in Nat /\ \A i \in ids : i \in Nat
    BY <1>3 DEF Null
  <2>3. ids # {} => \A i \in ids : FindOne(ids) <= i
    BY <2>2, FindOneIsLowest
  <2> QED
    BY <2>1, <2>2, <2>3
<1>8. e \in [to : {"accepted", "rejected", "canceled"}, payload : Nat,
             touched : SUBSET Nat]
  BY <1>2, <1>7
<1>9. AnswerEventsCarryARow'
  <2>1. e.to # "accepted" =>
          e.payload # Null /\ \A i \in e.touched : e.payload <= i
    BY <1>4, <1>7
  <2> HIDE DEF e
  <2> QED
    BY <1>5, <2>1 DEF AnswerEventsCarryARow
<1> HIDE DEF e
<1>10. Idle.pc \notin Sending /\ Idle.pc # "read"
  BY DEF Idle, Sending
<1> QED
  BY <1>5, <1>6, <1>8, <1>9, <1>10, HandlerStep, NotSending

LEMMA StartOtherStep ==
  ASSUME IInv, NEW r \in Request, StartOther(r)
  PROVE  IInv'
<1> DEFINE H(label, sender, receiver) ==
             [pc |-> label, sender |-> sender, receiver |-> receiver]
<1>0. \A sender, receiver \in Account, label \in {"withdraw", "remove"} :
        H(label, sender, receiver) \in OtherHandler
  BY DEF OtherHandler
<1>1. PICK h \in OtherHandler : reqs' = [reqs EXCEPT ![r] = h]
  <2>1. \E sender, receiver \in Account, label \in {"withdraw", "remove"} :
          reqs' = [reqs EXCEPT ![r] = H(label, sender, receiver)]
    BY Zenon DEF StartOther
  <2> HIDE DEF H
  <2> QED
    BY <1>0, <2>1
<1>2. h.pc \in {"withdraw", "remove"}
  BY DEF OtherHandler
<1>3. UNCHANGED <<invitations, nextInvitation, emitted>>
  BY DEF StartOther, KeepTable
<1> QED
  BY <1>1, <1>2, <1>3, HandlerStep, EventsStay, NotSending DEF Sending

LEMMA WithdrawStep ==
  ASSUME IInv, NEW r \in Request, Withdraw(r)
  PROVE  IInv'
<1> DEFINE ids == Rows(invitations, reqs[r].sender, reqs[r].receiver,
                       {"pending"})
<1>1. \A i \in ids : invitations[i].request_status = "pending"
  BY DEF Rows
<1>2. /\ invitations' = Delete(invitations, ids)
      /\ reqs' = [reqs EXCEPT ![r] = Idle]
      /\ UNCHANGED <<nextInvitation, emitted>>
  BY DEF Withdraw, Finish
<1> HIDE DEF ids
<1>3. /\ DOMAIN invitations' = DOMAIN invitations \ ids
      /\ \A i \in DOMAIN invitations' : invitations'[i] = invitations[i]
      /\ invitations' \in [DOMAIN invitations' -> InvitationRow]
  BY <1>2 DEF Delete, IInv, TypeOK
<1>4. /\ nextInvitation' \in Nat \ {0}
      /\ nextInvitation <= nextInvitation'
      /\ nextInvitation' <= MaxInvitations + 1
      /\ DOMAIN invitations' \subseteq 1 .. (nextInvitation' - 1)
  BY <1>2, <1>3 DEF IInv, TypeOK, IdsBounded
<1>5. /\ \A i \in DOMAIN invitations' :
           invitations'[i].request_status = "pending" =>
             \/ i = nextInvitation
             \/ i \in DOMAIN invitations /\ invitations'[i] = invitations[i]
      /\ \A i \in DOMAIN invitations :
           invitations[i].request_status \in Finals =>
             i \in DOMAIN invitations' /\ invitations'[i] = invitations[i]
  BY <1>1, <1>3 DEF Finals
<1> QED
  BY <1>2, <1>3, <1>4, <1>5, TableStep DEF TableMoves

LEMMA RemoveFriendStep ==
  ASSUME IInv, NEW r \in Request, RemoveFriend(r)
  PROVE  IInv'
<1> DEFINE ids == Rows(invitations, reqs[r].sender, reqs[r].receiver,
                       {"accepted"})
<1>1. /\ ids \subseteq DOMAIN invitations
      /\ \A i \in ids : invitations[i].request_status = "accepted"
  BY DEF Rows
<1>0. invitations' = Update(invitations, ids,
        "request_status", "removed")
  BY DEF RemoveFriend
<1>2. /\ reqs' = [reqs EXCEPT ![r] = Idle]
      /\ UNCHANGED <<nextInvitation, emitted>>
  BY DEF RemoveFriend, Finish
<1> HIDE DEF ids
<1>3. /\ DOMAIN invitations' = DOMAIN invitations
      /\ invitations' \in [DOMAIN invitations' -> InvitationRow]
      /\ \A i \in DOMAIN invitations \ ids : invitations'[i] = invitations[i]
      /\ \A i \in ids :
           invitations'[i] = [invitations[i] EXCEPT !.request_status = "removed"]
  BY <1>0, <1>1, UpdateStatus DEF IInv, RequestStatus
<1>4. \A i \in ids : invitations'[i].request_status = "removed"
  <2>1. \A i \in ids : invitations[i] \in InvitationRow
    BY <1>1 DEF IInv, TypeOK
  <2> QED
    BY <1>3, <2>1 DEF InvitationRow
<1>5. /\ nextInvitation' \in Nat \ {0}
      /\ nextInvitation <= nextInvitation'
      /\ nextInvitation' <= MaxInvitations + 1
      /\ DOMAIN invitations' \subseteq 1 .. (nextInvitation' - 1)
  BY <1>2, <1>3 DEF IInv, TypeOK, IdsBounded
<1>6. /\ \A i \in DOMAIN invitations' :
           invitations'[i].request_status = "pending" =>
             \/ i = nextInvitation
             \/ i \in DOMAIN invitations /\ invitations'[i] = invitations[i]
      /\ \A i \in DOMAIN invitations :
           invitations[i].request_status \in Finals =>
             i \in DOMAIN invitations' /\ invitations'[i] = invitations[i]
  BY <1>1, <1>3, <1>4 DEF Finals
<1> QED
  BY <1>2, <1>3, <1>5, <1>6, TableStep DEF TableMoves

(***************************************************************************)
(* What the handlers of both channels, suspended between any two           *)
(* statements, know of the table still holds when they go on.              *)
(***************************************************************************)
THEOREM Invariance == Spec => []IInv
<1>1. IInv /\ [Next]_vars => IInv'
  <2> SUFFICES ASSUME IInv, [Next]_vars
               PROVE  IInv'
    OBVIOUS
  <2>1. ASSUME NEW r \in Request, Send(r)
        PROVE  IInv'
    BY <2>1, SendStep, CreateInvitationStep
  <2>2. ASSUME NEW r \in Request, Answer(r)
        PROVE  IInv'
    BY <2>2, StartAnswerStep, GuardAnswerStep, UpdateAnswerStep, EmitAnswerStep
       DEF Answer
  <2>3. ASSUME NEW r \in Request, Other(r)
        PROVE  IInv'
    BY <2>3, StartOtherStep, WithdrawStep, RemoveFriendStep DEF Other
  <2>4. ASSUME NEW r \in Request, Fail(r)
        PROVE  IInv'
    BY <2>4, FinishStep DEF Fail
  <2>5. CASE UNCHANGED vars
    <3>1. TypeOK' /\ IdsBounded' /\ AnswerEventsCarryARow'
      BY <2>5 DEF vars, IInv, TypeOK, IdsBounded, AnswerEventsCarryARow
    <3>2. SendersRuledOut'
      BY <2>5 DEF vars, IInv, SendersRuledOut
    <3>3. TouchedStay'
      BY <2>5 DEF vars, IInv, TouchedStay
    <3> QED
      BY <3>1, <3>2, <3>3 DEF IInv
  <2> QED
    BY <2>1, <2>2, <2>3, <2>4, <2>5 DEF Next
<1> QED
  BY InitIInv, <1>1, PTL DEF Spec

(***************************************************************************)
(* The table and the handlers keep their types, for any number of          *)
(* concurrent handlers of FriendsGateway and FriendsController.            *)
(***************************************************************************)
THEOREM TypeCorrectness == Spec => []TypeOK
<1>1. IInv => TypeOK
  BY DEF IInv
<1> QED
  BY Invariance, <1>1, PTL

(***************************************************************************)
(* Nobody inserts next to an invitation that was pending, in either        *)
(* direction, when the handler arrived; except, on the WebSocket, between  *)
(* accounts of which an invitation has ended before.                       *)
(***************************************************************************)
THEOREM SecondPendingNeedsARace == Spec => []SecondPendingOnlyByRace
<1>1. IInv => SecondPendingOnlyByRace
  <2> SUFFICES ASSUME IInv, NEW r \in Request, reqs[r].pc = "insert"
               PROVE  LET pair == {i \in DOMAIN invitations :
                                     Together(i, reqs[r].sender,
                                              reqs[r].receiver)}
                      IN  \/ \A i \in pair :
                               invitations[i].request_status = "pending" =>
                                 i >= reqs[r].since
                          \/ /\ reqs[r].via = "ws"
                             /\ \E j \in pair :
                                  invitations[j].request_status \in Finals
    BY DEF SecondPendingOnlyByRace
  <2> DEFINE me == reqs[r].sender
             him == reqs[r].receiver
  <2>2. \/ /\ Later(invitations, me, him, reqs[r].since)
           /\ Later(invitations, him, me, reqs[r].since)
        \/ reqs[r].via = "ws" /\ Ended(invitations, me, him)
    BY DEF IInv, SendersRuledOut, RuledOut
  <2>3. CASE /\ Later(invitations, me, him, reqs[r].since)
             /\ Later(invitations, him, me, reqs[r].since)
    <3>1. ASSUME NEW i \in DOMAIN invitations, Together(i, me, him),
                 invitations[i].request_status = "pending"
          PROVE  i >= reqs[r].since
      <4>1. \/ i \in Rows(invitations, me, him, {"pending"})
            \/ i \in Rows(invitations, him, me, {"pending"})
        BY <3>1 DEF Together, Rows
      <4> QED
        BY <2>3, <4>1 DEF Later
    <3> QED
      BY <3>1
  <2>4. CASE reqs[r].via = "ws" /\ Ended(invitations, me, him)
    <3>1. PICK j : \/ j \in Rows(invitations, me, him, Finals)
                   \/ j \in Rows(invitations, him, me, Finals)
      BY <2>4 DEF Ended
    <3>2. /\ j \in DOMAIN invitations /\ Together(j, me, him)
          /\ invitations[j].request_status \in Finals
      BY <3>1 DEF Rows, Together
    <3> QED
      BY <2>4, <3>2
  <2> QED
    BY <2>2, <2>3, <2>4
<1> QED
  BY Invariance, <1>1, PTL

(***************************************************************************)
(* The row of a rejected or canceled invitation is still there when the    *)
(* gateway reads it back, whatever ran in between.                         *)
(***************************************************************************)
THEOREM AnswersCarryARow == Spec => []AnswerEventsCarryARow
<1>1. IInv => AnswerEventsCarryARow
  BY DEF IInv
<1> QED
  BY Invariance, <1>1, PTL

-----------------------------------------------------------------------------
(***************************************************************************)
(* The refinement.  The statuses of all ids, as the lifecycle sees them.   *)
(***************************************************************************)
Statuses == [i \in Ids |-> StatusOf(i)]

\* A step that changes neither the table nor the serial is a stutter.
LEMMA Stutter ==
  ASSUME UNCHANGED <<invitations, nextInvitation>>
  PROVE  Statuses' = Statuses
  BY DEF Statuses, StatusOf, Ids

LEMMA CreateInvitationIsSend ==
  ASSUME IInv, NEW r \in Request, CreateInvitation(r)
  PROVE  Lifecycle!Send
<1> DEFINE row == [sender |-> reqs[r].sender, receiver |-> reqs[r].receiver,
                   request_status |-> "pending"]
           new == nextInvitation
<1>1. /\ new \in Nat \ {0} /\ new <= MaxInvitations /\ MaxInvitations \in Nat
      /\ invitations' = Insert(invitations, new, row)
      /\ nextInvitation' = new + 1
      /\ DOMAIN invitations \subseteq 1 .. (new - 1)
  BY FriendsAssumption DEF IInv, TypeOK, CreateInvitation
<1>2. row.request_status = "pending"
  OBVIOUS
<1> HIDE DEF row
<1>3. /\ DOMAIN invitations' = DOMAIN invitations \cup {new}
      /\ invitations'[new] = row
      /\ \A i \in DOMAIN invitations : i # new /\ invitations'[i] = invitations[i]
  BY <1>1 DEF Insert
<1>4. StatusOf(new) = "none" /\ new \in Ids
  BY <1>1 DEF StatusOf, Ids
<1>5. ASSUME NEW i \in Ids
      PROVE  StatusOf(i)' = IF i \in {new} THEN "pending" ELSE StatusOf(i)
  <2>1. CASE i = new
    BY <1>2, <1>3, <2>1 DEF StatusOf
  <2>2. CASE i # new
    <3>1. i < new <=> i < new + 1
      BY <1>1, <2>2 DEF Ids
    <3> QED
      BY <1>1, <1>3, <2>2, <3>1 DEF StatusOf
  <2> QED
    BY <2>1, <2>2
<1> QED
  BY <1>4, <1>5 DEF Lifecycle!Send, Lifecycle!Move

\* The ids of a set of rows are ids of the lifecycle.
LEMMA RowsAreIds ==
  ASSUME IInv
  PROVE  DOMAIN invitations \subseteq Ids
  BY FriendsAssumption DEF IInv, TypeOK, IdsBounded, Ids

\* An UPDATE of the rows with one status moves them to another.
LEMMA UpdateMoves ==
  ASSUME IInv, NEW from, NEW to \in RequestStatus, NEW sender, NEW receiver,
         invitations' = Update(invitations,
           Rows(invitations, sender, receiver, {from}),
           "request_status", to),
         nextInvitation' = nextInvitation
  PROVE  \E ids \in SUBSET Ids : Lifecycle!Move(ids, from, to)
<1> DEFINE ids == Rows(invitations, sender, receiver, {from})
<1>1. /\ ids \subseteq DOMAIN invitations
      /\ \A i \in ids : invitations[i].request_status = from
      /\ \A i \in ids : invitations[i] \in InvitationRow
  BY DEF Rows, IInv, TypeOK
<1>2. invitations' = Update(invitations, ids,
        "request_status", to)
  OBVIOUS
<1> HIDE DEF ids
<1>3. /\ DOMAIN invitations' = DOMAIN invitations
      /\ \A i \in DOMAIN invitations \ ids : invitations'[i] = invitations[i]
      /\ \A i \in ids :
           invitations'[i] = [invitations[i] EXCEPT !.request_status = to]
  BY <1>1, <1>2, UpdateStatus DEF IInv
<1>4. \A i \in ids : invitations'[i].request_status = to
  BY <1>1, <1>3 DEF InvitationRow
<1>5. \A i \in ids : StatusOf(i) = from
  BY <1>1 DEF StatusOf
<1>6. \A i \in Ids : StatusOf(i)' = IF i \in ids THEN to ELSE StatusOf(i)
  BY <1>1, <1>3, <1>4 DEF StatusOf
<1>7. ids \subseteq Ids
  BY <1>1, RowsAreIds
<1>8. Lifecycle!Move(ids, from, to)
  BY <1>5, <1>6, <1>7 DEF Lifecycle!Move
<1> QED
  BY <1>7, <1>8

LEMMA WithdrawIsAnswer ==
  ASSUME IInv, NEW r \in Request, Withdraw(r)
  PROVE  Lifecycle!Answer
<1> DEFINE ids == Rows(invitations, reqs[r].sender, reqs[r].receiver,
                       {"pending"})
<1>1. /\ ids \subseteq DOMAIN invitations
      /\ \A i \in ids : invitations[i].request_status = "pending"
  BY DEF Rows
<1>2. invitations' = Delete(invitations, ids) /\ nextInvitation' = nextInvitation
  BY DEF Withdraw
<1> HIDE DEF ids
<1>3. /\ DOMAIN invitations' = DOMAIN invitations \ ids
      /\ \A i \in DOMAIN invitations' : invitations'[i] = invitations[i]
  BY <1>2 DEF Delete
<1>4. \A i \in ids : i < nextInvitation
  BY <1>1 DEF IInv, TypeOK
<1>5. \A i \in ids : StatusOf(i) = "pending"
  BY <1>1 DEF StatusOf
<1>6. \A i \in Ids :
        StatusOf(i)' = IF i \in ids THEN "withdrawn" ELSE StatusOf(i)
  BY <1>1, <1>2, <1>3, <1>4 DEF StatusOf
<1>7. ids \subseteq Ids
  BY <1>1, RowsAreIds
<1>8. Lifecycle!Move(ids, "pending", "withdrawn")
  BY <1>5, <1>6, <1>7 DEF Lifecycle!Move
<1> QED
  BY <1>7, <1>8 DEF Lifecycle!Answer, Lifecycle!Answers

LEMMA UpdateAnswerIsAnswer ==
  ASSUME IInv, NEW r \in Request, UpdateAnswer(r)
  PROVE  Lifecycle!Answer
<1>1. reqs[r] \in AnswerHandler
  BY HandlerKinds DEF IInv, UpdateAnswer
<1>2. reqs[r].to \in {"accepted", "rejected", "canceled"}
  BY <1>1 DEF AnswerHandler
<1>3. reqs[r].to \in RequestStatus
  BY <1>2 DEF RequestStatus
<1>4. \E ids \in SUBSET Ids : Lifecycle!Move(ids, "pending", reqs[r].to)
  BY <1>3, UpdateMoves DEF UpdateAnswer
<1> QED
  BY <1>2, <1>4 DEF Lifecycle!Answer, Lifecycle!Answers

LEMMA RemoveFriendIsRemove ==
  ASSUME IInv, NEW r \in Request, RemoveFriend(r)
  PROVE  Lifecycle!Remove
<1>1. "removed" \in RequestStatus
  BY DEF RequestStatus
<1>2. \E ids \in SUBSET Ids : Lifecycle!Move(ids, "accepted", "removed")
  BY <1>1, UpdateMoves DEF RemoveFriend
<1> QED
  BY <1>2 DEF Lifecycle!Remove

(***************************************************************************)
(* Every statement of every handler of FriendsGateway and of               *)
(* FriendsController is a step of the lifecycle of the invitations, or     *)
(* none: an invitation is answered at most once and only while pending,    *)
(* and a final status is never left, whatever the interleaving.            *)
(***************************************************************************)
THEOREM Refinement == Spec => ImplementsLifecycle
<1>1. Init => Lifecycle!Init
  BY DEF Init, Lifecycle!Init, StatusOf, NoRows, Ids
<1>2. IInv /\ [Next]_vars => [Lifecycle!Next]_Statuses
  <2> SUFFICES ASSUME IInv, [Next]_vars
               PROVE  Lifecycle!Next \/ Statuses' = Statuses
    OBVIOUS
  <2>1. ASSUME NEW r \in Request, Send(r)
        PROVE  Lifecycle!Next \/ Statuses' = Statuses
    <3>1. CASE CreateInvitation(r)
      BY <3>1, CreateInvitationIsSend DEF Lifecycle!Next
    <3>2. CASE ~ CreateInvitation(r)
      BY <2>1, <3>2, Stutter DEF Send, StartSend, GuardSent, GuardReceived,
         CheckAccepted, CheckPending, CheckReceived, KeepTable
    <3> QED
      BY <3>1, <3>2
  <2>2. ASSUME NEW r \in Request, Answer(r)
        PROVE  Lifecycle!Next \/ Statuses' = Statuses
    <3>1. CASE UpdateAnswer(r)
      BY <3>1, UpdateAnswerIsAnswer DEF Lifecycle!Next
    <3>2. CASE ~ UpdateAnswer(r)
      BY <2>2, <3>2, Stutter DEF Answer, StartAnswer, GuardAnswer, EmitAnswer,
         KeepTable
    <3> QED
      BY <3>1, <3>2
  <2>3. ASSUME NEW r \in Request, Other(r)
        PROVE  Lifecycle!Next \/ Statuses' = Statuses
    <3>1. CASE StartOther(r)
      BY <3>1, Stutter DEF StartOther, KeepTable
    <3>2. CASE ~ StartOther(r)
      BY <2>3, <3>2, WithdrawIsAnswer, RemoveFriendIsRemove
         DEF Other, Lifecycle!Next
    <3> QED
      BY <3>1, <3>2
  <2>4. ASSUME NEW r \in Request, Fail(r)
        PROVE  Statuses' = Statuses
    BY <2>4, Stutter DEF Fail, KeepTable
  <2>5. CASE UNCHANGED vars
    BY <2>5, Stutter DEF vars
  <2> QED
    BY <2>1, <2>2, <2>3, <2>4, <2>5 DEF Next
<1> QED
  BY Invariance, <1>1, <1>2, PTL
     DEF Spec, ImplementsLifecycle, Lifecycle!Spec, Statuses
=============================================================================
