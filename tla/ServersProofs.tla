---------------------------- MODULE ServersProofs ---------------------------
(***************************************************************************)
(* The owner of a server keeps that role, and what follows from it, for    *)
(* any accounts, any number of servers, subscriptions and concurrent       *)
(* handlers.                                                               *)
(***************************************************************************)
EXTENDS Servers, RepositoryProofs

Owner(s) == servers[s].owner

\* The guards know the owner of the server.
Recognised(s) == RoleOf(s, Owner(s)) = "owner"

\* The owner's first subscription is another one, an invitation inserted before
\* the subscription of the owner: the guards never will.
Shadowed(s) == RoleOf(s, Owner(s)) \notin {"none", "owner"}

\* What a handler relies on after the checks it has made.
HandlerKnows(h) ==
  /\ h.server \in DOMAIN servers
  /\ h.op = "create" => h.me = Owner(h.server)
  /\ h.op = "kick" /\ h.him = Owner(h.server) =>
       /\ h.pc = "admin" /\ h.seen \notin {"none", "owner"} => Shadowed(h.server)
       /\ h.pc = "update" => Shadowed(h.server)
  /\ h.op = "kick" /\ h.pc = "update" /\ h.seen = "admin" =>
       h.me = Owner(h.server)
  /\ h.op = "leave" =>
       /\ RoleOf(h.server, h.me) # "none"
       /\ h.pc = "update" /\ h.me = Owner(h.server) => Shadowed(h.server)
  /\ h.op = "role" =>
       h.me = Owner(h.server) /\ h.him # h.me /\ Recognised(h.server)
  /\ h.op = "list" => Recognised(h.server)

HandlersKnow == \A r \in Request : reqs[r] # Idle => HandlerKnows(reqs[r])

\* Only owners have the role of the owner, and a server with other members has
\* an owner the guards know.
RowsAreLegal ==
  \A i \in DOMAIN subscribers :
    /\ subscribers[i].server \in DOMAIN servers
    /\ subscribers[i].role = "owner" =>
         subscribers[i].subscriber = Owner(subscribers[i].server)
    /\ subscribers[i].role \in UserRole => Recognised(subscribers[i].server)

IInv == TypeOK /\ HandlersKnow /\ RowsAreLegal

\* findOne on a table of subscriptions.
LEMMA FirstRow ==
  ASSUME NEW n \in Nat, NEW table \in [1 .. n -> SubscriberRow],
         NEW s, NEW a, NEW ids, ids = Rows(table, s, a)
  PROVE  /\ ids \in SUBSET (1 .. n)
         /\ ids = {} => FindOne(ids) = Null
         /\ ids # {} => /\ FindOne(ids) \in ids
                        /\ FindOne(ids) # Null
                        /\ \A j \in ids : FindOne(ids) <= j
<1>1. ids \in SUBSET (1 .. n)
  BY DEF Rows
<1>2. ids \in SUBSET Nat /\ ids \in SUBSET (Nat \ {0})
  BY <1>1
<1>3. ids # {} => FindOne(ids) \in ids /\ \A j \in ids : FindOne(ids) <= j
  BY <1>2, FindOneIsLowest
<1>4. FindOne(ids) = Null <=> ids = {}
  BY <1>2, FindOneType
<1> QED
  BY <1>1, <1>3, <1>4

\* The role the guards see is that of a row, unless there is none.
LEMMA RoleIsOfARow ==
  ASSUME TypeOK, NEW s, NEW a
  PROVE  /\ RoleOf(s, a) = "none" <=> Rows(subscribers, s, a) = {}
         /\ RoleOf(s, a) # "none" =>
              \E i \in Rows(subscribers, s, a) :
                i = FindOne(Rows(subscribers, s, a))
                  /\ RoleOf(s, a) = subscribers[i].role
<1> DEFINE ids == Rows(subscribers, s, a)
<1>1. /\ nextSubscriber - 1 \in Nat
      /\ subscribers \in [1 .. (nextSubscriber - 1) -> SubscriberRow]
  BY BoundsAssumption DEF TypeOK
<1>2. /\ ids \in SUBSET (1 .. (nextSubscriber - 1))
      /\ ids = {} => FindOne(ids) = Null
      /\ ids # {} => FindOne(ids) \in ids /\ FindOne(ids) # Null
  BY <1>1, FirstRow
<1>3. \A i \in ids : subscribers[i].role # "none"
  BY <1>1, <1>2 DEF SubscriberRow, SubscriberRole
<1> HIDE DEF ids
<1>4. RoleOf(s, a) = IF FindOne(ids) = Null THEN "none"
                     ELSE subscribers[FindOne(ids)].role
  BY DEF RoleOf, ids
<1>5. /\ RoleOf(s, a) = "none" <=> ids = {}
      /\ RoleOf(s, a) # "none" => \E i \in ids :
           i = FindOne(ids) /\ RoleOf(s, a) = subscribers[i].role
  BY <1>2, <1>3, <1>4
<1> QED
  BY <1>5 DEF ids

\* An INSERT is seen only by whoever had no subscription yet.
LEMMA InsertRoles ==
  ASSUME TypeOK, NEW row \in SubscriberRow,
         subscribers' = Insert(subscribers, nextSubscriber, row),
         NEW s, NEW a
  PROVE  RoleOf(s, a)' =
           IF RoleOf(s, a) # "none" THEN RoleOf(s, a)
           ELSE IF row.server = s /\ row.subscriber = a THEN row.role
           ELSE "none"
<1> DEFINE n == nextSubscriber
           ids == Rows(subscribers, s, a)
           idsP == Rows(subscribers', s, a)
<1>1. /\ n \in Nat \ {0} /\ n - 1 \in Nat
      /\ subscribers \in [1 .. (n - 1) -> SubscriberRow]
  BY BoundsAssumption DEF TypeOK
<1>2. /\ subscribers' \in [1 .. n -> SubscriberRow]
      /\ subscribers'[n] = row
      /\ \A i \in 1 .. (n - 1) : subscribers'[i] = subscribers[i]
  BY <1>1 DEF Insert
<1>3. /\ ids \in SUBSET (1 .. (n - 1))
      /\ ids = {} => FindOne(ids) = Null
      /\ ids # {} => /\ FindOne(ids) \in ids
                     /\ FindOne(ids) # Null
                     /\ \A j \in ids : FindOne(ids) <= j
  BY <1>1, FirstRow
<1>4. /\ idsP \in SUBSET (1 .. n)
      /\ idsP = {} => FindOne(idsP) = Null
      /\ idsP # {} => /\ FindOne(idsP) \in idsP
                      /\ FindOne(idsP) # Null
                      /\ \A j \in idsP : FindOne(idsP) <= j
  BY <1>1, <1>2, FirstRow
<1>5. idsP = ids \cup {i \in {n} : row.server = s /\ row.subscriber = a}
  BY <1>1, <1>2 DEF Rows
<1>6. /\ RoleOf(s, a) = IF FindOne(ids) = Null THEN "none"
                        ELSE subscribers[FindOne(ids)].role
      /\ RoleOf(s, a)' = IF FindOne(idsP) = Null THEN "none"
                         ELSE subscribers'[FindOne(idsP)].role
  BY DEF RoleOf
<1>7. \A i \in ids : subscribers[i].role # "none"
  BY <1>1, <1>3 DEF SubscriberRow, SubscriberRole
<1> HIDE DEF ids, idsP, n
<1>8. CASE ids # {}
  <2>1. FindOne(idsP) \in 1 .. n /\ FindOne(ids) \in 1 .. (n - 1)
    BY <1>3, <1>4, <1>5, <1>8
  <2>2. FindOne(idsP) <= FindOne(ids)
    BY <1>3, <1>4, <1>5, <1>8
  <2>3. FindOne(idsP) # n
    BY <1>1, <2>1, <2>2
  <2>4. FindOne(idsP) \in ids
    BY <1>4, <1>5, <1>8, <2>3
  <2>5. FindOne(idsP) = FindOne(ids)
    BY <1>1, <1>3, <2>1, <2>2, <2>4
  <2> QED
    BY <1>2, <1>3, <1>6, <1>7, <1>8, <2>1, <2>5
<1>9. CASE ids = {} /\ row.server = s /\ row.subscriber = a
  <2>1. FindOne(idsP) = n
    BY <1>4, <1>5, <1>9
  <2> QED
    BY <1>2, <1>3, <1>4, <1>5, <1>6, <1>9, <2>1
<1>10. CASE ids = {} /\ ~ (row.server = s /\ row.subscriber = a)
  BY <1>3, <1>4, <1>5, <1>6, <1>10
<1> QED
  BY <1>8, <1>9, <1>10

\* An UPDATE of the role is seen by the account it is about, if it has a row.
LEMMA UpdateRoles ==
  ASSUME TypeOK, NEW server, NEW subscriber, NEW role \in SubscriberRole,
         SetRole(server, subscriber, role), NEW s, NEW a
  PROVE  RoleOf(s, a)' =
           IF s = server /\ a = subscriber /\ RoleOf(s, a) # "none" THEN role
           ELSE RoleOf(s, a)
<1> DEFINE hit == Rows(subscribers, server, subscriber)
           ids == Rows(subscribers, s, a)
<1>1. /\ nextSubscriber - 1 \in Nat
      /\ subscribers \in [1 .. (nextSubscriber - 1) -> SubscriberRow]
  BY BoundsAssumption DEF TypeOK
<1>2. /\ DOMAIN subscribers' = DOMAIN subscribers
      /\ \A i \in DOMAIN subscribers :
           /\ subscribers'[i].server = subscribers[i].server
           /\ subscribers'[i].subscriber = subscribers[i].subscriber
           /\ subscribers'[i].role =
                IF i \in hit THEN role ELSE subscribers[i].role
  BY <1>1 DEF SetRole, Update, SubscriberRow
<1>3. Rows(subscribers', s, a) = ids
  BY <1>2 DEF Rows
<1>4. /\ ids \subseteq DOMAIN subscribers
      /\ s = server /\ a = subscriber => ids = hit
      /\ ~ (s = server /\ a = subscriber) => ids \cap hit = {}
  BY DEF Rows
<1>5. /\ ids = {} => FindOne(ids) = Null
      /\ ids # {} => FindOne(ids) \in ids /\ FindOne(ids) # Null
  BY <1>1, FirstRow
<1>6. /\ RoleOf(s, a) = IF FindOne(ids) = Null THEN "none"
                        ELSE subscribers[FindOne(ids)].role
      /\ RoleOf(s, a)' = IF FindOne(ids) = Null THEN "none"
                         ELSE subscribers'[FindOne(ids)].role
  BY <1>3 DEF RoleOf
<1>7. \A i \in ids : subscribers[i].role # "none"
  BY <1>1, <1>4 DEF SubscriberRow, SubscriberRole
<1> HIDE DEF ids, hit
<1> QED
  BY <1>2, <1>4, <1>5, <1>6, <1>7

\* What is left to show of a step once its handler and its table are understood.
LEMMA Step ==
  ASSUME IInv, TypeOK', NEW r \in Request, NEW h \in Handler \cup {Idle},
         reqs' = [reqs EXCEPT ![r] = h],
         \A s \in DOMAIN servers :
           /\ s \in DOMAIN servers' /\ Owner(s)' = Owner(s)
           /\ Recognised(s) => Recognised(s)'
           /\ Shadowed(s) => Shadowed(s)',
         \A s, a : RoleOf(s, a) # "none" => RoleOf(s, a)' # "none",
         h # Idle => HandlerKnows(h)',
         RowsAreLegal'
  PROVE  IInv'
<1>1. reqs'[r] = h /\ \A q \in Request : q # r => reqs'[q] = reqs[q]
  BY DEF IInv, TypeOK
<1>2. ASSUME NEW g, HandlerKnows(g)
      PROVE  HandlerKnows(g)'
  BY <1>2 DEF HandlerKnows
<1>3. HandlersKnow'
  <2> SUFFICES ASSUME NEW q \in Request, reqs'[q] # Idle
               PROVE  HandlerKnows(reqs[q])' 
    BY DEF HandlersKnow
  <2>1. CASE q = r
    BY <1>1, <2>1
  <2>2. CASE q # r
    BY <1>1, <1>2, <2>2 DEF IInv, HandlersKnow
  <2> QED
    BY <2>1, <2>2
<1> QED
  BY <1>3 DEF IInv

\* A lookup, a check or an exception: the tables stay.
LEMMA QuietStep ==
  ASSUME IInv, NEW r \in Request, NEW h \in Handler \cup {Idle},
         reqs' = [reqs EXCEPT ![r] = h], KeepTables,
         h # Idle => HandlerKnows(h)
  PROVE  IInv' /\ OwnerKept /\ Appointed
<1>1. \A s, a : RoleOf(s, a)' = RoleOf(s, a)
  BY DEF KeepTables, RoleOf, Rows
<1>2. TypeOK'
  BY DEF IInv, TypeOK, KeepTables
<1>3. \A s : /\ Owner(s)' = Owner(s)
             /\ Recognised(s)' <=> Recognised(s)
             /\ Shadowed(s)' <=> Shadowed(s)
  BY <1>1 DEF Owner, Recognised, Shadowed, KeepTables
<1>4. RowsAreLegal'
  BY <1>3 DEF IInv, RowsAreLegal, KeepTables
<1>5. h # Idle => HandlerKnows(h)'
  BY <1>1, <1>3 DEF HandlerKnows, KeepTables
<1>6. IInv'
  BY <1>1, <1>2, <1>3, <1>4, <1>5, Step DEF KeepTables
<1>7. OwnerKept
  BY RoleIsOfARow DEF IInv, OwnerKept, KeepTables
<1>8. Appointed
  BY DEF Appointed, KeepTables
<1> QED
  BY <1>6, <1>7, <1>8

\* An invitation, or the subscription of the owner.
LEMMA InsertStep ==
  ASSUME IInv, NEW r \in Request, NEW server \in DOMAIN servers,
         NEW subscriber \in Account, NEW role \in {"owner", "pending"},
         role = "owner" => subscriber = Owner(server),
         Subscribe(server, subscriber, role), Finish(r), KeepServers
  PROVE  IInv' /\ OwnerKept /\ Appointed
<1> DEFINE row == [server |-> server, subscriber |-> subscriber, role |-> role]
           n == nextSubscriber
<1>1. /\ n \in Nat \ {0} /\ n - 1 \in Nat
      /\ subscribers \in [1 .. (n - 1) -> SubscriberRow]
      /\ row \in SubscriberRow
  BY BoundsAssumption DEF IInv, TypeOK, SubscriberRow, SubscriberRole
<1>2. subscribers' = Insert(subscribers, n, row)
  BY DEF Subscribe
<1>3. /\ subscribers' \in [1 .. n -> SubscriberRow]
      /\ subscribers'[n] = row
      /\ \A i \in 1 .. (n - 1) : subscribers'[i] = subscribers[i]
  BY <1>1, <1>2 DEF Insert
<1>4. TypeOK'
  <2>1. nextSubscriber' = n + 1 /\ n + 1 \in 1 .. (MaxSubscribers + 1)
    BY <1>1, BoundsAssumption DEF Subscribe
  <2>2. (n + 1) - 1 = n
    BY <1>1
  <2>3. subscribers' \in [1 .. (nextSubscriber' - 1) -> SubscriberRow]
    BY <1>3, <2>1, <2>2
  <2>4. reqs' \in [Request -> Handler \cup {Idle}]
    BY DEF IInv, TypeOK, Finish
  <2> QED
    BY <2>1, <2>3, <2>4 DEF IInv, TypeOK, KeepServers
<1>5. \A s, a : RoleOf(s, a)' =
        IF RoleOf(s, a) # "none" THEN RoleOf(s, a)
        ELSE IF server = s /\ subscriber = a THEN role ELSE "none"
  BY <1>1, <1>2, InsertRoles DEF IInv
<1>6. \A s : /\ Owner(s)' = Owner(s)
             /\ Recognised(s) => Recognised(s)'
             /\ Shadowed(s) => Shadowed(s)'
  BY <1>5 DEF Owner, Recognised, Shadowed, KeepServers
<1>7. RowsAreLegal'
  <2>1. \A i \in DOMAIN subscribers' :
          \/ subscribers'[i] = row
          \/ i \in DOMAIN subscribers /\ subscribers'[i] = subscribers[i]
    BY <1>1, <1>3
  <2>2. row.server = server /\ row.subscriber = subscriber /\ row.role = role
    OBVIOUS
  <2> HIDE DEF row
  <2> QED
    BY <1>6, <2>1, <2>2 DEF IInv, RowsAreLegal, KeepServers, UserRole
<1>8. IInv'
  BY <1>4, <1>5, <1>6, <1>7, Step DEF Finish, KeepServers
<1>9. OwnerKept
  <2> SUFFICES ASSUME NEW s \in DOMAIN servers,
                      RoleOf(s, servers[s].owner) = "owner"
               PROVE  subscribers'[FindOne(Rows(subscribers, s, servers[s].owner))].role = "owner"
    BY DEF OwnerKept
  <2>1. PICK i \in Rows(subscribers, s, servers[s].owner) :
          /\ i = FindOne(Rows(subscribers, s, servers[s].owner))
          /\ RoleOf(s, servers[s].owner) = subscribers[i].role
    BY RoleIsOfARow DEF IInv
  <2> QED
    BY <1>1, <1>3, <2>1 DEF Rows
<1>10. Appointed
  BY <1>1, <1>3 DEF Appointed, UserRole
<1> QED
  BY <1>8, <1>9, <1>10

\* A kick, a leave or a role change; never of an owner the guards recognise.
LEMMA UpdateStep ==
  ASSUME IInv, NEW r \in Request, NEW server \in DOMAIN servers,
         NEW subscriber, NEW role \in UserRole \cup {"removed", "leave"},
         subscriber = Owner(server) => ~ Recognised(server),
         role \in UserRole =>
           /\ Recognised(server) /\ At(r, "role", "update")
           /\ reqs[r].server = server /\ reqs[r].him = subscriber
           /\ reqs[r].me = Owner(server),
         SetRole(server, subscriber, role), Finish(r), KeepServers
  PROVE  IInv' /\ OwnerKept /\ Appointed
<1> DEFINE hit == Rows(subscribers, server, subscriber)
<1>1. role \in SubscriberRole /\ role # "owner" /\ role # "none"
  BY DEF SubscriberRole, UserRole
<1>2. \A s, a : RoleOf(s, a)' =
        IF s = server /\ a = subscriber /\ RoleOf(s, a) # "none" THEN role
        ELSE RoleOf(s, a)
  BY <1>1, UpdateRoles DEF IInv
<1>3. /\ DOMAIN subscribers' = DOMAIN subscribers
      /\ \A i \in DOMAIN subscribers :
           /\ i \in hit => /\ subscribers'[i].server = server
                           /\ subscribers'[i].subscriber = subscriber
                           /\ subscribers'[i].role = role
           /\ i \notin hit => subscribers'[i] = subscribers[i]
  BY DEF SetRole, Update, Rows, IInv, TypeOK, SubscriberRow
<1>4. TypeOK'
  <2>1. subscribers' \in [1 .. (nextSubscriber - 1) -> SubscriberRow]
    BY <1>1 DEF SetRole, Update, IInv, TypeOK, SubscriberRow
  <2> QED
    BY <2>1 DEF IInv, TypeOK, SetRole, Finish, KeepServers
<1>5. \A s : /\ Owner(s)' = Owner(s)
             /\ Recognised(s) => Recognised(s)'
             /\ Shadowed(s) => Shadowed(s)'
  BY <1>1, <1>2 DEF Owner, Recognised, Shadowed, KeepServers
<1> HIDE DEF hit
<1>6. RowsAreLegal'
  BY <1>1, <1>3, <1>5 DEF IInv, RowsAreLegal, KeepServers
<1>7. IInv'
  BY <1>1, <1>2, <1>4, <1>5, <1>6, Step DEF Finish, KeepServers
<1>8. OwnerKept
  <2> SUFFICES ASSUME NEW s \in DOMAIN servers,
                      RoleOf(s, servers[s].owner) = "owner"
               PROVE  subscribers'[FindOne(Rows(subscribers, s, servers[s].owner))].role = "owner"
    BY DEF OwnerKept
  <2>1. PICK i \in Rows(subscribers, s, servers[s].owner) :
          /\ i = FindOne(Rows(subscribers, s, servers[s].owner))
          /\ RoleOf(s, servers[s].owner) = subscribers[i].role
    BY RoleIsOfARow DEF IInv
  <2>2. i \notin hit
    BY <2>1 DEF hit, Rows, Recognised, Owner
  <2> QED
    BY <1>3, <2>1, <2>2 DEF Rows
<1>9. Appointed
  BY <1>3 DEF Appointed, Finish, IInv, TypeOK, Owner
<1> QED
  BY <1>7, <1>8, <1>9

-----------------------------------------------------------------------------
\* The first row of an account: who has a role in the eyes of the guards.
LEMMA MemberKnows ==
  ASSUME IInv, NEW s \in DOMAIN servers, NEW a
  PROVE  /\ RoleOf(s, a) = "owner" => a = Owner(s) /\ Recognised(s)
         /\ RoleOf(s, a) \in Members => Recognised(s)
<1>1. RoleOf(s, a) # "none" =>
        \E i \in DOMAIN subscribers :
          /\ subscribers[i].server = s /\ subscribers[i].subscriber = a
          /\ RoleOf(s, a) = subscribers[i].role
  BY RoleIsOfARow DEF IInv, Rows
<1>2. RoleOf(s, a) = "owner" => a = Owner(s)
  BY <1>1 DEF IInv, RowsAreLegal
<1>3. RoleOf(s, a) \in UserRole => Recognised(s)
  BY <1>1 DEF IInv, RowsAreLegal, UserRole
<1> QED
  BY <1>2, <1>3 DEF Recognised, Members, UserRole

\* What a handler knows is about a server that exists.
LEMMA HandlerOf ==
  ASSUME IInv, NEW r \in Request, NEW op, NEW label, At(r, op, label),
         op # "idle"
  PROVE  /\ reqs[r] \in Handler /\ reqs[r] # Idle
         /\ reqs[r].op = op /\ reqs[r].pc = label
         /\ HandlerKnows(reqs[r])
         /\ reqs[r].server \in DOMAIN servers
<1>1. reqs[r] # Idle
  BY DEF At, Idle
<1> QED
  BY <1>1 DEF At, IInv, TypeOK, HandlersKnow, HandlerKnows

\* A handler that ends without touching a table.
LEMMA EndStep ==
  ASSUME IInv, NEW r \in Request, Finish(r), KeepTables
  PROVE  IInv' /\ OwnerKept /\ Appointed
BY QuietStep DEF Finish

\* A handler that is admitted.
LEMMA AdmitStep ==
  ASSUME IInv, NEW r \in Request, NEW h \in Handler, Admit(r, h),
         HandlerKnows(h)
  PROVE  IInv' /\ OwnerKept /\ Appointed
BY QuietStep DEF Admit

LEMMA CreateServerStep ==
  ASSUME IInv, NEW r \in Request, CreateServer(r)
  PROVE  IInv' /\ OwnerKept /\ Appointed
<1>0. PICK n : n = nextServer
  OBVIOUS
<1>1. PICK me \in Account, visable \in BOOLEAN :
        /\ servers' = Insert(servers, n, [owner |-> me, visable |-> visable])
        /\ reqs' = [reqs EXCEPT ![r] = [op |-> "create", pc |-> "subscribe",
                                        me |-> me, server |-> n]]
  BY <1>0 DEF CreateServer
<1> DEFINE h == [op |-> "create", pc |-> "subscribe", me |-> me, server |-> n]
           row == [owner |-> me, visable |-> visable]
<1>2. /\ n \in Nat \ {0} /\ n - 1 \in Nat /\ (n + 1) - 1 = n
      /\ nextServer' = n + 1 /\ n + 1 \in 1 .. (MaxServers + 1)
      /\ servers \in [1 .. (n - 1) -> ServerRow]
  BY <1>0, BoundsAssumption DEF IInv, TypeOK, CreateServer
<1>3. row \in ServerRow /\ row.owner = me
  BY DEF ServerRow
<1>4. h \in Handler
  BY <1>2 DEF Handler, CreateHandler
<1>5. UNCHANGED <<subscribers, nextSubscriber>>
  BY DEF CreateServer
<1> HIDE DEF row
<1>6. /\ servers' \in [1 .. n -> ServerRow]
      /\ servers'[n] = row
      /\ \A s \in DOMAIN servers : s \in DOMAIN servers' /\ servers'[s] = servers[s]
  BY <1>1, <1>2, <1>3 DEF Insert, row
<1>7. TypeOK'
  <2>1. reqs' \in [Request -> Handler \cup {Idle}]
    BY <1>1, <1>4 DEF IInv, TypeOK
  <2>2. servers' \in [1 .. (nextServer' - 1) -> ServerRow]
    BY <1>2, <1>6
  <2> QED
    BY <1>2, <1>5, <2>1, <2>2 DEF IInv, TypeOK
<1>8. \A s, a : RoleOf(s, a)' = RoleOf(s, a)
  BY <1>5 DEF RoleOf, Rows
<1>9. \A s \in DOMAIN servers :
        /\ s \in DOMAIN servers' /\ Owner(s)' = Owner(s)
        /\ Recognised(s) => Recognised(s)'
        /\ Shadowed(s) => Shadowed(s)'
  BY <1>6, <1>8 DEF Owner, Recognised, Shadowed
<1>10. RowsAreLegal'
  BY <1>5, <1>9 DEF IInv, RowsAreLegal
<1>11. HandlerKnows(h)'
  <2>1. n \in DOMAIN servers' /\ Owner(n)' = me
    BY <1>2, <1>3, <1>6 DEF Owner
  <2> QED
    BY <2>1 DEF HandlerKnows
<1>12. reqs' = [reqs EXCEPT ![r] = h]
  BY <1>1
<1> HIDE DEF h
<1>13. IInv'
  BY <1>4, <1>7, <1>8, <1>9, <1>10, <1>11, <1>12, Step
<1>14. OwnerKept
  BY <1>5, RoleIsOfARow DEF IInv, OwnerKept
<1>15. Appointed
  BY <1>5 DEF Appointed
<1> QED
  BY <1>13, <1>14, <1>15

LEMMA UpdateServerStep ==
  ASSUME IInv, NEW r \in Request, UpdateServer(r)
  PROVE  IInv' /\ OwnerKept /\ Appointed
<1>1. /\ Finish(r)
      /\ UNCHANGED <<nextServer, subscribers, nextSubscriber>>
  BY DEF UpdateServer
<1>2. /\ servers' \in [1 .. (nextServer - 1) -> ServerRow]
      /\ DOMAIN servers' = DOMAIN servers
      /\ \A s \in DOMAIN servers : servers'[s].owner = servers[s].owner
  BY DEF UpdateServer, Update, IInv, TypeOK, ServerRow
<1>3. TypeOK'
  BY <1>1, <1>2 DEF IInv, TypeOK, Finish
<1>4. \A s, a : RoleOf(s, a)' = RoleOf(s, a)
  BY <1>1 DEF RoleOf, Rows
<1>5. \A s \in DOMAIN servers :
        /\ s \in DOMAIN servers' /\ Owner(s)' = Owner(s)
        /\ Recognised(s) => Recognised(s)'
        /\ Shadowed(s) => Shadowed(s)'
  BY <1>2, <1>4 DEF Owner, Recognised, Shadowed
<1>6. RowsAreLegal'
  BY <1>1, <1>5 DEF IInv, RowsAreLegal
<1>7. IInv'
  BY <1>1, <1>3, <1>4, <1>5, <1>6, Step DEF Finish
<1>8. OwnerKept
  BY <1>1, RoleIsOfARow DEF IInv, OwnerKept
<1>9. Appointed
  BY <1>1 DEF Appointed
<1> QED
  BY <1>7, <1>8, <1>9

-----------------------------------------------------------------------------
(***************************************************************************)
(* The actions.                                                            *)
(***************************************************************************)
LEMMA CreateStep ==
  ASSUME IInv, NEW r \in Request, Create(r)
  PROVE  IInv' /\ OwnerKept /\ Appointed
<1>1. CASE CreateServer(r)
  BY <1>1, CreateServerStep
<1>2. CASE SubscribeOwner(r)
  <2>1. /\ reqs[r] \in Handler /\ reqs[r].op = "create"
        /\ reqs[r].server \in DOMAIN servers
        /\ reqs[r].me = Owner(reqs[r].server)
    BY <1>2, HandlerOf DEF SubscribeOwner, HandlerKnows
  <2>2. reqs[r].me \in Account
    BY <2>1 DEF Handler, CreateHandler, InviteHandler, KickHandler,
                LeaveHandler, RoleHandler, OtherHandler
  <2> QED
    BY <1>2, <2>1, <2>2, InsertStep DEF SubscribeOwner
<1> QED
  BY <1>1, <1>2 DEF Create

LEMMA InviteStep ==
  ASSUME IInv, NEW r \in Request, Invite(r)
  PROVE  IInv' /\ OwnerKept /\ Appointed
<1>1. CASE GuardVisable(r)
  <2>1. PICK me, him \in Account, s \in DOMAIN servers :
          Admit(r, [op |-> "invite",
                    pc |-> IF servers[s].visable THEN "insert" ELSE "role",
                    me |-> me, him |-> him, server |-> s])
    BY <1>1 DEF GuardVisable
  <2> DEFINE label == IF servers[s].visable THEN "insert" ELSE "role"
             h == [op |-> "invite", pc |-> label, me |-> me, him |-> him,
                   server |-> s]
  <2>2. s \in Nat \ {0}
    BY BoundsAssumption DEF IInv, TypeOK
  <2>3. h \in Handler
    BY <2>2 DEF Handler, InviteHandler
  <2>4. HandlerKnows(h)
    BY DEF HandlerKnows
  <2>5. Admit(r, h)
    BY <2>1
  <2> HIDE DEF h
  <2> QED
    BY <2>3, <2>4, <2>5, AdmitStep
<1>2. CASE GuardInviter(r)
  <2>1. /\ reqs[r] \in Handler /\ reqs[r].op = "invite"
        /\ reqs[r].server \in DOMAIN servers
    BY <1>2, HandlerOf DEF GuardInviter
  <2> DEFINE h == [reqs[r] EXCEPT !.pc = "insert"]
  <2>2. h \in Handler /\ h.op = "invite" /\ h.server = reqs[r].server
    BY <2>1 DEF Handler, CreateHandler, InviteHandler, KickHandler,
                LeaveHandler, RoleHandler, OtherHandler
  <2> HIDE DEF h
  <2>3. HandlerKnows(h)
    BY <2>1, <2>2 DEF HandlerKnows
  <2>4. CASE Goto(r, "insert") /\ KeepTables
    <3>1. reqs' = [reqs EXCEPT ![r] = h]
      BY <2>4 DEF Goto, h
    <3> QED
      BY <2>2, <2>3, <2>4, <3>1, QuietStep
  <2>5. CASE Finish(r) /\ KeepTables
    BY <2>5, EndStep
  <2> QED
    BY <1>2, <2>4, <2>5 DEF GuardInviter, PassIf
<1>3. CASE SendInvitation(r)
  <2>1. /\ reqs[r] \in Handler /\ reqs[r].op = "invite"
        /\ reqs[r].server \in DOMAIN servers
    BY <1>3, HandlerOf DEF SendInvitation
  <2>2. reqs[r].him \in Account
    BY <2>1 DEF Handler, CreateHandler, InviteHandler, KickHandler,
                LeaveHandler, RoleHandler, OtherHandler
  <2> QED
    BY <1>3, <2>1, <2>2, InsertStep DEF SendInvitation
<1> QED
  BY <1>1, <1>2, <1>3 DEF Invite

\* The check of kickUser lets an owner be kicked only whose first subscription
\* is an invitation.
LEMMA KickStep ==
  ASSUME IInv, NEW r \in Request, Kick(r)
  PROVE  IInv' /\ OwnerKept /\ Appointed
<1>1. CASE WsIsServerAdmin(r)
  <2>1. PICK me, him \in Account, s \in DOMAIN servers :
          Admit(r, [op |-> "kick", pc |-> "user", me |-> me, him |-> him,
                    server |-> s, seen |-> "none"])
    BY <1>1 DEF WsIsServerAdmin
  <2> DEFINE h == [op |-> "kick", pc |-> "user", me |-> me, him |-> him,
                   server |-> s, seen |-> "none"]
  <2>2. s \in Nat \ {0}
    BY BoundsAssumption DEF IInv, TypeOK
  <2>3. h \in Handler
    BY <2>2 DEF Handler, KickHandler
  <2>4. HandlerKnows(h)
    BY DEF HandlerKnows
  <2>5. Admit(r, h)
    BY <2>1
  <2> HIDE DEF h
  <2> QED
    BY <2>3, <2>4, <2>5, AdmitStep
<1>2. CASE KickFindUser(r)
  <2>1. /\ reqs[r] \in Handler /\ reqs[r].op = "kick"
        /\ reqs[r].server \in DOMAIN servers
    BY <1>2, HandlerOf DEF KickFindUser
  <2> DEFINE seen == RoleOf(reqs[r].server, reqs[r].him)
             h == [reqs[r] EXCEPT !.pc = "admin", !.seen = seen]
  <2>2. seen \in SubscriberRole \cup {"none"}
    <3>1. seen # "none" => \E i \in DOMAIN subscribers : seen = subscribers[i].role
      BY RoleIsOfARow DEF IInv, Rows
    <3> QED
      BY <3>1 DEF IInv, TypeOK, SubscriberRow
  <2> HIDE DEF seen
  <2>3. /\ h \in Handler /\ h.op = "kick" /\ h.pc = "admin"
        /\ h.server = reqs[r].server /\ h.him = reqs[r].him /\ h.seen = seen
    BY <2>1, <2>2 DEF Handler, CreateHandler, InviteHandler, KickHandler,
                      LeaveHandler, RoleHandler, OtherHandler
  <2>4. reqs' = [reqs EXCEPT ![r] = h] /\ KeepTables
    BY <1>2 DEF KickFindUser, seen
  <2> HIDE DEF h
  <2>5. HandlerKnows(h)
    BY <2>1, <2>3 DEF HandlerKnows, Shadowed, seen
  <2> QED
    BY <2>3, <2>4, <2>5, QuietStep
<1>3. CASE KickFindAdmin(r)
  <2>1. /\ reqs[r] \in Handler /\ reqs[r].op = "kick" /\ reqs[r].pc = "admin"
        /\ reqs[r].server \in DOMAIN servers /\ HandlerKnows(reqs[r])
    BY <1>3, HandlerOf DEF KickFindAdmin
  <2> DEFINE h == [reqs[r] EXCEPT !.pc = "update"]
  <2>2. /\ h \in Handler /\ h.op = "kick"
        /\ h.server = reqs[r].server /\ h.him = reqs[r].him
        /\ h.me = reqs[r].me /\ h.seen = reqs[r].seen
    BY <2>1 DEF Handler, CreateHandler, InviteHandler, KickHandler,
                LeaveHandler, RoleHandler, OtherHandler
  <2> HIDE DEF h
  <2>3. CASE /\ reqs[r].seen \notin {"none", "owner"}
             /\ reqs[r].seen = "admin" =>
                  RoleOf(reqs[r].server, reqs[r].me) = "owner"
             /\ Goto(r, "update") /\ KeepTables
    <3>1. HandlerKnows(h)
      BY <2>1, <2>2, <2>3, MemberKnows DEF HandlerKnows
    <3>2. reqs' = [reqs EXCEPT ![r] = h]
      BY <2>3 DEF Goto, h
    <3> QED
      BY <2>2, <2>3, <3>1, <3>2, QuietStep
  <2>4. CASE Finish(r) /\ KeepTables
    BY <2>4, EndStep
  <2> QED
    BY <1>3, <2>3, <2>4 DEF KickFindAdmin, PassIf
<1>4. CASE KickUser(r)
  <2>1. /\ reqs[r].server \in DOMAIN servers
        /\ reqs[r].him = Owner(reqs[r].server) => Shadowed(reqs[r].server)
    BY <1>4, HandlerOf DEF KickUser, HandlerKnows
  <2> QED
    BY <1>4, <2>1, UpdateStep DEF KickUser, Shadowed, Recognised, UserRole
<1> QED
  BY <1>1, <1>2, <1>3, <1>4 DEF Kick

LEMMA LeaveOrListStep ==
  ASSUME IInv, NEW r \in Request, LeaveOrList(r)
  PROVE  IInv' /\ OwnerKept /\ Appointed
<1>1. CASE WsIsServerMember(r)
  <2>1. PICK me \in Account, s \in DOMAIN servers :
          /\ RoleOf(s, me) \in Members
          /\ \/ Admit(r, [op |-> "leave", pc |-> "check", me |-> me,
                          server |-> s])
             \/ Admit(r, [op |-> "list", pc |-> "last", me |-> me,
                          server |-> s])
    BY <1>1 DEF WsIsServerMember
  <2> DEFINE leave == [op |-> "leave", pc |-> "check", me |-> me, server |-> s]
             list == [op |-> "list", pc |-> "last", me |-> me, server |-> s]
  <2>2. s \in Nat \ {0}
    BY BoundsAssumption DEF IInv, TypeOK
  <2>3. leave \in Handler /\ list \in Handler
    BY <2>2 DEF Handler, LeaveHandler, OtherHandler
  <2>4. RoleOf(s, me) # "none" /\ Recognised(s)
    BY <2>1, MemberKnows DEF Members
  <2>5. HandlerKnows(leave) /\ HandlerKnows(list)
    BY <2>4 DEF HandlerKnows
  <2>6. Admit(r, leave) \/ Admit(r, list)
    BY <2>1
  <2> HIDE DEF leave, list
  <2> QED
    BY <2>3, <2>5, <2>6, AdmitStep
<1>2. CASE LeaveFindUser(r)
  <2>1. /\ reqs[r] \in Handler /\ reqs[r].op = "leave"
        /\ reqs[r].server \in DOMAIN servers /\ HandlerKnows(reqs[r])
    BY <1>2, HandlerOf DEF LeaveFindUser
  <2> DEFINE h == [reqs[r] EXCEPT !.pc = "update"]
  <2>2. /\ h \in Handler /\ h.op = "leave"
        /\ h.server = reqs[r].server /\ h.me = reqs[r].me
    BY <2>1 DEF Handler, CreateHandler, InviteHandler, KickHandler,
                LeaveHandler, RoleHandler, OtherHandler
  <2> HIDE DEF h
  <2>3. CASE /\ RoleOf(reqs[r].server, reqs[r].me) # "owner"
             /\ Goto(r, "update") /\ KeepTables
    <3>1. HandlerKnows(h)
      BY <2>1, <2>2, <2>3 DEF HandlerKnows, Shadowed
    <3>2. reqs' = [reqs EXCEPT ![r] = h]
      BY <2>3 DEF Goto, h
    <3> QED
      BY <2>2, <2>3, <3>1, <3>2, QuietStep
  <2>4. CASE Finish(r) /\ KeepTables
    BY <2>4, EndStep
  <2> QED
    BY <1>2, <2>3, <2>4 DEF LeaveFindUser, PassIf
<1>3. CASE LeaveServer(r)
  <2>1. /\ reqs[r].server \in DOMAIN servers
        /\ reqs[r].me = Owner(reqs[r].server) => Shadowed(reqs[r].server)
    BY <1>3, HandlerOf DEF LeaveServer, HandlerKnows
  <2> QED
    BY <1>3, <2>1, UpdateStep DEF LeaveServer, Shadowed, Recognised, UserRole
<1>4. CASE ListMembers(r)
  BY <1>4, EndStep DEF ListMembers
<1> QED
  BY <1>1, <1>2, <1>3, <1>4 DEF LeaveOrList

LEMMA ManageStep ==
  ASSUME IInv, NEW r \in Request, Manage(r)
  PROVE  IInv' /\ OwnerKept /\ Appointed
<1>1. ASSUME NEW me \in Account, NEW s \in DOMAIN servers,
             Admit(r, [op |-> "update", pc |-> "last", me |-> me, server |-> s])
      PROVE  IInv' /\ OwnerKept /\ Appointed
  <2> DEFINE h == [op |-> "update", pc |-> "last", me |-> me, server |-> s]
  <2>1. s \in Nat \ {0}
    BY BoundsAssumption DEF IInv, TypeOK
  <2>2. h \in Handler
    BY <2>1 DEF Handler, OtherHandler
  <2>3. HandlerKnows(h)
    BY DEF HandlerKnows
  <2>4. Admit(r, h)
    BY <1>1
  <2> HIDE DEF h
  <2> QED
    BY <2>2, <2>3, <2>4, AdmitStep
<1>2. ASSUME NEW me \in Account, NEW s \in DOMAIN servers,
             NEW him \in Account \ {me}, RoleOf(s, me) = "owner",
             Admit(r, [op |-> "role", pc |-> "update", me |-> me, him |-> him,
                       server |-> s])
      PROVE  IInv' /\ OwnerKept /\ Appointed
  <2> DEFINE h == [op |-> "role", pc |-> "update", me |-> me, him |-> him,
                   server |-> s]
  <2>1. s \in Nat \ {0}
    BY BoundsAssumption DEF IInv, TypeOK
  <2>2. h \in Handler
    BY <2>1 DEF Handler, RoleHandler
  <2>3. HandlerKnows(h)
    BY <1>2, MemberKnows DEF HandlerKnows
  <2>4. Admit(r, h)
    BY <1>2
  <2> HIDE DEF h
  <2> QED
    BY <2>2, <2>3, <2>4, AdmitStep
<1>3. CASE WsIsServerOwner(r)
  BY <1>1, <1>2, <1>3 DEF WsIsServerOwner, AdmitOwner
<1>4. CASE IsServerOwner(r)
  BY <1>1, <1>4 DEF IsServerOwner
<1>5. CASE ChangeUserRole(r)
  <2>1. /\ reqs[r].server \in DOMAIN servers
        /\ reqs[r].me = Owner(reqs[r].server) /\ reqs[r].him # reqs[r].me
        /\ Recognised(reqs[r].server)
    BY <1>5, HandlerOf DEF ChangeUserRole, HandlerKnows
  <2>2. PICK role \in UserRole : SetRole(reqs[r].server, reqs[r].him, role)
    BY <1>5 DEF ChangeUserRole
  <2> QED
    BY <1>5, <2>1, <2>2, UpdateStep DEF ChangeUserRole
<1>6. CASE UpdateServer(r)
  BY <1>6, UpdateServerStep
<1> QED
  BY <1>3, <1>4, <1>5, <1>6 DEF Manage

LEMMA NextStep ==
  ASSUME IInv, Next
  PROVE  IInv' /\ OwnerKept /\ Appointed
<1>1. PICK r \in Request :
        Create(r) \/ Invite(r) \/ Kick(r) \/ LeaveOrList(r) \/ Manage(r) \/ Fail(r)
  BY DEF Next
<1>2. CASE Fail(r)
  BY <1>2, EndStep DEF Fail
<1> QED
  BY <1>1, <1>2, CreateStep, InviteStep, KickStep, LeaveOrListStep, ManageStep

LEMMA IdleStep ==
  ASSUME IInv, UNCHANGED vars
  PROVE  IInv'
<1>1. \A s, a : RoleOf(s, a)' = RoleOf(s, a)
  BY DEF vars, RoleOf, Rows
<1>2. \A s : Recognised(s)' = Recognised(s) /\ Shadowed(s)' = Shadowed(s)
             /\ Owner(s)' = Owner(s)
  BY <1>1 DEF vars, Recognised, Shadowed, Owner
<1>3. TypeOK' /\ RowsAreLegal'
  BY <1>2 DEF vars, IInv, TypeOK, RowsAreLegal
<1>4. HandlersKnow'
  BY <1>1, <1>2 DEF vars, IInv, HandlersKnow, HandlerKnows
<1> QED
  BY <1>3, <1>4 DEF IInv

LEMMA InitIInv == Init => IInv
<1> SUFFICES ASSUME Init PROVE IInv
  OBVIOUS
<1>1. 1 - 1 = 0 /\ 1 .. 0 = {}
  OBVIOUS
<1>2. TypeOK
  BY <1>1, BoundsAssumption DEF Init, TypeOK, NoRows
<1>3. HandlersKnow /\ RowsAreLegal
  BY DEF Init, HandlersKnow, RowsAreLegal, NoRows
<1> QED
  BY <1>2, <1>3 DEF IInv
-----------------------------------------------------------------------------
(***************************************************************************)
(* Guards and checks of ServersGateway: what each handler relies on after  *)
(* them, and who can be owner, admin or member, is an inductive invariant. *)
(***************************************************************************)
THEOREM Invariance == Spec => []IInv
<1>1. IInv /\ [Next]_vars => IInv'
  BY NextStep, IdleStep
<1> QED
  BY InitIInv, <1>1, PTL DEF Spec

(***************************************************************************)
(* The tables and the handlers of the servers have their types.            *)
(***************************************************************************)
THEOREM TypeCorrectness == Spec => []TypeOK
<1>1. IInv => TypeOK
  BY DEF IInv
<1> QED
  BY Invariance, <1>1, PTL

(***************************************************************************)
(* An owner the guards recognise is never kicked, never leaves and never   *)
(* loses the role to a role change, for any number of handlers at once.    *)
(***************************************************************************)
THEOREM OwnerKeepsRole == Spec => OwnerStays
<1>1. IInv /\ [Next]_vars => [OwnerKept]_vars
  BY NextStep
<1> QED
  BY Invariance, <1>1, PTL DEF Spec, OwnerStays

(***************************************************************************)
(* members[0] of handleServerMembersList exists whenever its query runs.   *)
(***************************************************************************)
THEOREM ListIsNeverEmpty == Spec => []MembersListNeverEmpty
<1>1. IInv => MembersListNeverEmpty
  <2> SUFFICES ASSUME IInv, NEW r \in Request, At(r, "list", "last")
               PROVE  MembersOf(reqs[r].server) # {}
    BY DEF MembersListNeverEmpty
  <2> DEFINE s == reqs[r].server
  <2>1. RoleOf(s, Owner(s)) = "owner"
    BY HandlerOf DEF HandlerKnows, Recognised
  <2>2. PICK i \in Rows(subscribers, s, Owner(s)) : subscribers[i].role = "owner"
    BY <2>1, RoleIsOfARow DEF IInv
  <2>3. i \in MembersOf(s)
    BY <2>2 DEF Rows, MembersOf, Members
  <2> QED
    BY <2>3
<1> QED
  BY Invariance, <1>1, PTL

(***************************************************************************)
(* Admins and members are appointed by the one who owns the server.        *)
(***************************************************************************)
THEOREM AppointmentsAreTheOwners == Spec => AppointedByOwner
<1>1. IInv /\ [Next]_vars => [Appointed]_vars
  BY NextStep
<1> QED
  BY Invariance, <1>1, PTL DEF Spec, AppointedByOwner

(***************************************************************************)
(* kickUser lets nobody but the owner of the server kick an account that   *)
(* was an admin when it was read.                                          *)
(***************************************************************************)
THEOREM AdminsAreTheOwners == Spec => []AdminsKickedByOwner
<1>1. IInv => AdminsKickedByOwner
  BY HandlerOf DEF AdminsKickedByOwner, HandlerKnows, Owner
<1> QED
  BY Invariance, <1>1, PTL
-----------------------------------------------------------------------------
(***************************************************************************)
(* The role the guards see of an account moves as RoleLifecycle says.      *)
(***************************************************************************)
Seen == [s \in 1 .. MaxServers |-> [a \in Account |-> RoleOf(s, a)]]

\* Who is about to leave was in: the guard stops an account that is only invited,
\* and no update makes a first row an invitation again.
LeaversWereIn ==
  \A r \in Request : reqs[r].op = "leave" =>
    /\ reqs[r].server \in DOMAIN servers /\ reqs[r].me \in Account
    /\ RoleOf(reqs[r].server, reqs[r].me) \notin {"none", "pending"}

LEMMA SeenStays ==
  ASSUME UNCHANGED subscribers
  PROVE  Seen' = Seen
BY DEF Seen, RoleOf, Rows

\* What a role is, and that the servers of rows are those of the lifecycle.
LEMMA SeenType ==
  ASSUME IInv
  PROVE  /\ DOMAIN servers \subseteq 1 .. MaxServers
         /\ \A s, a : RoleOf(s, a) \in Roles!Role
<1>1. nextServer - 1 <= MaxServers /\ nextServer \in Nat
  BY BoundsAssumption DEF IInv, TypeOK
<1>2. DOMAIN servers \subseteq 1 .. MaxServers
  BY <1>1, BoundsAssumption DEF IInv, TypeOK
<1>3. ASSUME NEW s, NEW a
      PROVE  RoleOf(s, a) \in Roles!Role
  <2>1. \A i \in Rows(subscribers, s, a) : subscribers[i].role \in SubscriberRole
    BY DEF IInv, TypeOK, Rows, SubscriberRow
  <2>2. RoleOf(s, a) \in SubscriberRole \cup {"none"}
    BY <2>1, RoleIsOfARow DEF IInv
  <2> QED
    BY <2>2 DEF SubscriberRole, Roles!Role
<1> QED
  BY <1>2, <1>3

\* A step after which the guards see one account in another role.
LEMMA SeenMoves ==
  ASSUME NEW s \in 1 .. MaxServers, NEW a \in Account, NEW to, NEW from,
         RoleOf(s, a) \in from, RoleOf(s, a) # to,
         \A t, b : RoleOf(t, b)' =
           IF t = s /\ b = a THEN to ELSE RoleOf(t, b)
  PROVE  Roles!Become(s, a, from, to) /\ Seen'[s][a] # Seen[s][a]
<1>1. Seen[s][a] = RoleOf(s, a)
  BY DEF Seen
<1>2. Seen' = [Seen EXCEPT ![s][a] = to]
  BY DEF Seen
<1>3. Seen'[s][a] # Seen[s][a]
  BY <1>1 DEF Seen
<1> QED
  BY <1>1, <1>2, <1>3 DEF Roles!Become, Seen

\* A server the guards know the owner of is owned, and by nobody else.
LEMMA OwnedIsRecognised ==
  ASSUME IInv, NEW s \in DOMAIN servers
  PROVE  /\ Roles!Owned(s) <=> Recognised(s)
         /\ \A a : RoleOf(s, a) = "owner" => a = Owner(s)
<1>1. s \in 1 .. MaxServers /\ Owner(s) \in Account
  BY SeenType DEF IInv, TypeOK, ServerRow, Owner
<1>2. Roles!Owned(s) <=> \E a \in Account : RoleOf(s, a) = "owner"
  BY <1>1 DEF Roles!Owned
<1> QED
  BY <1>1, <1>2, MemberKnows DEF Recognised

LEMMA InsertIsAMove ==
  ASSUME IInv, NEW s \in DOMAIN servers, NEW a \in Account,
         NEW role \in {"owner", "pending"}, role = "owner" => a = Owner(s),
         Subscribe(s, a, role)
  PROVE  Roles!Next \/ Seen' = Seen
<1>1. s \in 1 .. MaxServers /\ s \in Nat \ {0}
  BY SeenType, BoundsAssumption
<1> DEFINE row == [server |-> s, subscriber |-> a, role |-> role]
<1>2. row \in SubscriberRow
  BY <1>1 DEF SubscriberRow, SubscriberRole
<1>3. \A t, b : RoleOf(t, b)' =
        IF RoleOf(t, b) # "none" THEN RoleOf(t, b)
        ELSE IF s = t /\ a = b THEN role ELSE "none"
  BY <1>2, InsertRoles DEF IInv, Subscribe
<1>4. CASE RoleOf(s, a) # "none"
  <2>1. \A t, b : RoleOf(t, b)' = RoleOf(t, b)
    BY <1>3, <1>4
  <2> QED
    BY <2>1 DEF Seen
<1>5. CASE RoleOf(s, a) = "none"
  <2>1. \A t, b : RoleOf(t, b)' = IF t = s /\ b = a THEN role ELSE RoleOf(t, b)
    BY <1>3, <1>5
  <2>2. Roles!Become(s, a, {"none"}, role) /\ Seen'[s][a] # Seen[s][a]
    BY <1>1, <1>5, <2>1, SeenMoves
  <2>3. CASE role = "owner"
    <3>1. ~ Roles!Owned(s)
      BY <1>5, <2>3, OwnedIsRecognised DEF Recognised
    <3> QED
      BY <1>1, <2>2, <2>3, <3>1 DEF Roles!Next, Roles!Found, Seen
  <2>4. CASE role = "pending"
    BY <1>1, <2>2, <2>4 DEF Roles!Next, Roles!Invite, Seen
  <2> QED
    BY <2>3, <2>4
<1> QED
  BY <1>4, <1>5

LEMMA UpdateIsAMove ==
  ASSUME IInv, NEW s \in DOMAIN servers, NEW a \in Account,
         NEW role \in {"admin", "member", "removed", "leave"},
         RoleOf(s, a) # "owner",
         role \in UserRole => Recognised(s),
         role = "leave" => RoleOf(s, a) # "pending",
         SetRole(s, a, role)
  PROVE  Roles!Next \/ Seen' = Seen
<1>1. s \in 1 .. MaxServers
  BY SeenType
<1>2. \A t, b : RoleOf(t, b)' =
        IF t = s /\ b = a /\ RoleOf(t, b) # "none" THEN role ELSE RoleOf(t, b)
  BY UpdateRoles DEF IInv, SubscriberRole
<1>3. CASE RoleOf(s, a) = "none"
  <2>1. \A t, b : RoleOf(t, b)' = RoleOf(t, b)
    BY <1>2, <1>3
  <2> QED
    BY <2>1 DEF Seen
<1>4. CASE RoleOf(s, a) = role
  <2>1. \A t, b : RoleOf(t, b)' = RoleOf(t, b)
    BY <1>2, <1>4
  <2> QED
    BY <2>1 DEF Seen
<1>5. CASE RoleOf(s, a) \notin {"none", role}
  <2>1. \A t, b : RoleOf(t, b)' = IF t = s /\ b = a THEN role ELSE RoleOf(t, b)
    BY <1>2, <1>5
  <2>2. RoleOf(s, a) \in Roles!Movable
    BY <1>5, SeenType DEF Roles!Movable
  <2>3. CASE role \in UserRole
    <3>1. Roles!Owned(s)
      BY <2>3, OwnedIsRecognised
    <3>2. /\ Roles!Become(s, a, Roles!Movable, role)
          /\ Seen'[s][a] # Seen[s][a]
      BY <1>1, <1>5, <2>1, <2>2, SeenMoves
    <3> QED
      BY <1>1, <2>3, <3>1, <3>2 DEF Roles!Next, Roles!Appoint, UserRole, Seen
  <2>4. CASE role = "removed"
    <3>1. /\ Roles!Become(s, a, Roles!Movable, role)
          /\ Seen'[s][a] # Seen[s][a]
      BY <1>1, <1>5, <2>1, <2>2, SeenMoves
    <3> QED
      BY <1>1, <2>4, <3>1 DEF Roles!Next, Roles!Remove, Seen
  <2>5. CASE role = "leave"
    <3>1. /\ Roles!Become(s, a, Roles!Movable \ {"pending"}, role)
          /\ Seen'[s][a] # Seen[s][a]
      BY <1>1, <1>5, <2>1, <2>2, <2>5, SeenMoves
    <3> QED
      BY <1>1, <2>5, <3>1 DEF Roles!Next, Roles!Leave, Seen
  <2> QED
    BY <2>3, <2>4, <2>5 DEF UserRole
<1> QED
  BY <1>3, <1>4, <1>5

\* Every statement is a step of the lifecycle or none.
LEMMA StepIsAMove ==
  ASSUME IInv, LeaversWereIn, Next
  PROVE  Roles!Next \/ Seen' = Seen
<1>1. PICK r \in Request :
        Create(r) \/ Invite(r) \/ Kick(r) \/ LeaveOrList(r) \/ Manage(r) \/ Fail(r)
  BY DEF Next
<1>2. ASSUME NEW op, NEW label, At(r, op, label), op # "idle"
      PROVE  /\ HandlerKnows(reqs[r]) /\ reqs[r].server \in DOMAIN servers
             /\ reqs[r].op = op /\ reqs[r].pc = label
             /\ reqs[r].me \in Account
             /\ op \in {"invite", "kick", "role"} => reqs[r].him \in Account
  <2>1. reqs[r] \in Handler /\ reqs[r].op = op
    BY <1>2, HandlerOf
  <2> QED
    BY <1>2, <2>1, HandlerOf DEF Handler, CreateHandler, InviteHandler,
       KickHandler, LeaveHandler, RoleHandler, OtherHandler
<1>3. CASE Create(r)
  <2>1. CASE CreateServer(r)
    BY <2>1, SeenStays DEF CreateServer
  <2>2. CASE SubscribeOwner(r)
    BY <1>2, <2>2, InsertIsAMove DEF SubscribeOwner, HandlerKnows
  <2> QED
    BY <1>3, <2>1, <2>2 DEF Create
<1>4. CASE Invite(r)
  <2>1. CASE SendInvitation(r)
    BY <1>2, <2>1, InsertIsAMove DEF SendInvitation
  <2>2. CASE ~ SendInvitation(r)
    BY <1>4, <2>2, SeenStays
       DEF Invite, GuardVisable, GuardInviter, Admit, PassIf, KeepTables
  <2> QED
    BY <2>1, <2>2
<1>5. CASE Kick(r)
  <2>1. CASE KickUser(r)
    <3>1. /\ reqs[r].server \in DOMAIN servers /\ reqs[r].him \in Account
          /\ reqs[r].him = Owner(reqs[r].server) => Shadowed(reqs[r].server)
      BY <1>2, <2>1 DEF KickUser, HandlerKnows
    <3>2. RoleOf(reqs[r].server, reqs[r].him) # "owner"
      BY <3>1, MemberKnows DEF Shadowed
    <3> QED
      BY <2>1, <3>1, <3>2, UpdateIsAMove DEF KickUser, UserRole
  <2>2. CASE ~ KickUser(r)
    BY <1>5, <2>2, SeenStays
       DEF Kick, WsIsServerAdmin, KickFindUser, KickFindAdmin, Admit, PassIf,
           KeepTables
  <2> QED
    BY <2>1, <2>2
<1>6. CASE LeaveOrList(r)
  <2>1. CASE LeaveServer(r)
    <3>1. /\ reqs[r].server \in DOMAIN servers /\ reqs[r].me \in Account
          /\ reqs[r].me = Owner(reqs[r].server) => Shadowed(reqs[r].server)
      BY <1>2, <2>1 DEF LeaveServer, HandlerKnows
    <3>2. RoleOf(reqs[r].server, reqs[r].me) # "owner"
      BY <3>1, MemberKnows DEF Shadowed
    <3>3. RoleOf(reqs[r].server, reqs[r].me) # "pending"
      BY <2>1 DEF LeaveServer, At, LeaversWereIn
    <3> QED
      BY <2>1, <3>1, <3>2, <3>3, UpdateIsAMove DEF LeaveServer, UserRole
  <2>2. CASE ~ LeaveServer(r)
    BY <1>6, <2>2, SeenStays
       DEF LeaveOrList, WsIsServerMember, LeaveFindUser, ListMembers, Admit,
           PassIf, KeepTables
  <2> QED
    BY <2>1, <2>2
<1>7. CASE Manage(r)
  <2>1. CASE ChangeUserRole(r)
    <3>1. /\ reqs[r].server \in DOMAIN servers /\ reqs[r].him \in Account
          /\ reqs[r].me = Owner(reqs[r].server) /\ reqs[r].him # reqs[r].me
          /\ Recognised(reqs[r].server)
      BY <1>2, <2>1 DEF ChangeUserRole, HandlerKnows
    <3>2. RoleOf(reqs[r].server, reqs[r].him) # "owner"
      BY <3>1, MemberKnows
    <3>3. PICK role \in UserRole : SetRole(reqs[r].server, reqs[r].him, role)
      BY <2>1 DEF ChangeUserRole
    <3> QED
      BY <3>1, <3>2, <3>3, UpdateIsAMove DEF UserRole
  <2>2. CASE ~ ChangeUserRole(r)
    BY <1>7, <2>2, SeenStays
       DEF Manage, WsIsServerOwner, IsServerOwner, AdmitOwner, UpdateServer,
           Admit, KeepTables
  <2> QED
    BY <2>1, <2>2
<1>8. CASE Fail(r)
  BY <1>8, SeenStays DEF Fail, KeepTables
<1> QED
  BY <1>1, <1>3, <1>4, <1>5, <1>6, <1>7, <1>8

\* Of the lifecycle: who was in is not invited again.
LEMMA InStaysIn ==
  ASSUME Roles!Next \/ Seen' = Seen, NEW s \in 1 .. MaxServers, NEW a \in Account,
         RoleOf(s, a) \notin {"none", "pending"}
  PROVE  RoleOf(s, a)' \notin {"none", "pending"}
<1>1. Seen[s][a] = RoleOf(s, a) /\ Seen'[s][a] = RoleOf(s, a)'
  BY DEF Seen
<1>2. CASE Seen' = Seen
  BY <1>1, <1>2
<1>3. CASE Roles!Next
  <2>1. PICK t \in 1 .. MaxServers, b \in Account :
          \E from, to : /\ Roles!Become(t, b, from, to)
                        /\ to = "pending" => from = {"none"}
                        /\ to # "none"
    BY <1>3 DEF Roles!Next, Roles!Found, Roles!Invite, Roles!Appoint,
       Roles!Remove, Roles!Leave
  <2>2. PICK from, to : /\ Roles!Become(t, b, from, to)
                        /\ to = "pending" => from = {"none"}
                        /\ to # "none"
    BY <2>1
  <2>3. Seen[t][b] \in from /\ Seen' = [Seen EXCEPT ![t][b] = to]
    BY <2>2 DEF Roles!Become, Seen
  <2> /\ DOMAIN Seen = 1 .. MaxServers
      /\ \A i \in 1 .. MaxServers : DOMAIN Seen[i] = Account
    BY DEF Seen
  <2>4. Seen'[s][a] = IF s = t /\ a = b THEN to ELSE Seen[s][a]
    BY <2>3
  <2>5. CASE s = t /\ a = b
    <3>1. Seen[s][a] \in from
      BY <2>3, <2>5
    <3>2. to # "pending"
      BY <1>1, <2>2, <3>1
    <3> QED
      BY <1>1, <2>2, <2>4, <2>5, <3>2
  <2>6. CASE ~ (s = t /\ a = b)
    BY <1>1, <2>4, <2>6
  <2> QED
    BY <2>5, <2>6
<1> QED
  BY <1>2, <1>3

\* Where a handler that leaves comes from.
LEMMA LeaverOf ==
  ASSUME IInv, Next, NEW q \in Request, reqs'[q].op = "leave"
  PROVE  \/ /\ reqs[q].op = "leave"
            /\ reqs'[q].server = reqs[q].server /\ reqs'[q].me = reqs[q].me
         \/ /\ KeepTables
            /\ reqs'[q].server \in DOMAIN servers /\ reqs'[q].me \in Account
            /\ RoleOf(reqs'[q].server, reqs'[q].me) \in Members
<1>1. PICK r \in Request :
        Create(r) \/ Invite(r) \/ Kick(r) \/ LeaveOrList(r) \/ Manage(r) \/ Fail(r)
  BY DEF Next
<1>2. DOMAIN reqs = Request
  BY DEF IInv, TypeOK
<1>3. CASE q # r
  <2>1. reqs'[q] = reqs[q]
    BY <1>1, <1>2, <1>3
       DEF Create, CreateServer, SubscribeOwner, Invite, GuardVisable,
           GuardInviter, SendInvitation, Kick, WsIsServerAdmin, KickFindUser,
           KickFindAdmin, KickUser, LeaveOrList, WsIsServerMember,
           LeaveFindUser, LeaveServer, ListMembers, Manage, WsIsServerOwner,
           IsServerOwner, AdmitOwner, ChangeUserRole, UpdateServer, Fail,
           Admit, PassIf, Goto, Finish
  <2> QED
    BY <2>1
<1>4. CASE q = r
  <2>1. ~ Finish(r)
    BY <1>2, <1>4 DEF Finish, Idle
  <2>2. CASE LeaveFindUser(r)
    <3>1. reqs' = [reqs EXCEPT ![r].pc = "update"] /\ reqs[r].op = "leave"
      BY <2>1, <2>2 DEF LeaveFindUser, PassIf, Goto, At
    <3>2. reqs[r] \in LeaveHandler
      BY <2>2, <3>1, HandlerOf DEF LeaveFindUser, Handler, CreateHandler,
         InviteHandler, KickHandler, LeaveHandler, RoleHandler, OtherHandler
    <3> QED
      BY <1>2, <1>4, <3>1, <3>2 DEF LeaveHandler
  <2>3. CASE WsIsServerMember(r)
    <3>1. PICK me \in Account, s \in DOMAIN servers :
            /\ RoleOf(s, me) \in Members
            /\ \/ Admit(r, [op |-> "leave", pc |-> "check", me |-> me,
                            server |-> s])
               \/ Admit(r, [op |-> "list", pc |-> "last", me |-> me,
                            server |-> s])
      BY <2>3 DEF WsIsServerMember
    <3>2. KeepTables /\ reqs'[r].server = s /\ reqs'[r].me = me
      BY <1>2, <3>1 DEF Admit
    <3> QED
      BY <1>4, <3>1, <3>2
  <2>4. CASE GuardInviter(r) \/ KickFindUser(r) \/ KickFindAdmin(r)
    <3>1. reqs[r] \in InviteHandler \cup KickHandler
      <4>1. reqs[r] \in Handler /\ reqs[r].op \in {"invite", "kick"}
        BY <2>4, HandlerOf DEF GuardInviter, KickFindUser, KickFindAdmin
      <4> QED
        BY <4>1 DEF Handler, CreateHandler,
         InviteHandler, KickHandler, LeaveHandler, RoleHandler, OtherHandler
    <3>2. reqs'[r].op = reqs[r].op
      BY <1>2, <2>1, <2>4, <3>1 DEF GuardInviter, KickFindUser, KickFindAdmin,
         PassIf, Goto, InviteHandler, KickHandler
    <3> QED
      BY <1>4, <3>1, <3>2 DEF InviteHandler, KickHandler
  <2>5. CASE CreateServer(r) \/ GuardVisable(r) \/ WsIsServerAdmin(r)
             \/ WsIsServerOwner(r) \/ IsServerOwner(r)
    <3>1. reqs'[r].op # "leave"
      <4>1. CASE CreateServer(r)
        <5>1. PICK me \in Account :
                reqs' = [reqs EXCEPT ![r] = [op |-> "create", pc |-> "subscribe",
                                             me |-> me, server |-> nextServer]]
          BY <4>1 DEF CreateServer
        <5> QED
          BY <1>2, <5>1
      <4>2. ASSUME NEW h, Admit(r, h), h.op # "leave"
            PROVE  reqs'[r].op # "leave"
        BY <1>2, <4>2 DEF Admit
      <4>3. CASE GuardVisable(r)
        <5>1. PICK me, him \in Account, s \in DOMAIN servers :
                Admit(r, [op |-> "invite",
                          pc |-> IF servers[s].visable THEN "insert" ELSE "role",
                          me |-> me, him |-> him, server |-> s])
          BY <4>3 DEF GuardVisable
        <5> QED
          BY <4>2, <5>1
      <4>4. CASE WsIsServerAdmin(r)
        <5>1. PICK me, him \in Account, s \in DOMAIN servers :
                Admit(r, [op |-> "kick", pc |-> "user", me |-> me, him |-> him,
                          server |-> s, seen |-> "none"])
          BY <4>4 DEF WsIsServerAdmin
        <5> QED
          BY <4>2, <5>1
      <4>5. CASE WsIsServerOwner(r) \/ IsServerOwner(r)
        <5>1. PICK me, s : AdmitOwner(r, me, s)
                \/ Admit(r, [op |-> "update", pc |-> "last", me |-> me,
                             server |-> s])
          BY <4>5 DEF WsIsServerOwner, IsServerOwner
        <5>2. CASE Admit(r, [op |-> "update", pc |-> "last", me |-> me,
                             server |-> s])
          BY <4>2, <5>2
        <5>3. CASE \E him \in Account \ {me} :
                Admit(r, [op |-> "role", pc |-> "update", me |-> me, him |-> him,
                          server |-> s])
          BY <4>2, <5>3
        <5> QED
          BY <5>1, <5>2, <5>3 DEF AdmitOwner
      <4> QED
        BY <2>5, <4>1, <4>3, <4>4, <4>5
    <3> QED
      BY <1>4, <3>1
  <2> QED
    BY <1>1, <2>1, <2>2, <2>3, <2>4, <2>5
       DEF Create, SubscribeOwner, Invite, SendInvitation, Kick, KickUser,
           LeaveOrList, LeaveServer, ListMembers, Manage, ChangeUserRole,
           UpdateServer, Fail
<1> QED
  BY <1>3, <1>4

LEMMA LeaversStep ==
  ASSUME IInv, LeaversWereIn, [Next]_vars
  PROVE  LeaversWereIn' /\ [Roles!Next]_Seen
<1>1. CASE Next
  <2>1. Roles!Next \/ Seen' = Seen
    BY <1>1, StepIsAMove
  <2>2. DOMAIN servers \subseteq DOMAIN servers'
    <3>1. PICK r \in Request : Create(r) \/ Invite(r) \/ Kick(r)
                               \/ LeaveOrList(r) \/ Manage(r) \/ Fail(r)
      BY <1>1 DEF Next
    <3> QED
      BY <3>1 DEF Create, CreateServer, SubscribeOwner, Invite, GuardVisable,
           GuardInviter, SendInvitation, Kick, WsIsServerAdmin, KickFindUser,
           KickFindAdmin, KickUser, LeaveOrList, WsIsServerMember,
           LeaveFindUser, LeaveServer, ListMembers, Manage, WsIsServerOwner,
           IsServerOwner, AdmitOwner, ChangeUserRole, UpdateServer, Fail,
           Admit, PassIf, KeepTables, KeepServers, Insert, Update
  <2>3. ASSUME NEW q \in Request, reqs'[q].op = "leave", NEW s, NEW a,
               s = reqs'[q].server, a = reqs'[q].me
        PROVE  /\ s \in DOMAIN servers' /\ a \in Account
               /\ RoleOf(s, a)' \notin {"none", "pending"}
    <3>1. /\ s \in DOMAIN servers /\ a \in Account
          /\ RoleOf(s, a) \notin {"none", "pending"}
      BY <1>1, <2>3, LeaverOf DEF LeaversWereIn, Members
    <3>2. s \in 1 .. MaxServers
      BY <3>1, SeenType
    <3> QED
      BY <2>1, <2>2, <3>1, <3>2, InStaysIn
  <2>4. LeaversWereIn'
    BY <2>3 DEF LeaversWereIn
  <2> QED
    BY <2>1, <2>4
<1>2. CASE UNCHANGED vars
  BY <1>2, SeenStays DEF vars, LeaversWereIn, RoleOf, Rows
<1> QED
  BY <1>1, <1>2

(***************************************************************************)
(* Every step of the handlers of ServersGateway and ServerController is a  *)
(* step of the lifecycle of a role, or none: one owner, who stays; nobody  *)
(* appointed before the guards know the owner; nobody leaves straight from *)
(* an invitation; whatever the interleaving and however many rows.         *)
(***************************************************************************)
THEOREM Refinement == Spec => ImplementsRoles
<1>1. Init => Roles!Init /\ LeaversWereIn
  <2> SUFFICES ASSUME Init PROVE Roles!Init /\ LeaversWereIn
    OBVIOUS
  <2>1. \A s, a : RoleOf(s, a) = "none"
    BY DEF Init, RoleOf, Rows, FindOne, NoRows
  <2> QED
    BY <2>1 DEF Init, Roles!Init, LeaversWereIn, Idle
<1>2. IInv /\ LeaversWereIn /\ [Next]_vars
        => LeaversWereIn' /\ [Roles!Next]_Seen
  BY LeaversStep
<1> QED
  BY Invariance, <1>1, <1>2, PTL DEF Spec, ImplementsRoles, Roles!Spec, Seen

(***************************************************************************)
(* What the lifecycle promises of owners holds of the table: the guards    *)
(* never see two owners of a server, so no two accounts can hand out its   *)
(* roles.                                                                  *)
(***************************************************************************)
OneOwner ==
  \A s \in 1 .. MaxServers : \A a, b \in Account :
    RoleOf(s, a) = "owner" /\ RoleOf(s, b) = "owner" => a = b

LEMMA OwnersOfTheLifecycle == Roles!Spec => []OneOwner
<1>1. Roles!Init => OneOwner
  <2> SUFFICES ASSUME Roles!Init PROVE OneOwner
    OBVIOUS
  <2>1. \A s \in 1 .. MaxServers, a \in Account : RoleOf(s, a) = Seen[s][a]
    BY DEF Seen
  <2>2. \A s \in 1 .. MaxServers, a \in Account : Seen[s][a] = "none"
    BY DEF Roles!Init, Seen
  <2> QED
    BY <2>1, <2>2 DEF OneOwner
<1>2. OneOwner /\ [Roles!Next]_Seen => OneOwner'
  <2> SUFFICES ASSUME OneOwner, [Roles!Next]_Seen
               PROVE  OneOwner'
    OBVIOUS
  <2>1. /\ \A s \in 1 .. MaxServers, a \in Account :
             RoleOf(s, a) = Seen[s][a] /\ RoleOf(s, a)' = Seen'[s][a]
        /\ DOMAIN Seen = 1 .. MaxServers
        /\ \A s \in 1 .. MaxServers : DOMAIN Seen[s] = Account
    BY DEF Seen
  <2>2. CASE Seen' = Seen
    BY <2>1, <2>2 DEF OneOwner
  <2>3. CASE Roles!Next
    <3>1. PICK s \in 1 .. MaxServers, a \in Account,
               from \in SUBSET Roles!Role, to \in Roles!Role :
            /\ Roles!Become(s, a, from, to)
            /\ to = "owner" => ~ Roles!Owned(s)
      <4>1. PICK s \in 1 .. MaxServers, a \in Account :
              \/ Roles!Found(s, a) \/ Roles!Invite(s, a) \/ Roles!Appoint(s, a)
              \/ Roles!Remove(s, a) \/ Roles!Leave(s, a)
        BY <2>3 DEF Roles!Next
      <4> QED
        BY <4>1 DEF Roles!Found, Roles!Invite, Roles!Appoint, Roles!Remove,
           Roles!Leave, Roles!Movable, Roles!Role
    <3>2. Seen' = [Seen EXCEPT ![s][a] = to]
      BY <3>1 DEF Roles!Become, Seen
    <3>3. \A t \in 1 .. MaxServers, b \in Account :
            Seen'[t][b] = IF t = s /\ b = a THEN to ELSE Seen[t][b]
      BY <2>1, <3>2
    <3>4. to = "owner" => \A b \in Account : RoleOf(s, b) # "owner"
      BY <3>1 DEF Roles!Owned
    <3> QED
      BY <2>1, <3>3, <3>4 DEF OneOwner
  <2> QED
    BY <2>2, <2>3
<1> QED
  BY <1>1, <1>2, PTL DEF Roles!Spec, Seen

THEOREM OneOwnerPerServer == Spec => []OneOwner
BY Refinement, OwnersOfTheLifecycle, PTL DEF ImplementsRoles
=============================================================================
