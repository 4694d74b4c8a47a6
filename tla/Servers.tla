------------------------------- MODULE Servers ------------------------------
(***************************************************************************)
(* Servers and their subscriptions: ServersGateway with the guards of      *)
(* common/guards, ServerGatewayService, and ServerController, which works  *)
(* on the same tables.  A subscription is a row with a role; no row is     *)
(* ever deleted and nothing keeps an account from having several rows on   *)
(* one server.  Guards and checks look at the FIRST row of an account, the *)
(* updates change ALL of them.                                             *)
(*                                                                         *)
(* The namespace and the chat that the gateway adds to a new server are    *)
(* rows of other tables, which nothing here reads.                         *)
(***************************************************************************)
EXTENDS Repository

CONSTANTS
  Account,           \* the users; an account is never deleted
  Request,           \* the handlers that can be in flight at one time
  MaxServers,        \* bound: server ids the database hands out
  MaxSubscribers     \* bound: subscription ids the database hands out

ASSUME BoundsAssumption ==
  /\ MaxServers \in Nat
  /\ MaxSubscribers \in Nat

VARIABLES
  servers,           \* the table server
  nextServer,        \* its serial
  subscribers,       \* the table subscribers
  nextSubscriber,    \* its serial
  reqs               \* what each handler knows, and where it is suspended

vars == <<servers, nextServer, subscribers, nextSubscriber, reqs>>

SubscriberRole == {"owner", "admin", "member", "pending", "removed", "leave"}

\* The roles an owner can hand out (UserRoleChangeDto).
UserRole == {"admin", "member"}

Members == {"owner", "admin", "member"}

ServerRow == [owner : Account, visable : BOOLEAN]

SubscriberRow ==
  [server : Nat \ {0}, subscriber : Account, role : SubscriberRole]

\* A handler whose guards have passed; pc is the statement it is suspended at.
CreateHandler ==
  [op : {"create"}, pc : {"subscribe"}, me : Account, server : Nat \ {0}]

InviteHandler ==
  [op : {"invite"}, pc : {"role", "insert"},
   me : Account, him : Account, server : Nat \ {0}]

KickHandler ==
  [op : {"kick"}, pc : {"user", "admin", "update"},
   me : Account, him : Account, server : Nat \ {0},
   seen : SubscriberRole \cup {"none"}]

LeaveHandler ==
  [op : {"leave"}, pc : {"check", "update"}, me : Account, server : Nat \ {0}]

RoleHandler ==
  [op : {"role"}, pc : {"update"},
   me : Account, him : Account, server : Nat \ {0}]

\* server:update and server:members:list have one statement left.
OtherHandler ==
  [op : {"update", "list"}, pc : {"last"}, me : Account, server : Nat \ {0}]

Handler ==
  CreateHandler \cup InviteHandler \cup KickHandler \cup LeaveHandler
    \cup RoleHandler \cup OtherHandler

Idle == [op |-> "idle", pc |-> "idle"]

TypeOK ==
  /\ nextServer \in 1 .. (MaxServers + 1)
  /\ servers \in [1 .. (nextServer - 1) -> ServerRow]
  /\ nextSubscriber \in 1 .. (MaxSubscribers + 1)
  /\ subscribers \in [1 .. (nextSubscriber - 1) -> SubscriberRow]
  /\ reqs \in [Request -> Handler \cup {Idle}]

\* where: { server, subscriber }
Rows(table, server, subscriber) ==
  {i \in DOMAIN table :
     table[i].server = server /\ table[i].subscriber = subscriber}

\* The role findOne answers, or "none" without a row.
RoleOf(server, account) ==
  LET found == FindOne(Rows(subscribers, server, account)) IN
  IF found = Null THEN "none" ELSE subscribers[found].role
-----------------------------------------------------------------------------
Init ==
  /\ servers = NoRows
  /\ nextServer = 1
  /\ subscribers = NoRows
  /\ nextSubscriber = 1
  /\ reqs = [r \in Request |-> Idle]

KeepTables == UNCHANGED <<servers, nextServer, subscribers, nextSubscriber>>

KeepServers == UNCHANGED <<servers, nextServer>>

Finish(r) == reqs' = [reqs EXCEPT ![r] = Idle]

Goto(r, label) == reqs' = [reqs EXCEPT ![r].pc = label]

At(r, op, label) == reqs[r].op = op /\ reqs[r].pc = label

\* A check lets the handler go on to label, or throws.
PassIf(r, allowed, label) ==
  (IF allowed THEN Goto(r, label) ELSE Finish(r)) /\ KeepTables

\* INSERT of a subscription.
Subscribe(server, subscriber, role) ==
  /\ nextSubscriber <= MaxSubscribers
  /\ subscribers' = Insert(subscribers, nextSubscriber,
       [server |-> server, subscriber |-> subscriber, role |-> role])
  /\ nextSubscriber' = nextSubscriber + 1

\* UPDATE of the role in all subscriptions of an account on a server.
SetRole(server, subscriber, role) ==
  /\ subscribers' = Update(subscribers, Rows(subscribers, server, subscriber),
                           "role", role)
  /\ UNCHANGED nextSubscriber

\* A guard passes an event of a logged-in user and the handler starts: arriving
\* changes nothing, and an event that a guard refuses leaves no trace.  The id
\* of the server is that of a row: the validator refuses any other, and no
\* server is ever deleted.
Admit(r, handler) ==
  /\ reqs[r] = Idle
  /\ reqs' = [reqs EXCEPT ![r] = handler]
  /\ KeepTables

(***************************************************************************)
(* create:new:server and POST /server: two statements, no transaction.     *)
(***************************************************************************)
CreateServer(r) ==
  /\ reqs[r] = Idle
  /\ nextServer <= MaxServers
  /\ \E me \in Account, visable \in BOOLEAN :
       /\ servers' = Insert(servers, nextServer,
                            [owner |-> me, visable |-> visable])
       /\ reqs' = [reqs EXCEPT ![r] = [op |-> "create", pc |-> "subscribe",
                                       me |-> me, server |-> nextServer]]
  /\ nextServer' = nextServer + 1
  /\ UNCHANGED <<subscribers, nextSubscriber>>

SubscribeOwner(r) ==
  /\ At(r, "create", "subscribe")
  /\ Subscribe(reqs[r].server, reqs[r].me, "owner")
  /\ Finish(r)
  /\ KeepServers

(***************************************************************************)
(* server:users:invite.                                                    *)
(***************************************************************************)
\* IsAllowedToInviteGuard: anybody on a visible server, otherwise whoever has a
\* subscription that is not a plain member's.
GuardVisable(r) ==
  \E me, him \in Account, s \in DOMAIN servers :
    Admit(r, [op |-> "invite",
              pc |-> IF servers[s].visable THEN "insert" ELSE "role",
              me |-> me, him |-> him, server |-> s])

GuardInviter(r) ==
  /\ At(r, "invite", "role")
  /\ PassIf(r, RoleOf(reqs[r].server, reqs[r].me) \notin {"none", "member"},
            "insert")

\* Slip: the serial is not advanced.
InviteWithSameId(r) ==
  /\ At(r, "invite", "insert")
  /\ nextSubscriber <= MaxSubscribers
  /\ subscribers' = Insert(subscribers, nextSubscriber,
       [server |-> reqs[r].server, subscriber |-> reqs[r].him,
        role |-> "pending"])
  /\ Finish(r)
  /\ UNCHANGED <<servers, nextServer, nextSubscriber>>

\* sendInvitationToUser: whatever subscription the receiver has, a new one.  The
\* lookup of the server before it only serves the event.
SendInvitation(r) ==
  /\ At(r, "invite", "insert")
  /\ Subscribe(reqs[r].server, reqs[r].him, "pending")
  /\ Finish(r)
  /\ KeepServers

(***************************************************************************)
(* server:users:kick.                                                      *)
(***************************************************************************)
\* WsIsServerAdminGuard refuses a plain member only; the handler refuses to kick
\* oneself before it looks anything up.
WsIsServerAdmin(r) ==
  \E me, him \in Account, s \in DOMAIN servers :
    /\ RoleOf(s, me) # "member"
    /\ me # him
    /\ Admit(r, [op |-> "kick", pc |-> "user", me |-> me, him |-> him,
                 server |-> s, seen |-> "none"])

\* kickUser reads both subscriptions, the user's first, and then decides.
KickFindUser(r) ==
  /\ At(r, "kick", "user")
  /\ reqs' = [reqs EXCEPT ![r].pc = "admin",
                         ![r].seen = RoleOf(reqs[r].server, reqs[r].him)]
  /\ KeepTables

\* Slip: the caller may be any admin.
KickByAdmin(r) ==
  /\ At(r, "kick", "admin")
  /\ PassIf(r,
       /\ reqs[r].seen \notin {"none", "owner"}
       /\ reqs[r].seen = "admin" =>
            RoleOf(reqs[r].server, reqs[r].me) \in {"owner", "admin"},
       "update")

\* Slip: the owner is not spared.
KickAnyone(r) ==
  /\ At(r, "kick", "admin")
  /\ PassIf(r, reqs[r].seen # "none", "update")

KickFindAdmin(r) ==
  /\ At(r, "kick", "admin")
  /\ PassIf(r,
       /\ reqs[r].seen \notin {"none", "owner"}
       /\ reqs[r].seen = "admin" =>
            RoleOf(reqs[r].server, reqs[r].me) = "owner",
       "update")

KickUser(r) ==
  /\ At(r, "kick", "update")
  /\ SetRole(reqs[r].server, reqs[r].him, "removed")
  /\ Finish(r)
  /\ KeepServers

(***************************************************************************)
(* server:users:leave and server:members:list, behind the same guard.      *)
(***************************************************************************)
\* Slip: an invitation is enough.
InvitedToo(r) ==
  \E me \in Account, s \in DOMAIN servers :
    /\ RoleOf(s, me) \in Members \cup {"pending"}
    /\ \/ Admit(r, [op |-> "leave", pc |-> "check", me |-> me, server |-> s])
       \/ Admit(r, [op |-> "list", pc |-> "last", me |-> me, server |-> s])

WsIsServerMember(r) ==
  \E me \in Account, s \in DOMAIN servers :
    /\ RoleOf(s, me) \in Members
    /\ \/ Admit(r, [op |-> "leave", pc |-> "check", me |-> me, server |-> s])
       \/ Admit(r, [op |-> "list", pc |-> "last", me |-> me, server |-> s])

\* Slip: the owner may leave.
LeaveUnchecked(r) ==
  /\ At(r, "leave", "check")
  /\ PassIf(r, TRUE, "update")

LeaveFindUser(r) ==
  /\ At(r, "leave", "check")
  /\ PassIf(r, RoleOf(reqs[r].server, reqs[r].me) # "owner", "update")

LeaveServer(r) ==
  /\ At(r, "leave", "update")
  /\ SetRole(reqs[r].server, reqs[r].me, "leave")
  /\ Finish(r)
  /\ KeepServers

\* The subscriptions findServerMembers answers.
MembersOf(server) ==
  {i \in DOMAIN subscribers :
     subscribers[i].server = server /\ subscribers[i].role \in Members}

\* The event names the server of the first member: members[0].server.name.
ListMembers(r) ==
  /\ At(r, "list", "last")
  /\ Finish(r)
  /\ KeepTables

(***************************************************************************)
(* server:users:role:change, server:update and PATCH /server.              *)
(***************************************************************************)
\* What the guard of the owner admits: a role change, not of one's own role, and
\* an update of the server.
AdmitOwner(r, me, s) ==
  \/ \E him \in Account \ {me} :
       Admit(r, [op |-> "role", pc |-> "update", me |-> me, him |-> him,
                 server |-> s])
  \/ Admit(r, [op |-> "update", pc |-> "last", me |-> me, server |-> s])

\* Slip: the guard of the admins in place of the owner's.
AdminsToo(r) ==
  \E me \in Account, s \in DOMAIN servers :
    RoleOf(s, me) \in {"owner", "admin"} /\ AdmitOwner(r, me, s)

WsIsServerOwner(r) ==
  \E me \in Account, s \in DOMAIN servers :
    RoleOf(s, me) = "owner" /\ AdmitOwner(r, me, s)

\* The guard of the route asks the row of the server.
IsServerOwner(r) ==
  \E me \in Account, s \in DOMAIN servers :
    /\ servers[s].owner = me
    /\ Admit(r, [op |-> "update", pc |-> "last", me |-> me, server |-> s])

\* Without a row to change findOneAndUpdate throws, and nothing changes.
ChangeUserRole(r) ==
  /\ At(r, "role", "update")
  /\ \E role \in UserRole : SetRole(reqs[r].server, reqs[r].him, role)
  /\ Finish(r)
  /\ KeepServers

UpdateServer(r) ==
  /\ At(r, "update", "last")
  /\ \E visable \in BOOLEAN :
       servers' = Update(servers, {reqs[r].server}, "visable", visable)
  /\ Finish(r)
  /\ UNCHANGED <<nextServer, subscribers, nextSubscriber>>

\* A statement fails, and with it the handler.
Fail(r) ==
  /\ reqs[r] # Idle
  /\ Finish(r)
  /\ KeepTables
-----------------------------------------------------------------------------
Create(r) == CreateServer(r) \/ SubscribeOwner(r)

Invite(r) == GuardVisable(r) \/ GuardInviter(r) \/ SendInvitation(r)

Kick(r) ==
  WsIsServerAdmin(r) \/ KickFindUser(r) \/ KickFindAdmin(r) \/ KickUser(r)

LeaveOrList(r) ==
  WsIsServerMember(r) \/ LeaveFindUser(r) \/ LeaveServer(r) \/ ListMembers(r)

Manage(r) ==
  \/ WsIsServerOwner(r) \/ IsServerOwner(r)
  \/ ChangeUserRole(r) \/ UpdateServer(r)

Next ==
  \E r \in Request :
    Create(r) \/ Invite(r) \/ Kick(r) \/ LeaveOrList(r) \/ Manage(r) \/ Fail(r)

Spec == Init /\ [][Next]_vars
-----------------------------------------------------------------------------
(***************************************************************************)
(* Once the guards recognise the owner of a server, they do for ever: no   *)
(* kick, leave or role change takes the role away from the owner's first   *)
(* subscription, whatever it had read before that one was there.           *)
(***************************************************************************)
OwnerKept ==
  \A s \in DOMAIN servers :
    LET first == FindOne(Rows(subscribers, s, servers[s].owner)) IN
    RoleOf(s, servers[s].owner) = "owner" => subscribers'[first].role = "owner"

OwnerStays == [][OwnerKept]_vars

(***************************************************************************)
(* The list of members is never empty when its query runs, even if whoever *)
(* asked was kicked after the guard: handleServerMembersList takes the     *)
(* name of the server from the first entry without a check.                *)
(***************************************************************************)
MembersListNeverEmpty ==
  \A r \in Request : At(r, "list", "last") => MembersOf(reqs[r].server) # {}

(***************************************************************************)
(* A subscription becomes that of an admin or a member only by a role      *)
(* change that the one who owns the server sent; no interleaving of        *)
(* invitations, kicks and stale guards makes it so otherwise.              *)
(***************************************************************************)
Appointed ==
  \A i \in DOMAIN subscribers' :
    LET now == subscribers'[i] IN
    \/ now.role \notin UserRole
    \/ i \in DOMAIN subscribers /\ subscribers[i] = now
    \/ \E r \in Request :
         /\ At(r, "role", "update") /\ reqs'[r] = Idle
         /\ reqs[r].server = now.server /\ reqs[r].him = now.subscriber
         /\ reqs[r].me = servers[now.server].owner

AppointedByOwner == [][Appointed]_vars

(***************************************************************************)
(* Who is about to kick an account it had seen as an admin owns the server *)
(* ("you can't kick the server admin, you are not the server owner",       *)
(* server.gateway.service.ts:113): only a promotion after the read of the  *)
(* first subscription lets somebody else kick an admin.                    *)
(***************************************************************************)
AdminsKickedByOwner ==
  \A r \in Request :
    At(r, "kick", "update") /\ reqs[r].seen = "admin" =>
      reqs[r].me = servers[reqs[r].server].owner
(***************************************************************************)
(* The subscriptions implement the lifecycle of a role: what the guards    *)
(* see of an account, the role in the first of its rows, moves as          *)
(* RoleLifecycle says, although the updates change all of the rows and     *)
(* rest on lookups that may be stale.                                      *)
(***************************************************************************)
Roles == INSTANCE RoleLifecycle
  WITH Server <- 1 .. MaxServers,
       role <- [s \in 1 .. MaxServers |-> [a \in Account |-> RoleOf(s, a)]]

ImplementsRoles == Roles!Spec
=============================================================================
