----------------------------- MODULE Namespaces -----------------------------
(***************************************************************************)
(* Namespaces and their chats: the four inserts of create:new:server,      *)
(* NamespacesGateway, NamespacesController and create:server:chat.  One    *)
(* step per database statement; handlers interleave, none opens a          *)
(* transaction.  Whom the guards admit depends on the subscriptions alone  *)
(* (module Servers), so here anybody may ask for anything.                 *)
(***************************************************************************)
EXTENDS Repository

CONSTANTS
  Request,          \* the handlers that can be in flight at one time
  Name,             \* names of namespaces
  General,          \* "general", the name of the first one
  MaxServers,       \* bounds: ids the database hands out
  MaxNamespaces, MaxChats

ASSUME NamespacesAssumption ==
  /\ General \in Name
  /\ {MaxServers, MaxNamespaces, MaxChats} \subseteq Nat

VARIABLES
  servers,          \* the table server: has the owner's row been inserted?
  nextServer,
  namespaces, nextNamespace,
  chats, nextChat,
  reqs,             \* where each handler is suspended, and what it knows
  told,             \* what a client was told in the last step, if anything
  held, ever,       \* history: rows there all along, or at some moment,
                    \* since a listing arrived
  excused           \* history: the servers that may lack a chat

tables == <<servers, nextServer, namespaces, nextNamespace, chats, nextChat>>

vars == <<tables, reqs, told, held, ever, excused>>

NamespaceRow == [server : Nat \ {0}, name : Name]

\* What a listing says of a namespace, its name left out, or of a chat.
NamespaceFact == [id : Nat, server : Nat]

ChatFact == [id : Nat, namespace : Nat]

CreateHandler ==
  [op : {"create"}, pc : {"owner", "namespace", "chat"},
   server : Nat \ {0}, namespace : Nat, via : {"ws", "http"}]

\* overtaken is history: another update of the row came after this one.
UpdateHandler ==
  [op : {"update"}, pc : {"read"}, namespace : Nat, name : Name,
   overtaken : BOOLEAN]

\* wanted: the namespaces whose chats are still to be loaded.
ListHandler ==
  [op : {"list"}, pc : {"find", "load"}, server : Nat \ {0}, wanted : SUBSET Nat,
   listed : SUBSET NamespaceFact, chats : SUBSET ChatFact]

Idle == [op |-> "idle", pc |-> "idle"]

Handler == CreateHandler \cup UpdateHandler \cup ListHandler

TypeOK ==
  /\ nextServer \in 1 .. (MaxServers + 1)
  /\ servers \in [1 .. (nextServer - 1) -> BOOLEAN]
  /\ nextNamespace \in 1 .. (MaxNamespaces + 1)
  /\ namespaces \in [DOMAIN namespaces -> NamespaceRow]
  /\ \A n \in DOMAIN namespaces : namespaces[n].server \in DOMAIN servers
  /\ DOMAIN namespaces \subseteq 1 .. (nextNamespace - 1)
  /\ nextChat \in 1 .. (MaxChats + 1)
  /\ chats \in [DOMAIN chats -> DOMAIN namespaces]
  /\ DOMAIN chats \subseteq 1 .. (nextChat - 1)
  /\ reqs \in [Request -> Handler \cup {Idle}]

NamespaceFacts ==
  {[id |-> n, server |-> namespaces[n].server] : n \in DOMAIN namespaces}

ChatFacts == {[id |-> c, namespace |-> chats[c]] : c \in DOMAIN chats}
-----------------------------------------------------------------------------
Init ==
  /\ servers = NoRows /\ nextServer = 1
  /\ namespaces = NoRows /\ nextNamespace = 1
  /\ chats = NoRows /\ nextChat = 1
  /\ reqs = [r \in Request |-> Idle]
  /\ told = {}
  /\ held = [r \in Request |-> {}]
  /\ ever = [r \in Request |-> {}]
  /\ excused = {}

KeepServers == UNCHANGED <<servers, nextServer>>

KeepNamespaces == UNCHANGED <<namespaces, nextNamespace>>

KeepChats == UNCHANGED <<chats, nextChat>>

At(r, op, label) == reqs[r].op = op /\ reqs[r].pc = label

Finish(r) == reqs' = [reqs EXCEPT ![r] = Idle]

Silent == told' = {} /\ UNCHANGED excused

InsertNamespace(server, name) ==
  /\ nextNamespace <= MaxNamespaces
  /\ namespaces' = Insert(namespaces, nextNamespace,
                          [server |-> server, name |-> name])
  /\ nextNamespace' = nextNamespace + 1

InsertChat(namespace) ==
  /\ nextChat <= MaxChats
  /\ chats' = Insert(chats, nextChat, namespace)
  /\ nextChat' = nextChat + 1

(***************************************************************************)
(* create:new:server, and POST /server, which stops after the owner's row. *)
(***************************************************************************)
CreateServer(r) ==
  /\ reqs[r] = Idle
  /\ nextServer <= MaxServers
  /\ servers' = Insert(servers, nextServer, FALSE)
  /\ nextServer' = nextServer + 1
  /\ \E via \in {"ws", "http"} :
       reqs' = [reqs EXCEPT ![r] =
         [op |-> "create", pc |-> "owner", server |-> nextServer,
          namespace |-> Null, via |-> via]]
  /\ KeepNamespaces /\ KeepChats /\ Silent

SubscribeOwner(r) ==
  /\ At(r, "create", "owner")
  /\ servers' = [servers EXCEPT ![reqs[r].server] = TRUE]
  /\ IF reqs[r].via = "ws"
     THEN reqs' = [reqs EXCEPT ![r].pc = "namespace"] /\ UNCHANGED excused
     ELSE Finish(r) /\ excused' = excused \cup {reqs[r].server}
  /\ told' = {}
  /\ UNCHANGED nextServer /\ KeepNamespaces /\ KeepChats

CreateGeneral(r) ==
  /\ At(r, "create", "namespace")
  /\ InsertNamespace(reqs[r].server, General)
  /\ reqs' = [reqs EXCEPT ![r].pc = "chat", ![r].namespace = nextNamespace]
  /\ KeepServers /\ KeepChats /\ Silent

\* Slip: the chat gets the id of the server.
ChatOfServerId(r) ==
  /\ At(r, "create", "chat")
  /\ reqs[r].server \in DOMAIN namespaces
  /\ InsertChat(reqs[r].server)
  /\ told' = {[kind |-> "created", server |-> reqs[r].server,
               namespace |-> reqs[r].namespace, chat |-> nextChat]}
  /\ Finish(r)
  /\ UNCHANGED excused /\ KeepServers /\ KeepNamespaces

\* createServerChat, and the event server:created.
CreateGeneralChat(r) ==
  /\ At(r, "create", "chat")
  /\ reqs[r].namespace \in DOMAIN namespaces
  /\ InsertChat(reqs[r].namespace)
  /\ told' = {[kind |-> "created", server |-> reqs[r].server,
               namespace |-> reqs[r].namespace, chat |-> nextChat]}
  /\ Finish(r)
  /\ UNCHANGED excused /\ KeepServers /\ KeepNamespaces

\* The general namespace was deleted before its chat came: the INSERT violates
\* the foreign key.
NamespaceGone(r) ==
  /\ At(r, "create", "chat")
  /\ reqs[r].namespace \notin DOMAIN namespaces
  /\ Finish(r)
  /\ Silent /\ UNCHANGED tables

(***************************************************************************)
(* The events behind WsIsServerAdminGuard, and POST namespaces/:id.  Three *)
(* have one statement left when guards and validators have passed, so they *)
(* are that statement.  A server is never deleted, and the one the         *)
(* validator found is there; the namespace is any number.                  *)
(***************************************************************************)
CreateNamespace ==
  /\ \E s \in DOMAIN servers, name \in Name : InsertNamespace(s, name)
  /\ UNCHANGED reqs /\ KeepServers /\ KeepChats /\ Silent

\* Slip: the chats of a deleted namespace stay.
DeleteAlone ==
  \E s \in DOMAIN servers, n \in 1 .. MaxNamespaces :
    LET ids == {i \in DOMAIN namespaces : i = n /\ namespaces[i].server = s} IN
    /\ namespaces' = Delete(namespaces, ids)
    /\ told' = {[kind |-> "deleted", server |-> s, id |-> n]}
    /\ excused' = excused \cup {namespaces[i].server : i \in ids}
    /\ UNCHANGED <<reqs, nextNamespace>> /\ KeepServers /\ KeepChats

\* findOneAndDelete by id and server; the foreign key of the chats is ON DELETE
\* CASCADE.  The event goes out whether a row matched or not.
DeleteNamespace ==
  \E s \in DOMAIN servers, n \in 1 .. MaxNamespaces :
    LET ids == {i \in DOMAIN namespaces : i = n /\ namespaces[i].server = s} IN
    /\ namespaces' = Delete(namespaces, ids)
    /\ chats' = Delete(chats, {c \in DOMAIN chats : chats[c] \in ids})
    /\ told' = {[kind |-> "deleted", server |-> s, id |-> n]}
    /\ excused' = excused \cup {namespaces[i].server : i \in ids}
    /\ UNCHANGED <<reqs, nextNamespace, nextChat>> /\ KeepServers

\* create:server:chat: the chat goes where the payload says, whatever server the
\* guard was asked about.  The insert into a namespace that is not there
\* violates the foreign key and changes nothing.
CreateChat ==
  /\ \E n \in DOMAIN namespaces : InsertChat(n)
  /\ UNCHANGED reqs /\ KeepServers /\ KeepNamespaces /\ Silent

\* Handlers that have updated the same row and not yet read it back.
Overtake(namespace) ==
  [q \in Request |->
     IF At(q, "update", "read") /\ reqs[q].namespace = namespace
     THEN [reqs[q] EXCEPT !.overtaken = TRUE]
     ELSE reqs[q]]

UpdateAndRead(r, namespace, name) ==
  reqs' = [Overtake(namespace) EXCEPT ![r] =
    [op |-> "update", pc |-> "read", namespace |-> namespace, name |-> name,
     overtaken |-> FALSE]]

\* Slip: the row is found by its server.
UpdateOfServer(r) ==
  /\ reqs[r] = Idle
  /\ \E s \in DOMAIN servers, n \in DOMAIN namespaces, name \in Name :
       /\ namespaces' = Update(namespaces,
            {i \in DOMAIN namespaces : namespaces[i].server = s}, "name", name)
       /\ UpdateAndRead(r, n, name)
  /\ KeepServers /\ KeepChats /\ Silent /\ UNCHANGED nextNamespace

\* findOneAndUpdate by id, whatever server the guard was asked about.  Without a
\* row it throws, and nothing has changed.
UpdateNamespace(r) ==
  /\ reqs[r] = Idle
  /\ \E n \in DOMAIN namespaces, name \in Name :
       /\ namespaces' = Update(namespaces, {n}, "name", name)
       /\ UpdateAndRead(r, n, name)
  /\ KeepServers /\ KeepChats /\ Silent /\ UNCHANGED nextNamespace

\* The row is read back for the event; if it is gone, the handler throws.
ReadBack(r) ==
  LET q == reqs[r]
      found == FindOne({q.namespace} \cap DOMAIN namespaces) IN
  /\ At(r, "update", "read")
  /\ told' = IF found = Null THEN {}
             ELSE {[kind |-> "updated", id |-> found,
                    name |-> namespaces[found].name, asked |-> q.name,
                    overtaken |-> q.overtaken]}
  /\ Finish(r)
  /\ UNCHANGED <<tables, excused>>

(***************************************************************************)
(* get:server:namespaces, and GET namespaces/:server_id without the chats. *)
(***************************************************************************)
StartList(r) ==
  /\ reqs[r] = Idle
  /\ \E s \in DOMAIN servers :
       reqs' = [reqs EXCEPT ![r] =
         [op |-> "list", pc |-> "find", server |-> s, wanted |-> {},
          listed |-> {}, chats |-> {}]]
  /\ Silent /\ UNCHANGED tables

FindNamespaces(r) ==
  LET found == {f \in NamespaceFacts : f.server = reqs[r].server} IN
  /\ At(r, "list", "find")
  /\ reqs' = [reqs EXCEPT ![r].pc = "load", ![r].listed = found,
                          ![r].wanted = {f.id : f \in found}]
  /\ Silent /\ UNCHANGED tables

\* Slip: only the chats of the first namespace are awaited.
LoadFirst(r) ==
  /\ At(r, "list", "load")
  /\ reqs[r].wanted # {}
  /\ reqs' = [reqs EXCEPT ![r].wanted = {},
                ![r].chats = {f \in ChatFacts :
                                f.namespace = Lowest(reqs[r].wanted)}]
  /\ Silent /\ UNCHANGED tables

\* namespace.chats is a query of its own for each namespace; they run at once
\* and are answered in any order.
LoadChats(r) ==
  /\ At(r, "list", "load")
  /\ \E n \in reqs[r].wanted :
       reqs' = [reqs EXCEPT ![r].wanted = @ \ {n},
                  ![r].chats = @ \cup {f \in ChatFacts : f.namespace = n}]
  /\ Silent /\ UNCHANGED tables

EmitList(r) ==
  LET q == reqs[r] IN
  /\ At(r, "list", "load")
  /\ q.wanted = {}
  /\ told' = {[kind |-> "list", server |-> q.server, listed |-> q.listed,
               chats |-> q.chats, held |-> held[r], ever |-> ever[r]]}
  /\ Finish(r)
  /\ UNCHANGED <<tables, excused>>

\* A statement fails, and with it the handler: what it has inserted stays.
Fail(r) ==
  /\ reqs[r] # Idle
  /\ excused' = IF reqs[r].op = "create" THEN excused \cup {reqs[r].server}
                ELSE excused
  /\ told' = {}
  /\ Finish(r)
  /\ UNCHANGED tables
-----------------------------------------------------------------------------
Create(r) ==
  \/ CreateServer(r) \/ SubscribeOwner(r) \/ CreateGeneral(r)
  \/ CreateGeneralChat(r) \/ NamespaceGone(r)

Administer == CreateNamespace \/ DeleteNamespace \/ CreateChat

List(r) == StartList(r) \/ FindNamespaces(r) \/ LoadChats(r) \/ EmitList(r)

\* The histories of the listings in flight.
Remember ==
  LET facts == NamespaceFacts \cup ChatFacts IN
  /\ held' = [r \in Request |->
       IF reqs'[r].op # "list" THEN {}
       ELSE IF reqs[r].op # "list" THEN facts' ELSE held[r] \cap facts']
  /\ ever' = [r \in Request |->
       IF reqs'[r].op # "list" THEN {}
       ELSE IF reqs[r].op # "list" THEN facts' ELSE ever[r] \cup facts']

Next ==
  /\ \/ Administer
     \/ \E r \in Request :
          Create(r) \/ UpdateNamespace(r) \/ ReadBack(r) \/ List(r) \/ Fail(r)
  /\ Remember

Spec == Init /\ [][Next]_vars
-----------------------------------------------------------------------------
(***************************************************************************)
(* The four inserts of create:new:server are all or excused: a server has  *)
(* a chat unless its creation is still running or a statement of it failed,*)
(* the owner deleted a namespace, or it was created over HTTP.  And what   *)
(* server:created announces is there and belongs together.                 *)
(***************************************************************************)
BareServersAreExcused ==
  /\ \A s \in DOMAIN servers :
       \/ s \in excused
       \/ \E r \in Request : reqs[r].op = "create" /\ reqs[r].server = s
       \/ servers[s] /\ \E c \in DOMAIN chats : namespaces[chats[c]].server = s
  /\ \A e \in told : e.kind = "created" =>
       /\ servers[e.server]
       /\ chats[e.chat] = e.namespace
       /\ namespaces[e.namespace].server = e.server

(***************************************************************************)
(* A listing made of several queries shows every chat that was there all   *)
(* along, under its namespace, every namespace that was, and nothing that  *)
(* was at no moment there.                                                 *)
(***************************************************************************)
ListsShowWhatLasted ==
  \A e \in told : e.kind = "list" =>
    /\ e.listed \cup e.chats \subseteq e.ever
    /\ \A f \in e.held \cap NamespaceFacts :
         f.server = e.server => f \in e.listed
    /\ \A f \in e.held \cap ChatFacts :
         namespaces[f.namespace].server = e.server =>
           f \in e.chats /\ \E g \in e.listed : g.id = f.namespace

(***************************************************************************)
(* What deleted:namespace reports is not on that server any more, and what *)
(* updated:namespace reports is what was asked for unless another update   *)
(* of the same namespace came in between.                                  *)
(***************************************************************************)
AnswersAreTrue ==
  \A e \in told :
    /\ e.kind = "deleted" =>
         ~ (e.id \in DOMAIN namespaces /\ namespaces[e.id].server = e.server)
    /\ e.kind = "updated" => e.name = e.asked \/ e.overtaken
=============================================================================
