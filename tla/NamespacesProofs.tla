-------------------------- MODULE NamespacesProofs --------------------------
(***************************************************************************)
(* Namespaces and chats, for any number of handlers, servers and rows:     *)
(* what each suspended handler may still believe about tables that change  *)
(* under it, and what clients are therefore told.                          *)
(***************************************************************************)
EXTENDS Namespaces, TLAPS

Facts == NamespaceFacts \cup ChatFacts

\* The server of a creation is there; its general namespace is as well, or it
\* was deleted and the server is excused.
CreatorFits(r) ==
  LET q == reqs[r] IN
  q.op = "create" =>
    /\ q.server \in DOMAIN servers
    /\ q.pc \in {"namespace", "chat"} => q.via = "ws" /\ servers[q.server]
    /\ q.pc = "chat" =>
         /\ q.namespace < nextNamespace
         /\ IF q.namespace \in DOMAIN namespaces
            THEN namespaces[q.namespace].server = q.server
            ELSE q.server \in excused

\* A row that was renamed has the new name until somebody renames it again.
UpdaterFits(r) ==
  LET q == reqs[r] IN
  q.op = "update" =>
    /\ q.namespace < nextNamespace
    /\ q.namespace \in DOMAIN namespaces =>
         namespaces[q.namespace].name = q.name \/ q.overtaken

\* What lasted is so, what is so was once, and a chat lasted in a namespace that
\* lasted.
HistoryFits(r) ==
  reqs[r].op = "list" =>
    /\ held[r] \subseteq Facts
    /\ Facts \subseteq ever[r]
    /\ \A f \in held[r] \cap ChatFacts :
         [id |-> f.namespace, server |-> namespaces[f.namespace].server]
           \in held[r]

\* The queries answered so far have found what lasted.
ListerFits(r) ==
  LET q == reqs[r] IN
  q.op = "list" =>
    /\ q.listed \cup q.chats \subseteq ever[r]
    /\ q.pc = "load" =>
         /\ \A f \in held[r] \cap NamespaceFacts :
              f.server = q.server => f \in q.listed
         /\ \A f \in held[r] \cap ChatFacts :
              namespaces[f.namespace].server = q.server =>
                f \in q.chats \/ f.namespace \in q.wanted

HandlerFits(r) ==
  CreatorFits(r) /\ UpdaterFits(r) /\ HistoryFits(r) /\ ListerFits(r)

IInv ==
  /\ TypeOK
  /\ \A r \in Request : HandlerFits(r)
  /\ BareServersAreExcused
  /\ ListsShowWhatLasted
  /\ AnswersAreTrue

LEMMA InitIInv == Init => IInv
<1> SUFFICES ASSUME Init
             PROVE  IInv
  OBVIOUS
<1>1. TypeOK
  BY NamespacesAssumption DEF Init, TypeOK, NoRows, Idle
<1>2. ASSUME NEW r \in Request PROVE HandlerFits(r)
  BY DEF Init, HandlerFits, CreatorFits, UpdaterFits, HistoryFits, ListerFits,
     Idle
<1>3. BareServersAreExcused /\ ListsShowWhatLasted /\ AnswersAreTrue
  BY DEF Init, NoRows, BareServersAreExcused, ListsShowWhatLasted,
     AnswersAreTrue
<1> QED
  BY <1>1, <1>2, <1>3 DEF IInv

\* The kinds of a handler.
LEMMA HandlerKinds ==
  ASSUME TypeOK, NEW r \in Request
  PROVE  /\ reqs[r].op = "create" => reqs[r] \in CreateHandler
         /\ reqs[r].op = "update" => reqs[r] \in UpdateHandler
         /\ reqs[r].op = "list" => reqs[r] \in ListHandler
         /\ reqs[r] = Idle => reqs[r].op = "idle"
  BY DEF TypeOK, Handler, CreateHandler, UpdateHandler, ListHandler, Idle

\* No namespace is a chat.
LEMMA FactsDiffer ==
  /\ \A f \in NamespaceFacts : f \notin ChatFacts
  /\ \A f \in NamespaceFacts' : f \notin ChatFacts'
  /\ \A f \in NamespaceFacts : f \notin ChatFacts'
  /\ \A f \in NamespaceFacts' : f \notin ChatFacts
<1>1. \A i, s, j, n : [id |-> i, server |-> s] # [id |-> j, namespace |-> n]
  <2> SUFFICES ASSUME NEW i, NEW s, NEW j, NEW n,
                      [id |-> i, server |-> s] = [id |-> j, namespace |-> n]
               PROVE  FALSE
    OBVIOUS
  <2>1. DOMAIN [id |-> i, server |-> s] = {"id", "server"}
    OBVIOUS
  <2>2. DOMAIN [id |-> j, namespace |-> n] = {"id", "namespace"}
    OBVIOUS
  <2>3. "server" \in {"id", "server"} /\ "server" \notin {"id", "namespace"}
    OBVIOUS
  <2> QED
    BY <2>1, <2>2, <2>3
<1> QED
  BY <1>1 DEF NamespaceFacts, ChatFacts

-----------------------------------------------------------------------------
(***************************************************************************)
(* What a step may do to the tables: rows keep their server or their       *)
(* namespace, ids are not used again, and a namespace or a chat that goes  *)
(* excuses its server.                                                     *)
(***************************************************************************)
Evolves ==
  /\ DOMAIN servers \subseteq DOMAIN servers'
  /\ \A s \in DOMAIN servers : servers[s] => servers'[s]
  /\ excused \subseteq excused'
  /\ nextNamespace <= nextNamespace'
  /\ \A n \in DOMAIN namespaces' :
       IF n \in DOMAIN namespaces
       THEN namespaces'[n].server = namespaces[n].server
       ELSE nextNamespace <= n
  /\ \A n \in DOMAIN namespaces :
       n \in DOMAIN namespaces' \/ namespaces[n].server \in excused'
  /\ \A c \in DOMAIN chats' :
       c \in DOMAIN chats => chats'[c] = chats[c]
  /\ \A c \in DOMAIN chats :
       c \in DOMAIN chats' \/ namespaces[chats[c]].server \in excused'

\* The names of the namespaces that stay.
NamesStay ==
  \A n \in DOMAIN namespaces \cap DOMAIN namespaces' :
    namespaces'[n].name = namespaces[n].name

LEMMA TablesStay ==
  ASSUME TypeOK, UNCHANGED tables, excused \subseteq excused'
  PROVE  /\ Evolves /\ NamesStay
         /\ NamespaceFacts' = NamespaceFacts /\ ChatFacts' = ChatFacts
  BY NamespacesAssumption
     DEF TypeOK, tables, Evolves, NamesStay, NamespaceFacts, ChatFacts

\* The histories of a listing follow the tables.
LEMMA HistoryStep ==
  ASSUME TypeOK, TypeOK', Evolves, Remember, NEW r \in Request,
         reqs'[r].op = "list", HistoryFits(r)
  PROVE  /\ HistoryFits(r)'
         /\ reqs[r].op = "list" =>
              held'[r] \subseteq held[r] /\ ever[r] \subseteq ever'[r]
<1>1. CASE reqs[r].op # "list"
  <2>1. held'[r] = Facts' /\ ever'[r] = Facts'
    BY <1>1 DEF Remember, Facts
  <2>2. ASSUME NEW f \in ChatFacts'
        PROVE  [id |-> f.namespace, server |-> namespaces'[f.namespace].server]
                 \in NamespaceFacts'
    <3>1. PICK c \in DOMAIN chats' : f = [id |-> c, namespace |-> chats'[c]]
      BY DEF ChatFacts
    <3>2. chats'[c] \in DOMAIN namespaces'
      BY DEF TypeOK
    <3> QED
      BY <3>1, <3>2 DEF NamespaceFacts
  <2> QED
    BY <1>1, <2>1, <2>2 DEF HistoryFits, Facts
<1>2. CASE reqs[r].op = "list"
  <2>1. held'[r] = held[r] \cap Facts' /\ ever'[r] = ever[r] \cup Facts'
    BY <1>2 DEF Remember, Facts
  <2>2. ASSUME NEW f \in held'[r] \cap ChatFacts'
        PROVE  [id |-> f.namespace, server |-> namespaces'[f.namespace].server]
                 \in held'[r]
    <3>1. f \in held[r] \cap ChatFacts
      BY <1>2, <2>1, FactsDiffer DEF HistoryFits, Facts
    <3>2. PICK c \in DOMAIN chats' : f = [id |-> c, namespace |-> chats'[c]]
      BY DEF ChatFacts
    <3>3. PICK b \in DOMAIN chats : f = [id |-> b, namespace |-> chats[b]]
      BY <3>1 DEF ChatFacts
    <3>4. f.namespace \in DOMAIN namespaces /\ f.namespace \in DOMAIN namespaces'
      BY <3>2, <3>3 DEF TypeOK
    <3>5. namespaces'[f.namespace].server = namespaces[f.namespace].server
      BY <3>4 DEF Evolves
    <3>6. [id |-> f.namespace, server |-> namespaces'[f.namespace].server]
            \in NamespaceFacts'
      BY <3>4 DEF NamespaceFacts
    <3> QED
      BY <1>2, <2>1, <3>1, <3>5, <3>6 DEF HistoryFits, Facts
  <2> QED
    BY <1>2, <2>1, <2>2 DEF HistoryFits, Facts
<1> QED
  BY <1>1, <1>2
-----------------------------------------------------------------------------
\* A listing that goes on, or is not one, knows what it knew.
LEMMA ListerStays ==
  ASSUME TypeOK, TypeOK', Evolves, Remember, NEW r \in Request,
         reqs'[r] = reqs[r], HistoryFits(r), ListerFits(r)
  PROVE  ListerFits(r)'
<1> SUFFICES ASSUME reqs[r].op = "list"
             PROVE  ListerFits(r)'
  BY DEF ListerFits
<1> DEFINE q == reqs[r]
<1>1. held'[r] \subseteq held[r] /\ ever[r] \subseteq ever'[r]
  BY HistoryStep
<1>2. q.listed \cup q.chats \subseteq ever'[r]
  BY <1>1 DEF ListerFits
<1>3. ASSUME q.pc = "load", NEW f \in held'[r] \cap NamespaceFacts',
             f.server = q.server
      PROVE  f \in q.listed
  <2>1. f \in held[r] \cap NamespaceFacts
    BY <1>1, <1>3, FactsDiffer DEF HistoryFits, Facts
  <2> QED
    BY <1>3, <2>1 DEF ListerFits
<1>4. ASSUME q.pc = "load", NEW f \in held'[r] \cap ChatFacts',
             namespaces'[f.namespace].server = q.server
      PROVE  f \in q.chats \/ f.namespace \in q.wanted
  <2>1. f \in held[r] \cap ChatFacts
    BY <1>1, <1>4, FactsDiffer DEF HistoryFits, Facts
  <2>2. f.namespace \in DOMAIN namespaces
    BY <2>1 DEF ChatFacts, TypeOK
  <2>3. f.namespace \in DOMAIN namespaces'
    BY <1>4 DEF ChatFacts, TypeOK
  <2>4. namespaces[f.namespace].server = q.server
    BY <1>4, <2>2, <2>3 DEF Evolves
  <2> QED
    BY <1>4, <2>1, <2>4 DEF ListerFits
<1> QED
  BY <1>2, <1>3, <1>4 DEF ListerFits

LEMMA CreatorStays ==
  ASSUME TypeOK, TypeOK', Evolves, NEW r \in Request,
         reqs'[r] = reqs[r], CreatorFits(r)
  PROVE  CreatorFits(r)'
<1> SUFFICES ASSUME reqs[r].op = "create"
             PROVE  CreatorFits(r)'
  BY DEF CreatorFits
<1> DEFINE q == reqs[r]
<1>1. /\ q.namespace \in Nat /\ nextNamespace \in Nat /\ nextNamespace' \in Nat
      /\ nextNamespace <= nextNamespace'
  <2>1. q \in CreateHandler
    BY HandlerKinds
  <2> QED
    BY <2>1, NamespacesAssumption DEF CreateHandler, TypeOK, Evolves
<1>2. /\ q.server \in DOMAIN servers'
      /\ q.pc \in {"namespace", "chat"} => q.via = "ws" /\ servers'[q.server]
  BY DEF CreatorFits, Evolves
<1>3. ASSUME q.pc = "chat"
      PROVE  /\ q.namespace < nextNamespace'
             /\ IF q.namespace \in DOMAIN namespaces'
                THEN namespaces'[q.namespace].server = q.server
                ELSE q.server \in excused'
  <2>1. q.namespace < nextNamespace
    BY <1>3 DEF CreatorFits
  <2>2. q.namespace < nextNamespace' /\ ~ (nextNamespace <= q.namespace)
    BY <1>1, <2>1
  <2> QED
    BY <1>3, <2>2 DEF CreatorFits, Evolves
<1> QED
  BY <1>2, <1>3 DEF CreatorFits

LEMMA UpdaterStays ==
  ASSUME TypeOK, TypeOK', Evolves, NamesStay, NEW r \in Request,
         reqs'[r] = reqs[r], UpdaterFits(r)
  PROVE  UpdaterFits(r)'
<1> SUFFICES ASSUME reqs[r].op = "update"
             PROVE  UpdaterFits(r)'
  BY DEF UpdaterFits
<1> DEFINE q == reqs[r]
<1>1. /\ q.namespace \in Nat /\ nextNamespace \in Nat /\ nextNamespace' \in Nat
      /\ nextNamespace <= nextNamespace'
  BY HandlerKinds, NamespacesAssumption DEF UpdateHandler, TypeOK, Evolves
<1>2. q.namespace < nextNamespace
  BY DEF UpdaterFits
<1>3. q.namespace < nextNamespace' /\ ~ (nextNamespace <= q.namespace)
  BY <1>1, <1>2
<1> QED
  BY <1>3 DEF UpdaterFits, Evolves, NamesStay

LEMMA HandlerStays ==
  ASSUME TypeOK, TypeOK', Evolves, NamesStay, Remember, NEW r \in Request,
         reqs'[r] = reqs[r], HandlerFits(r)
  PROVE  HandlerFits(r)'
<1>1. HistoryFits(r)'
  <2>1. CASE reqs'[r].op = "list"
    BY <2>1, HistoryStep DEF HandlerFits
  <2>2. CASE reqs'[r].op # "list"
    BY <2>2 DEF HistoryFits
  <2> QED
    BY <2>1, <2>2
<1> QED
  BY <1>1, CreatorStays, UpdaterStays, ListerStays DEF HandlerFits

\* Only r has moved.
LEMMA OneMoves ==
  ASSUME IInv, TypeOK', Evolves, NamesStay, Remember, NEW r \in Request,
         \A q \in Request \ {r} : reqs'[q] = reqs[q], HandlerFits(r)'
  PROVE  \A q \in Request : HandlerFits(q)'
BY HandlerStays DEF IInv

LEMMA IdleFits ==
  ASSUME NEW r \in Request, reqs'[r] = Idle
  PROVE  HandlerFits(r)'
BY DEF HandlerFits, CreatorFits, UpdaterFits, HistoryFits, ListerFits, Idle

-----------------------------------------------------------------------------
\* The first part of BareServersAreExcused.
Furnished(s) ==
  \/ s \in excused
  \/ \E r \in Request : reqs[r].op = "create" /\ reqs[r].server = s
  \/ servers[s] /\ \E c \in DOMAIN chats : namespaces[chats[c]].server = s

\* A server stays as it is furnished if no creation of it has ended.
LEMMA FurnishedStays ==
  ASSUME IInv, TypeOK', Evolves, NEW s \in DOMAIN servers,
         \A r \in Request : reqs[r].op = "create" /\ reqs[r].server = s =>
           \/ reqs'[r].op = "create" /\ reqs'[r].server = s
           \/ Furnished(s)'
  PROVE  Furnished(s)'
<1>1. Furnished(s)
  BY DEF IInv, BareServersAreExcused, Furnished
<1>2. CASE s \in excused
  BY <1>2 DEF Furnished, Evolves
<1>3. CASE \E r \in Request : reqs[r].op = "create" /\ reqs[r].server = s
  BY <1>3 DEF Furnished
<1>4. CASE servers[s] /\ \E c \in DOMAIN chats : namespaces[chats[c]].server = s
  <2>1. PICK c \in DOMAIN chats : namespaces[chats[c]].server = s
    BY <1>4
  <2>2. c \in DOMAIN chats' \/ s \in excused'
    BY <2>1 DEF Evolves
  <2>3. ASSUME c \in DOMAIN chats'
        PROVE  namespaces'[chats'[c]].server = s
    <3>1. /\ chats'[c] = chats[c]
          /\ chats[c] \in DOMAIN namespaces
          /\ chats[c] \in DOMAIN namespaces'
      BY <2>3 DEF Evolves, TypeOK, IInv
    <3> QED
      BY <2>1, <3>1 DEF Evolves
  <2>4. servers'[s]
    BY <1>4 DEF Evolves
  <2> QED
    BY <2>2, <2>3, <2>4 DEF Furnished
<1> QED
  BY <1>1, <1>2, <1>3, <1>4 DEF Furnished

\* A step that tells nobody anything, and ends no creation but of a server that
\* is furnished.
LEMMA QuietStep ==
  ASSUME IInv, TypeOK', Evolves, told' = {},
         \A s \in DOMAIN servers' \ DOMAIN servers : Furnished(s)',
         \A s \in DOMAIN servers, r \in Request :
           reqs[r].op = "create" /\ reqs[r].server = s =>
             \/ reqs'[r].op = "create" /\ reqs'[r].server = s
             \/ Furnished(s)'
  PROVE  BareServersAreExcused' /\ ListsShowWhatLasted' /\ AnswersAreTrue'
<1>1. ASSUME NEW s \in DOMAIN servers PROVE Furnished(s)'
  BY FurnishedStays
<1>2. ASSUME NEW s \in DOMAIN servers' PROVE Furnished(s)'
  BY <1>1
<1> QED
  BY <1>2 DEF BareServersAreExcused, Furnished, ListsShowWhatLasted,
     AnswersAreTrue
-----------------------------------------------------------------------------
(***************************************************************************)
(* What each statement does to the tables.                                 *)
(***************************************************************************)
LEMMA SameTables ==
  ASSUME TypeOK, UNCHANGED tables,
         reqs' \in [Request -> Handler \cup {Idle}]
  PROVE  TypeOK'
BY DEF TypeOK, tables

LEMMA ServerInserted ==
  ASSUME TypeOK, nextServer <= MaxServers,
         servers' = Insert(servers, nextServer, FALSE),
         nextServer' = nextServer + 1,
         KeepNamespaces, KeepChats, excused' = excused,
         reqs' \in [Request -> Handler \cup {Idle}]
  PROVE  /\ TypeOK' /\ Evolves /\ NamesStay
         /\ DOMAIN servers' = DOMAIN servers \cup {nextServer}
<1>1. /\ nextServer \in Nat /\ nextServer # 0 /\ nextServer' - 1 = nextServer
      /\ nextServer' \in 1 .. (MaxServers + 1)
      /\ nextNamespace \in Nat /\ nextNamespace <= nextNamespace
  <2>1. MaxServers \in Nat /\ MaxNamespaces \in Nat
    BY NamespacesAssumption
  <2>2. nextServer \in 1 .. (MaxServers + 1)
        /\ nextNamespace \in 1 .. (MaxNamespaces + 1)
    BY DEF TypeOK
  <2> QED
    BY <2>1, <2>2
<1>2. DOMAIN servers = 1 .. (nextServer - 1) /\ nextServer \notin DOMAIN servers
  BY <1>1 DEF TypeOK
<1>3. DOMAIN servers' = DOMAIN servers \cup {nextServer}
  BY DEF Insert
<1>4. \A s \in DOMAIN servers : servers'[s] = servers[s]
  BY <1>2 DEF Insert
<1>5. servers' \in [1 .. (nextServer' - 1) -> BOOLEAN]
  <2>1. 1 .. (nextServer' - 1) = (1 .. (nextServer - 1)) \cup {nextServer}
    BY <1>1
  <2>2. servers \in [1 .. (nextServer - 1) -> BOOLEAN]
    BY DEF TypeOK
  <2> QED
    BY <1>2, <2>1, <2>2 DEF Insert
<1>6. TypeOK'
  BY <1>1, <1>3, <1>5 DEF TypeOK, KeepNamespaces, KeepChats
<1>7. Evolves /\ NamesStay
  <2>1. \A s \in DOMAIN servers : servers[s] => servers'[s]
    BY <1>4, Zenon
  <2>2. namespaces' = namespaces /\ nextNamespace' = nextNamespace /\ chats' = chats
    BY DEF KeepNamespaces, KeepChats
  <2> QED
    BY <1>1, <1>3, <2>1, <2>2 DEF Evolves, NamesStay
<1> QED
  BY <1>3, <1>6, <1>7

LEMMA NamespaceInserted ==
  ASSUME TypeOK, NEW s \in DOMAIN servers, NEW name \in Name,
         InsertNamespace(s, name), KeepServers, KeepChats, excused' = excused,
         reqs' \in [Request -> Handler \cup {Idle}]
  PROVE  /\ TypeOK' /\ Evolves /\ NamesStay
         /\ nextNamespace \in DOMAIN namespaces'
         /\ namespaces'[nextNamespace].server = s
         /\ nextNamespace < nextNamespace'
<1>1. /\ nextNamespace \in Nat /\ nextNamespace # 0
      /\ nextNamespace' = nextNamespace + 1
      /\ nextNamespace' \in 1 .. (MaxNamespaces + 1)
      /\ nextNamespace < nextNamespace' /\ nextNamespace <= nextNamespace
      /\ nextNamespace <= nextNamespace'
      /\ nextNamespace' - 1 = nextNamespace
  BY NamespacesAssumption DEF TypeOK, InsertNamespace
<1>2. DOMAIN namespaces \subseteq 1 .. (nextNamespace - 1)
  BY DEF TypeOK
<1>3. nextNamespace \notin DOMAIN namespaces
  BY <1>1, <1>2
<1>4. /\ DOMAIN namespaces' = DOMAIN namespaces \cup {nextNamespace}
      /\ namespaces'[nextNamespace] = [server |-> s, name |-> name]
      /\ \A n \in DOMAIN namespaces : namespaces'[n] = namespaces[n]
  BY <1>3 DEF InsertNamespace, Insert
<1>5. s \in Nat \ {0}
  <2>1. DOMAIN servers = 1 .. (nextServer - 1) /\ nextServer \in Nat
    BY NamespacesAssumption DEF TypeOK
  <2> QED
    BY <2>1
<1>6. TypeOK'
  <2>1. [server |-> s, name |-> name] \in NamespaceRow
    BY <1>5 DEF NamespaceRow
  <2>2. \A n \in DOMAIN namespaces : namespaces[n] \in NamespaceRow
    BY DEF TypeOK
  <2>3. namespaces' \in [DOMAIN namespaces' -> NamespaceRow]
    BY <1>4, <2>1, <2>2 DEF InsertNamespace, Insert
  <2>4. \A n \in DOMAIN namespaces' : namespaces'[n].server \in DOMAIN servers'
    BY <1>4 DEF TypeOK, KeepServers
  <2>5. DOMAIN namespaces' \subseteq 1 .. (nextNamespace' - 1)
    BY <1>1, <1>2, <1>4
  <2>6. chats' \in [DOMAIN chats' -> DOMAIN namespaces']
    BY <1>4 DEF TypeOK, KeepChats
  <2> QED
    BY <1>1, <2>3, <2>4, <2>5, <2>6 DEF TypeOK, KeepServers, KeepChats
<1>7. Evolves /\ NamesStay
  BY <1>1, <1>4 DEF Evolves, NamesStay, KeepServers, KeepChats
<1> QED
  BY <1>1, <1>4, <1>6, <1>7

LEMMA ChatInserted ==
  ASSUME TypeOK, NEW n \in DOMAIN namespaces,
         InsertChat(n), KeepServers, KeepNamespaces, excused' = excused,
         reqs' \in [Request -> Handler \cup {Idle}]
  PROVE  /\ TypeOK' /\ Evolves /\ NamesStay
         /\ nextChat \in DOMAIN chats' /\ chats'[nextChat] = n
<1>1. /\ nextChat \in Nat /\ nextChat # 0
      /\ nextChat' = nextChat + 1 /\ nextChat' - 1 = nextChat
      /\ nextChat' \in 1 .. (MaxChats + 1)
      /\ nextNamespace \in Nat
  BY NamespacesAssumption DEF TypeOK, InsertChat
<1>2. DOMAIN chats \subseteq 1 .. (nextChat - 1)
  BY DEF TypeOK
<1>3. nextChat \notin DOMAIN chats
  BY <1>1, <1>2
<1>4. /\ DOMAIN chats' = DOMAIN chats \cup {nextChat}
      /\ chats'[nextChat] = n
      /\ \A c \in DOMAIN chats : chats'[c] = chats[c]
  BY <1>3 DEF InsertChat, Insert
<1>5. chats' \in [DOMAIN chats' -> DOMAIN namespaces']
  BY <1>4 DEF InsertChat, Insert, TypeOK, KeepNamespaces
<1>6. DOMAIN chats' \subseteq 1 .. (nextChat' - 1)
  BY <1>1, <1>2, <1>4
<1>7. TypeOK'
  BY <1>1, <1>5, <1>6 DEF TypeOK, KeepServers, KeepNamespaces
<1>8. Evolves /\ NamesStay
  BY <1>1, <1>4 DEF Evolves, NamesStay, KeepServers, KeepNamespaces
<1> QED
  BY <1>4, <1>7, <1>8

LEMMA NamespaceDeleted ==
  ASSUME TypeOK, NEW s, NEW ids,
         ids \subseteq {i \in DOMAIN namespaces : namespaces[i].server = s},
         namespaces' = Delete(namespaces, ids),
         chats' = Delete(chats, {c \in DOMAIN chats : chats[c] \in ids}),
         excused' = excused \cup {namespaces[i].server : i \in ids},
         UNCHANGED <<reqs, nextNamespace, nextChat>>, KeepServers
  PROVE  TypeOK' /\ Evolves /\ NamesStay
<1>1. /\ DOMAIN namespaces' = DOMAIN namespaces \ ids
      /\ \A i \in DOMAIN namespaces' : namespaces'[i] = namespaces[i]
  BY DEF Delete
<1>2. /\ DOMAIN chats' = {c \in DOMAIN chats : chats[c] \notin ids}
      /\ \A c \in DOMAIN chats' : chats'[c] = chats[c]
  BY DEF Delete
<1>3. nextNamespace \in Nat /\ nextNamespace' = nextNamespace
  BY NamespacesAssumption DEF TypeOK
<1>4. TypeOK'
  <2>1. namespaces' \in [DOMAIN namespaces' -> NamespaceRow]
    BY <1>1 DEF TypeOK, Delete
  <2>2. /\ \A i \in DOMAIN namespaces' : namespaces'[i].server \in DOMAIN servers'
        /\ DOMAIN namespaces' \subseteq 1 .. (nextNamespace' - 1)
    BY <1>1, <1>3 DEF TypeOK, KeepServers
  <2>3. \A c \in DOMAIN chats' : chats'[c] \in DOMAIN namespaces'
    BY <1>1, <1>2 DEF TypeOK
  <2>4. chats' \in [DOMAIN chats' -> DOMAIN namespaces']
    BY <2>3 DEF Delete
  <2>5. DOMAIN chats' \subseteq 1 .. (nextChat' - 1)
    BY <1>2 DEF TypeOK
  <2> QED
    BY <2>1, <2>2, <2>4, <2>5 DEF TypeOK, KeepServers
<1>5. Evolves
  <2>1. \A i \in DOMAIN namespaces :
          i \in DOMAIN namespaces' \/ namespaces[i].server \in excused'
    BY <1>1
  <2>2. \A c \in DOMAIN chats :
          c \in DOMAIN chats' \/ namespaces[chats[c]].server \in excused'
    BY <1>2
  <2>3. servers' = servers
    BY DEF KeepServers
  <2> QED
    BY <1>1, <1>2, <1>3, <2>1, <2>2, <2>3 DEF Evolves
<1> QED
  BY <1>1, <1>4, <1>5 DEF NamesStay

LEMMA NamespaceRenamed ==
  ASSUME TypeOK, NEW n \in DOMAIN namespaces, NEW name \in Name,
         namespaces' = Update(namespaces, {n}, "name", name),
         UNCHANGED nextNamespace, KeepServers, KeepChats, excused' = excused,
         reqs' \in [Request -> Handler \cup {Idle}]
  PROVE  /\ TypeOK' /\ Evolves
         /\ DOMAIN namespaces' = DOMAIN namespaces
         /\ namespaces'[n].name = name
         /\ \A i \in DOMAIN namespaces \ {n} : namespaces'[i] = namespaces[i]
<1>1. \A i \in DOMAIN namespaces : namespaces[i] \in NamespaceRow
  BY DEF TypeOK
<1>2. /\ DOMAIN namespaces' = DOMAIN namespaces
      /\ namespaces'[n] = [namespaces[n] EXCEPT !["name"] = name]
      /\ \A i \in DOMAIN namespaces \ {n} : namespaces'[i] = namespaces[i]
  BY DEF Update
<1>3. /\ namespaces'[n] \in NamespaceRow
      /\ namespaces'[n].server = namespaces[n].server
      /\ namespaces'[n].name = name
  BY <1>1, <1>2 DEF NamespaceRow
<1>4. /\ \A i \in DOMAIN namespaces' : namespaces'[i] \in NamespaceRow
      /\ \A i \in DOMAIN namespaces' :
           namespaces'[i].server = namespaces[i].server
  BY <1>1, <1>2, <1>3
<1>5. namespaces' \in [DOMAIN namespaces' -> NamespaceRow]
  BY <1>2, <1>4 DEF Update
<1>6. TypeOK'
  BY <1>2, <1>4, <1>5 DEF TypeOK, KeepServers, KeepChats
<1>7. Evolves
  <2>1. nextNamespace \in Nat
    BY NamespacesAssumption DEF TypeOK
  <2>2. /\ DOMAIN servers \subseteq DOMAIN servers'
        /\ \A s \in DOMAIN servers : servers[s] => servers'[s]
        /\ excused \subseteq excused' /\ nextNamespace <= nextNamespace'
    BY <2>1 DEF KeepServers
  <2>3. \A i \in DOMAIN namespaces' :
          IF i \in DOMAIN namespaces
          THEN namespaces'[i].server = namespaces[i].server
          ELSE nextNamespace <= i
    BY <1>2, <1>4
  <2>4. \A i \in DOMAIN namespaces :
          i \in DOMAIN namespaces' \/ namespaces[i].server \in excused'
    BY <1>2
  <2>5. /\ \A c \in DOMAIN chats' : c \in DOMAIN chats => chats'[c] = chats[c]
        /\ \A c \in DOMAIN chats :
             c \in DOMAIN chats' \/ namespaces[chats[c]].server \in excused'
    BY DEF KeepChats
  <2> QED
    BY <2>2, <2>3, <2>4, <2>5 DEF Evolves
<1> QED
  BY <1>2, <1>3, <1>6, <1>7
-----------------------------------------------------------------------------
(***************************************************************************)
(* The steps of create:new:server.                                         *)
(***************************************************************************)
LEMMA CreateServerStep ==
  ASSUME IInv, NEW r \in Request, CreateServer(r), Remember
  PROVE  IInv'
<1>1. PICK via \in {"ws", "http"} :
        reqs' = [reqs EXCEPT ![r] =
          [op |-> "create", pc |-> "owner", server |-> nextServer,
           namespace |-> Null, via |-> via]]
  BY DEF CreateServer
<1>2. nextServer \in Nat \ {0}
  BY NamespacesAssumption DEF IInv, TypeOK
<1>3. /\ reqs'[r] = [op |-> "create", pc |-> "owner", server |-> nextServer,
                     namespace |-> Null, via |-> via]
      /\ reqs'[r] \in CreateHandler
      /\ \A q \in Request \ {r} : reqs'[q] = reqs[q]
      /\ reqs' \in [Request -> Handler \cup {Idle}]
  BY <1>1, <1>2 DEF IInv, TypeOK, CreateHandler, Handler, Null
<1>4. /\ TypeOK' /\ Evolves /\ NamesStay
      /\ DOMAIN servers' = DOMAIN servers \cup {nextServer}
  BY <1>3, ServerInserted DEF IInv, CreateServer, Silent
<1>5. HandlerFits(r)'
  BY <1>3, <1>4
     DEF HandlerFits, CreatorFits, UpdaterFits, HistoryFits, ListerFits
<1>6. \A q \in Request : HandlerFits(q)'
  BY <1>3, <1>4, <1>5, OneMoves
<1>7. BareServersAreExcused' /\ ListsShowWhatLasted' /\ AnswersAreTrue'
  <2>1. reqs[r].op # "create"
    BY DEF CreateServer, Idle
  <2>2. \A s \in DOMAIN servers' \ DOMAIN servers : Furnished(s)'
    BY <1>3, <1>4 DEF Furnished
  <2>3. told' = {}
    BY DEF CreateServer, Silent
  <2> QED
    BY <1>3, <1>4, <2>1, <2>2, <2>3, QuietStep
<1> QED
  BY <1>4, <1>6, <1>7 DEF IInv

LEMMA Moved ==
  ASSUME TypeOK, NEW r \in Request, NEW h \in Handler \cup {Idle},
         reqs' = [reqs EXCEPT ![r] = h]
  PROVE  /\ reqs'[r] = h
         /\ \A q \in Request \ {r} : reqs'[q] = reqs[q]
         /\ reqs' \in [Request -> Handler \cup {Idle}]
BY DEF TypeOK

\* How a handler ends, and what remains to be shown of it.
LEMMA Finished ==
  ASSUME TypeOK, NEW r \in Request, Finish(r)
  PROVE  /\ reqs'[r] = Idle
         /\ \A q \in Request \ {r} : reqs'[q] = reqs[q]
         /\ reqs' \in [Request -> Handler \cup {Idle}]
         /\ HandlerFits(r)'
BY Moved, IdleFits DEF Finish

LEMMA SubscribeOwnerStep ==
  ASSUME IInv, NEW r \in Request, SubscribeOwner(r), Remember
  PROVE  IInv'
<1> DEFINE q == reqs[r]
<1>1. q \in CreateHandler /\ q.op = "create" /\ q.server \in DOMAIN servers
  BY HandlerKinds DEF IInv, SubscribeOwner, At, HandlerFits, CreatorFits
<1>2. /\ DOMAIN servers' = DOMAIN servers
      /\ servers'[q.server] = TRUE
      /\ \A s \in DOMAIN servers : servers[s] => servers'[s]
      /\ \A s \in DOMAIN servers : servers'[s] \in BOOLEAN
  <2>1. servers' = [servers EXCEPT ![q.server] = TRUE]
    BY DEF SubscribeOwner
  <2>2. \A s \in DOMAIN servers : servers[s] \in BOOLEAN
    BY DEF IInv, TypeOK
  <2> QED
    BY <1>1, <2>1, <2>2
<1>3. \/ /\ q.via = "ws" /\ reqs' = [reqs EXCEPT ![r] = [q EXCEPT !.pc = "namespace"]]
         /\ excused' = excused
      \/ Finish(r) /\ excused' = excused \cup {q.server}
  BY DEF SubscribeOwner
<1>4. q.via = "ws" => [q EXCEPT !.pc = "namespace"] \in Handler
  BY <1>1 DEF Handler, CreateHandler
<1>5. /\ \A p \in Request \ {r} : reqs'[p] = reqs[p]
      /\ reqs' \in [Request -> Handler \cup {Idle}]
  BY <1>3, <1>4, Moved, Finished DEF IInv
<1>6. TypeOK'
  <2>1. servers' \in [1 .. (nextServer' - 1) -> BOOLEAN]
    BY <1>1 DEF IInv, TypeOK, SubscribeOwner
  <2> QED
    BY <1>2, <1>5, <2>1
       DEF IInv, TypeOK, SubscribeOwner, KeepNamespaces, KeepChats
<1>7. Evolves /\ NamesStay
  <2>1. nextNamespace \in Nat
    BY NamespacesAssumption DEF IInv, TypeOK
  <2>2. /\ namespaces' = namespaces /\ nextNamespace' = nextNamespace
        /\ chats' = chats
    BY DEF SubscribeOwner, KeepNamespaces, KeepChats
  <2>3. excused \subseteq excused'
    BY <1>3
  <2> QED
    BY <1>2, <2>1, <2>2, <2>3 DEF Evolves, NamesStay
<1>8. /\ HandlerFits(r)'
      /\ \/ q.server \in excused'
         \/ reqs'[r].op = "create" /\ reqs'[r].server = q.server
  <2>1. CASE q.via = "ws" /\ reqs' = [reqs EXCEPT ![r] = [q EXCEPT !.pc = "namespace"]]
    <3>1. reqs'[r] = [q EXCEPT !.pc = "namespace"]
      BY <1>4, <2>1, Moved DEF IInv
    <3>2. /\ reqs'[r].op = "create" /\ reqs'[r].pc = "namespace"
          /\ reqs'[r].server = q.server /\ reqs'[r].via = "ws"
      BY <1>1, <2>1, <3>1 DEF CreateHandler
    <3>3. CreatorFits(r)'
      BY <1>1, <1>2, <3>2 DEF CreatorFits
    <3> QED
      BY <3>2, <3>3 DEF HandlerFits, UpdaterFits, HistoryFits, ListerFits
  <2>2. CASE Finish(r) /\ excused' = excused \cup {q.server}
    BY <2>2, Finished DEF IInv
  <2> QED
    BY <1>3, <2>1, <2>2
<1>9. \A p \in Request : HandlerFits(p)'
  BY <1>5, <1>6, <1>7, <1>8, OneMoves
<1>10. BareServersAreExcused' /\ ListsShowWhatLasted' /\ AnswersAreTrue'
  <2>1. told' = {}
    BY DEF SubscribeOwner
  <2>2. ASSUME NEW s \in DOMAIN servers, NEW p \in Request,
               reqs[p].op = "create", reqs[p].server = s
        PROVE  \/ reqs'[p].op = "create" /\ reqs'[p].server = s
               \/ Furnished(s)'
    BY <1>5, <1>8, <2>2 DEF Furnished
  <2> QED
    BY <1>2, <1>6, <1>7, <2>1, <2>2, QuietStep
<1> QED
  BY <1>6, <1>9, <1>10 DEF IInv

LEMMA CreateGeneralStep ==
  ASSUME IInv, NEW r \in Request, CreateGeneral(r), Remember
  PROVE  IInv'
<1> DEFINE q == reqs[r]
           h == [q EXCEPT !.pc = "chat", !.namespace = nextNamespace]
<1>1. /\ q \in CreateHandler /\ q.op = "create" /\ q.server \in DOMAIN servers
      /\ q.via = "ws" /\ servers[q.server]
  BY HandlerKinds DEF IInv, CreateGeneral, At, HandlerFits, CreatorFits
<1>2. nextNamespace \in Nat
  BY NamespacesAssumption DEF IInv, TypeOK
<1>3. /\ h \in Handler /\ h.op = "create" /\ h.server = q.server
      /\ h.pc = "chat" /\ h.namespace = nextNamespace /\ h.via = "ws"
  BY <1>1, <1>2 DEF Handler, CreateHandler
<1>4. reqs' = [reqs EXCEPT ![r] = h]
  BY DEF CreateGeneral
<1>5. /\ reqs'[r] = h
      /\ \A p \in Request \ {r} : reqs'[p] = reqs[p]
      /\ reqs' \in [Request -> Handler \cup {Idle}]
  BY <1>3, <1>4, Moved DEF IInv
<1>6. /\ TypeOK' /\ Evolves /\ NamesStay
      /\ nextNamespace \in DOMAIN namespaces'
      /\ namespaces'[nextNamespace].server = q.server
      /\ nextNamespace < nextNamespace'
  BY <1>1, <1>5, NamespaceInserted, NamespacesAssumption
     DEF IInv, CreateGeneral, Silent
<1>7. HandlerFits(r)'
  <2>1. servers' = servers
    BY DEF CreateGeneral, KeepServers
  <2>2. CreatorFits(r)'
    BY <1>1, <1>3, <1>5, <1>6, <2>1 DEF CreatorFits
  <2> QED
    BY <1>3, <1>5, <2>2 DEF HandlerFits, UpdaterFits, HistoryFits, ListerFits
<1>8. \A p \in Request : HandlerFits(p)'
  BY <1>5, <1>6, <1>7, OneMoves
<1>9. BareServersAreExcused' /\ ListsShowWhatLasted' /\ AnswersAreTrue'
  <2>1. told' = {} /\ DOMAIN servers' = DOMAIN servers
    BY DEF CreateGeneral, Silent, KeepServers
  <2>2. \A p \in Request : reqs[p].op = "create" =>
          reqs'[p].op = "create" /\ reqs'[p].server = reqs[p].server
    BY <1>3, <1>5
  <2> QED
    BY <1>6, <2>1, <2>2, QuietStep
<1> QED
  BY <1>6, <1>8, <1>9 DEF IInv

LEMMA CreateGeneralChatStep ==
  ASSUME IInv, NEW r \in Request, CreateGeneralChat(r), Remember
  PROVE  IInv'
<1> DEFINE q == reqs[r]
<1>1. /\ q \in CreateHandler /\ q.server \in DOMAIN servers /\ servers[q.server]
      /\ q.namespace \in DOMAIN namespaces
      /\ namespaces[q.namespace].server = q.server
  BY HandlerKinds DEF IInv, CreateGeneralChat, At, HandlerFits, CreatorFits
<1>2. /\ HandlerFits(r)'
      /\ \A p \in Request \ {r} : reqs'[p] = reqs[p]
      /\ reqs' \in [Request -> Handler \cup {Idle}]
  BY Finished DEF IInv, CreateGeneralChat
<1>3. /\ TypeOK' /\ Evolves /\ NamesStay
      /\ nextChat \in DOMAIN chats' /\ chats'[nextChat] = q.namespace
  BY <1>1, <1>2, ChatInserted DEF IInv, CreateGeneralChat
<1>4. servers' = servers /\ namespaces' = namespaces
  BY DEF CreateGeneralChat, KeepServers, KeepNamespaces
<1>5. \A p \in Request : HandlerFits(p)'
  BY <1>2, <1>3, OneMoves
<1>6. ASSUME NEW s, s = q.server PROVE Furnished(s)'
  BY <1>1, <1>3, <1>4, <1>6 DEF Furnished
<1>7. BareServersAreExcused'
  <2>1. ASSUME NEW s \in DOMAIN servers PROVE Furnished(s)'
    BY <1>2, <1>3, <1>6, FurnishedStays
  <2>2. told' = {[kind |-> "created", server |-> q.server,
                 namespace |-> q.namespace, chat |-> nextChat]}
    BY DEF CreateGeneralChat
  <2> QED
    BY <1>1, <1>3, <1>4, <2>1, <2>2 DEF BareServersAreExcused, Furnished
<1>8. ListsShowWhatLasted' /\ AnswersAreTrue'
  BY DEF CreateGeneralChat, ListsShowWhatLasted, AnswersAreTrue
<1> QED
  BY <1>3, <1>5, <1>7, <1>8 DEF IInv

LEMMA NamespaceGoneStep ==
  ASSUME IInv, NEW r \in Request, NamespaceGone(r), Remember
  PROVE  IInv'
<1> DEFINE q == reqs[r]
<1>1. q.server \in excused
  BY DEF IInv, NamespaceGone, At, HandlerFits, CreatorFits
<1>2. /\ HandlerFits(r)'
      /\ \A p \in Request \ {r} : reqs'[p] = reqs[p]
      /\ reqs' \in [Request -> Handler \cup {Idle}]
  BY Finished DEF IInv, NamespaceGone
<1>3. TypeOK' /\ Evolves /\ NamesStay
  BY <1>2, SameTables, TablesStay DEF IInv, NamespaceGone, Silent
<1>4. \A p \in Request : HandlerFits(p)'
  BY <1>2, <1>3, OneMoves
<1>5. BareServersAreExcused' /\ ListsShowWhatLasted' /\ AnswersAreTrue'
  <2>1. told' = {} /\ servers' = servers /\ excused' = excused
    BY DEF NamespaceGone, Silent, tables
  <2>2. ASSUME NEW s \in DOMAIN servers, NEW p \in Request,
               reqs[p].op = "create", reqs[p].server = s
        PROVE  \/ reqs'[p].op = "create" /\ reqs'[p].server = s
               \/ Furnished(s)'
    BY <1>1, <1>2, <2>1, <2>2 DEF Furnished
  <2> QED
    BY <1>3, <2>1, <2>2, QuietStep
<1> QED
  BY <1>3, <1>4, <1>5 DEF IInv
-----------------------------------------------------------------------------
(***************************************************************************)
(* The steps of the events that are one statement.                         *)
(***************************************************************************)
LEMMA CreateNamespaceStep ==
  ASSUME IInv, CreateNamespace, Remember
  PROVE  IInv'
<1>1. PICK s \in DOMAIN servers, name \in Name : InsertNamespace(s, name)
  BY DEF CreateNamespace
<1>2. reqs' = reqs /\ reqs' \in [Request -> Handler \cup {Idle}]
  BY DEF IInv, TypeOK, CreateNamespace
<1>3. TypeOK' /\ Evolves /\ NamesStay
  BY <1>1, <1>2, NamespaceInserted DEF IInv, CreateNamespace, Silent
<1>4. \A p \in Request : HandlerFits(p)'
  BY <1>2, <1>3, HandlerStays DEF IInv
<1>5. told' = {} /\ DOMAIN servers' = DOMAIN servers
  BY DEF CreateNamespace, Silent, KeepServers
<1>6. BareServersAreExcused' /\ ListsShowWhatLasted' /\ AnswersAreTrue'
  BY <1>2, <1>3, <1>5, QuietStep
<1> QED
  BY <1>3, <1>4, <1>6 DEF IInv

LEMMA CreateChatStep ==
  ASSUME IInv, CreateChat, Remember
  PROVE  IInv'
<1>1. PICK n \in DOMAIN namespaces : InsertChat(n)
  BY DEF CreateChat
<1>2. reqs' = reqs /\ reqs' \in [Request -> Handler \cup {Idle}]
  BY DEF IInv, TypeOK, CreateChat
<1>3. TypeOK' /\ Evolves /\ NamesStay
  BY <1>1, <1>2, ChatInserted DEF IInv, CreateChat, Silent
<1>4. \A p \in Request : HandlerFits(p)'
  BY <1>2, <1>3, HandlerStays DEF IInv
<1>5. told' = {} /\ DOMAIN servers' = DOMAIN servers
  BY DEF CreateChat, Silent, KeepServers
<1>6. BareServersAreExcused' /\ ListsShowWhatLasted' /\ AnswersAreTrue'
  BY <1>2, <1>3, <1>5, QuietStep
<1> QED
  BY <1>3, <1>4, <1>6 DEF IInv

LEMMA DeleteNamespaceStep ==
  ASSUME IInv, DeleteNamespace, Remember
  PROVE  IInv'
<1>1. PICK s \in DOMAIN servers, n \in 1 .. MaxNamespaces :
        LET ids == {i \in DOMAIN namespaces : i = n /\ namespaces[i].server = s} IN
        /\ namespaces' = Delete(namespaces, ids)
        /\ chats' = Delete(chats, {c \in DOMAIN chats : chats[c] \in ids})
        /\ told' = {[kind |-> "deleted", server |-> s, id |-> n]}
        /\ excused' = excused \cup {namespaces[i].server : i \in ids}
        /\ UNCHANGED <<reqs, nextNamespace, nextChat>> /\ KeepServers
  BY DEF DeleteNamespace
<1> DEFINE ids == {i \in DOMAIN namespaces : i = n /\ namespaces[i].server = s}
<1>2. TypeOK' /\ Evolves /\ NamesStay
  <2>1. ids \subseteq {i \in DOMAIN namespaces : namespaces[i].server = s}
    OBVIOUS
  <2> QED
    BY <1>1, <2>1, NamespaceDeleted DEF IInv
<1>3. reqs' = reqs /\ servers' = servers
  BY <1>1 DEF KeepServers
<1>4. \A p \in Request : HandlerFits(p)'
  BY <1>2, <1>3, HandlerStays DEF IInv
<1>5. BareServersAreExcused'
  <2>1. ASSUME NEW t \in DOMAIN servers PROVE Furnished(t)'
    BY <1>2, <1>3, FurnishedStays
  <2>2. \A e \in told' : e.kind # "created"
    BY <1>1
  <2> QED
    BY <1>3, <2>1, <2>2 DEF BareServersAreExcused, Furnished
<1>6. AnswersAreTrue'
  <2>1. ~ (n \in DOMAIN namespaces' /\ namespaces'[n].server = s)
    BY <1>1 DEF Delete
  <2> QED
    BY <1>1, <2>1 DEF AnswersAreTrue
<1>7. ListsShowWhatLasted'
  BY <1>1 DEF ListsShowWhatLasted
<1> QED
  BY <1>2, <1>4, <1>5, <1>6, <1>7 DEF IInv

\* The other updates of the row that have not read it back are overtaken.
LEMMA UpdateNamespaceStep ==
  ASSUME IInv, NEW r \in Request, UpdateNamespace(r), Remember
  PROVE  IInv'
<1>1. PICK n \in DOMAIN namespaces, name \in Name :
        /\ namespaces' = Update(namespaces, {n}, "name", name)
        /\ UpdateAndRead(r, n, name)
  BY DEF UpdateNamespace
<1> DEFINE h == [op |-> "update", pc |-> "read", namespace |-> n, name |-> name,
                 overtaken |-> FALSE]
           Late(q) == At(q, "update", "read") /\ reqs[q].namespace = n
<1>2. n \in Nat /\ n < nextNamespace /\ nextNamespace' = nextNamespace
  <2>1. n \in 1 .. (nextNamespace - 1) /\ nextNamespace \in Nat
    BY NamespacesAssumption DEF IInv, TypeOK
  <2> QED
    BY <2>1 DEF UpdateNamespace
<1>3. h \in UpdateHandler
  BY <1>2 DEF UpdateHandler
<1>4. /\ reqs'[r] = h
      /\ \A q \in Request \ {r} :
           reqs'[q] = IF Late(q) THEN [reqs[q] EXCEPT !.overtaken = TRUE]
                      ELSE reqs[q]
  BY <1>1 DEF UpdateAndRead, Overtake
<1>5. ASSUME NEW q \in Request, Late(q)
      PROVE  /\ [reqs[q] EXCEPT !.overtaken = TRUE] \in UpdateHandler
             /\ [reqs[q] EXCEPT !.overtaken = TRUE].op = "update"
             /\ [reqs[q] EXCEPT !.overtaken = TRUE].overtaken = TRUE
             /\ [reqs[q] EXCEPT !.overtaken = TRUE].namespace = n
  <2>1. reqs[q] \in UpdateHandler
    BY <1>5, HandlerKinds DEF IInv, At
  <2> QED
    BY <1>5, <2>1 DEF UpdateHandler
<1>6. reqs' \in [Request -> Handler \cup {Idle}]
  <2>1. \A q \in Request : reqs'[q] \in Handler \cup {Idle}
    BY <1>3, <1>4, <1>5 DEF Handler, IInv, TypeOK
  <2>2. reqs' = [q \in Request |-> reqs'[q]]
    BY <1>1 DEF UpdateAndRead, Overtake
  <2> QED
    BY <2>1, <2>2
<1>7. /\ TypeOK' /\ Evolves
      /\ DOMAIN namespaces' = DOMAIN namespaces
      /\ namespaces'[n].name = name
      /\ \A i \in DOMAIN namespaces \ {n} : namespaces'[i] = namespaces[i]
  BY <1>1, <1>6, NamespaceRenamed DEF IInv, UpdateNamespace, Silent
<1>8. HandlerFits(r)'
  BY <1>2, <1>4, <1>7
     DEF HandlerFits, CreatorFits, UpdaterFits, HistoryFits, ListerFits
<1>9. ASSUME NEW q \in Request \ {r} PROVE HandlerFits(q)'
  <2>1. CASE Late(q)
    <3>1. reqs'[q] = [reqs[q] EXCEPT !.overtaken = TRUE]
      BY <1>4, <2>1
    <3>2. /\ reqs'[q].op = "update" /\ reqs'[q].overtaken = TRUE
          /\ reqs'[q].namespace = n
      BY <1>5, <2>1, <3>1
    <3> QED
      BY <1>2, <3>2
         DEF HandlerFits, CreatorFits, UpdaterFits, HistoryFits, ListerFits
  <2>2. CASE ~ Late(q)
    <3>1. reqs'[q] = reqs[q]
      BY <1>4, <2>2
    <3>2. UpdaterFits(q)'
      <4>1. CASE reqs[q].op = "update"
        <5>1. reqs[q].namespace # n
          BY <2>2, <4>1, HandlerKinds DEF IInv, UpdateHandler, At
        <5> QED
          BY <1>2, <1>7, <3>1, <5>1 DEF IInv, HandlerFits, UpdaterFits
      <4>2. CASE reqs[q].op # "update"
        BY <3>1, <4>2 DEF UpdaterFits
      <4> QED
        BY <4>1, <4>2
    <3>3. HistoryFits(q)'
      <4>1. CASE reqs[q].op = "list"
        BY <1>7, <3>1, <4>1, HistoryStep DEF IInv, HandlerFits
      <4>2. CASE reqs[q].op # "list"
        BY <3>1, <4>2 DEF HistoryFits
      <4> QED
        BY <4>1, <4>2
    <3> QED
      BY <1>7, <3>1, <3>2, <3>3, CreatorStays, ListerStays DEF IInv, HandlerFits
  <2> QED
    BY <2>1, <2>2
<1>10. BareServersAreExcused' /\ ListsShowWhatLasted' /\ AnswersAreTrue'
  <2>1. told' = {} /\ DOMAIN servers' = DOMAIN servers
    BY DEF UpdateNamespace, Silent, KeepServers
  <2>2. ASSUME NEW q \in Request, reqs[q].op = "create"
        PROVE  reqs'[q] = reqs[q]
    <3>1. reqs[r].op # "create" /\ ~ Late(q)
      BY <2>2 DEF UpdateNamespace, Idle, At
    <3> QED
      BY <1>4, <2>2, <3>1
  <2> QED
    BY <1>7, <2>1, <2>2, QuietStep
<1> QED
  BY <1>7, <1>8, <1>9, <1>10 DEF IInv

LEMMA ReadBackStep ==
  ASSUME IInv, NEW r \in Request, ReadBack(r), Remember
  PROVE  IInv'
<1> DEFINE q == reqs[r]
           found == FindOne({q.namespace} \cap DOMAIN namespaces)
<1>1. q \in UpdateHandler /\ q.op = "update"
  BY HandlerKinds DEF IInv, ReadBack, At
<1>2. /\ HandlerFits(r)'
      /\ \A p \in Request \ {r} : reqs'[p] = reqs[p]
      /\ reqs' \in [Request -> Handler \cup {Idle}]
  BY Finished DEF IInv, ReadBack
<1>3. UNCHANGED tables /\ excused' = excused
  BY DEF ReadBack
<1>4. TypeOK' /\ Evolves /\ NamesStay
  BY <1>2, <1>3, SameTables, TablesStay DEF IInv
<1>5. \A p \in Request : HandlerFits(p)'
  BY <1>2, <1>4, OneMoves
<1>6. CASE q.namespace \notin DOMAIN namespaces
  <2>1. told' = {}
    <3>1. {q.namespace} \cap DOMAIN namespaces = {}
      BY <1>6
    <3> QED
      BY <3>1 DEF ReadBack, FindOne
  <2>2. \A p \in Request : reqs[p].op = "create" => reqs'[p] = reqs[p]
    BY <1>1, <1>2
  <2>3. BareServersAreExcused' /\ ListsShowWhatLasted' /\ AnswersAreTrue'
    BY <1>3, <1>4, <2>1, <2>2, QuietStep DEF tables
  <2> QED
    BY <1>4, <1>5, <2>3 DEF IInv
<1>7. CASE q.namespace \in DOMAIN namespaces
  <2>1. found = q.namespace /\ q.namespace # Null
    <3>1. {q.namespace} \cap DOMAIN namespaces = {q.namespace}
      BY <1>7
    <3>2. q.namespace \in Nat /\ q.namespace <= q.namespace
      BY <1>1 DEF UpdateHandler
    <3>3. Lowest({q.namespace}) = q.namespace
      BY <3>2 DEF Lowest
    <3>4. q.namespace # Null
      BY <1>7, NamespacesAssumption DEF IInv, TypeOK, Null
    <3> QED
      BY <3>1, <3>3, <3>4 DEF FindOne
  <2>2. told' = {[kind |-> "updated", id |-> q.namespace,
                 name |-> namespaces[q.namespace].name, asked |-> q.name,
                 overtaken |-> q.overtaken]}
    BY <2>1 DEF ReadBack
  <2>3. namespaces[q.namespace].name = q.name \/ q.overtaken
    BY <1>1, <1>7 DEF IInv, HandlerFits, UpdaterFits
  <2>4. AnswersAreTrue'
    BY <2>2, <2>3 DEF AnswersAreTrue
  <2>5. ListsShowWhatLasted'
    BY <2>2 DEF ListsShowWhatLasted
  <2>6. BareServersAreExcused'
    <3>1. ASSUME NEW s \in DOMAIN servers PROVE Furnished(s)'
      BY <1>1, <1>2, <1>4, FurnishedStays
    <3> QED
      BY <1>3, <2>2, <3>1 DEF BareServersAreExcused, Furnished, tables
  <2> QED
    BY <1>4, <1>5, <2>4, <2>5, <2>6 DEF IInv
<1> QED
  BY <1>6, <1>7
-----------------------------------------------------------------------------
(***************************************************************************)
(* The steps of a listing, and failures.                                   *)
(***************************************************************************)
\* A query of a listing changes what its handler knows, and nothing else.
LEMMA QueryStep ==
  ASSUME IInv, NEW r \in Request, NEW h \in ListHandler,
         reqs' = [reqs EXCEPT ![r] = h], reqs[r].op # "create",
         UNCHANGED tables, Silent, Remember,
         ListerFits(r)'
  PROVE  IInv'
<1>1. /\ reqs'[r] = h /\ reqs'[r].op = "list"
      /\ \A p \in Request \ {r} : reqs'[p] = reqs[p]
      /\ reqs' \in [Request -> Handler \cup {Idle}]
  <2>1. h \in Handler \cup {Idle} /\ h.op = "list"
    BY DEF Handler, ListHandler
  <2> QED
    BY <2>1, Moved DEF IInv
<1>2. TypeOK' /\ Evolves /\ NamesStay
  BY <1>1, SameTables, TablesStay DEF IInv, Silent
<1>3. HandlerFits(r)'
  <2>1. HistoryFits(r)'
    BY <1>1, <1>2, HistoryStep DEF IInv, HandlerFits
  <2> QED
    BY <1>1, <2>1 DEF HandlerFits, CreatorFits, UpdaterFits
<1>4. \A p \in Request : HandlerFits(p)'
  BY <1>1, <1>2, <1>3, OneMoves
<1>5. BareServersAreExcused' /\ ListsShowWhatLasted' /\ AnswersAreTrue'
  <2>1. told' = {} /\ servers' = servers
    BY DEF Silent, tables
  <2>2. \A p \in Request : reqs[p].op = "create" => reqs'[p] = reqs[p]
    BY <1>1
  <2> QED
    BY <1>2, <2>1, <2>2, QuietStep
<1> QED
  BY <1>2, <1>4, <1>5 DEF IInv

LEMMA StartListStep ==
  ASSUME IInv, NEW r \in Request, StartList(r), Remember
  PROVE  IInv'
<1>1. PICK s \in DOMAIN servers :
        reqs' = [reqs EXCEPT ![r] =
          [op |-> "list", pc |-> "find", server |-> s, wanted |-> {},
           listed |-> {}, chats |-> {}]]
  BY DEF StartList
<1> DEFINE h == [op |-> "list", pc |-> "find", server |-> s, wanted |-> {},
                 listed |-> {}, chats |-> {}]
<1>2. s \in Nat \ {0}
  <2>1. DOMAIN servers = 1 .. (nextServer - 1) /\ nextServer \in Nat
    BY NamespacesAssumption DEF IInv, TypeOK
  <2> QED
    BY <2>1
<1>3. h \in ListHandler
  BY <1>2 DEF ListHandler
<1>4. reqs'[r] = h
  BY <1>1 DEF IInv, TypeOK
<1>5. ListerFits(r)'
  BY <1>4 DEF ListerFits
<1>6. reqs[r].op # "create" /\ UNCHANGED tables /\ Silent
  BY DEF StartList, Idle
<1> QED
  BY <1>1, <1>3, <1>5, <1>6, QueryStep

\* What the tables say is a fact.
LEMMA FactsTyped ==
  ASSUME TypeOK
  PROVE  NamespaceFacts \subseteq NamespaceFact /\ ChatFacts \subseteq ChatFact
<1>1. /\ \A n \in DOMAIN namespaces : n \in Nat /\ namespaces[n].server \in Nat
      /\ \A c \in DOMAIN chats : c \in Nat /\ chats[c] \in DOMAIN namespaces
  BY NamespacesAssumption DEF TypeOK, NamespaceRow
<1> QED
  BY <1>1 DEF NamespaceFacts, ChatFacts, NamespaceFact, ChatFact

LEMMA FindNamespacesStep ==
  ASSUME IInv, NEW r \in Request, FindNamespaces(r), Remember
  PROVE  IInv'
<1> DEFINE q == reqs[r]
           found == {f \in NamespaceFacts : f.server = q.server}
           h == [q EXCEPT !.pc = "load", !.listed = found,
                          !.wanted = {f.id : f \in found}]
<1>1. q \in ListHandler /\ q.op = "list"
  BY HandlerKinds DEF IInv, FindNamespaces, At
<1>2. found \subseteq NamespaceFact /\ {f.id : f \in found} \subseteq Nat
  BY FactsTyped DEF IInv, NamespaceFact
<1>3. /\ h \in ListHandler /\ h.server = q.server /\ h.chats = q.chats
      /\ h.listed = found /\ h.wanted = {f.id : f \in found} /\ h.op = "list"
  BY <1>1, <1>2 DEF ListHandler
<1>4. reqs' = [reqs EXCEPT ![r] = h] /\ UNCHANGED tables /\ Silent
  BY DEF FindNamespaces
<1>5. reqs'[r] = h
  BY <1>4 DEF IInv, TypeOK
<1>6. TypeOK' /\ Evolves
  <2>1. reqs' \in [Request -> Handler \cup {Idle}]
    BY <1>3, <1>4, Moved DEF IInv, Handler
  <2> QED
    BY <1>4, <2>1, SameTables, TablesStay DEF IInv, Silent
<1>7. /\ HistoryFits(r)' /\ ever[r] \subseteq ever'[r]
      /\ NamespaceFacts' = NamespaceFacts /\ ChatFacts' = ChatFacts
      /\ namespaces' = namespaces
  BY <1>1, <1>3, <1>4, <1>5, <1>6, HistoryStep, TablesStay
     DEF IInv, HandlerFits, Silent, tables
<1>8. found \cup q.chats \subseteq ever'[r]
  BY <1>1, <1>7 DEF IInv, HandlerFits, HistoryFits, ListerFits, Facts
<1>9. ASSUME NEW f \in ChatFacts, namespaces[f.namespace].server = q.server
      PROVE  f.namespace \in h.wanted
  <2>1. PICK c \in DOMAIN chats : f = [id |-> c, namespace |-> chats[c]]
    BY DEF ChatFacts
  <2>2. f.namespace \in DOMAIN namespaces
    BY <2>1 DEF IInv, TypeOK
  <2>3. [id |-> f.namespace, server |-> namespaces[f.namespace].server] \in found
    BY <1>9, <2>2 DEF NamespaceFacts
  <2> QED
    BY <1>3, <2>3
<1>10. ListerFits(r)'
  <2>1. \A f \in held'[r] \cap NamespaceFacts' :
          f.server = h.server => f \in h.listed
    BY <1>3, <1>7
  <2>2. \A f \in held'[r] \cap ChatFacts' :
          namespaces'[f.namespace].server = h.server =>
            f \in h.chats \/ f.namespace \in h.wanted
    BY <1>3, <1>7, <1>9
  <2>3. h.listed \cup h.chats \subseteq ever'[r]
    BY <1>3, <1>8
  <2> HIDE DEF h
  <2> QED
    BY <1>5, <2>1, <2>2, <2>3 DEF ListerFits
<1> QED
  BY <1>1, <1>3, <1>4, <1>10, QueryStep

LEMMA LoadChatsStep ==
  ASSUME IInv, NEW r \in Request, LoadChats(r), Remember
  PROVE  IInv'
<1> DEFINE q == reqs[r]
<1>1. q \in ListHandler /\ q.op = "list" /\ q.pc = "load"
  BY HandlerKinds DEF IInv, LoadChats, At
<1>2. PICK n \in q.wanted :
        reqs' = [reqs EXCEPT ![r].wanted = @ \ {n},
                   ![r].chats = @ \cup {f \in ChatFacts : f.namespace = n}]
  BY DEF LoadChats
<1> DEFINE loaded == {f \in ChatFacts : f.namespace = n}
           h == [q EXCEPT !.wanted = q.wanted \ {n}, !.chats = q.chats \cup loaded]
<1>3. loaded \subseteq ChatFact
  BY FactsTyped DEF IInv
<1>4. /\ h \in ListHandler /\ h.server = q.server /\ h.op = "list"
      /\ h.chats = q.chats \cup loaded
      /\ h.listed = q.listed /\ h.wanted = q.wanted \ {n}
  BY <1>1, <1>3 DEF ListHandler
<1>5. reqs' = [reqs EXCEPT ![r] = h] /\ UNCHANGED tables /\ Silent
  BY <1>2 DEF LoadChats
<1>6. reqs'[r] = h
  BY <1>5 DEF IInv, TypeOK
<1>7. TypeOK' /\ Evolves
  <2>1. reqs' \in [Request -> Handler \cup {Idle}]
    BY <1>4, <1>5, Moved DEF IInv, Handler
  <2> QED
    BY <1>5, <2>1, SameTables, TablesStay DEF IInv, Silent
<1>8. /\ HistoryFits(r)'
      /\ held'[r] \subseteq held[r] /\ ever[r] \subseteq ever'[r]
      /\ NamespaceFacts' = NamespaceFacts /\ ChatFacts' = ChatFacts
      /\ namespaces' = namespaces
  BY <1>1, <1>4, <1>5, <1>6, <1>7, HistoryStep, TablesStay
     DEF IInv, HandlerFits, Silent, tables
<1>9. /\ Facts \subseteq ever[r] /\ q.listed \cup q.chats \subseteq ever[r]
      /\ \A f \in held[r] \cap NamespaceFacts :
           f.server = q.server => f \in q.listed
      /\ \A f \in held[r] \cap ChatFacts :
           namespaces[f.namespace].server = q.server =>
             f \in q.chats \/ f.namespace \in q.wanted
  BY <1>1 DEF IInv, HandlerFits, HistoryFits, ListerFits
<1>10. ListerFits(r)'
  <2>1. \A f \in held'[r] \cap NamespaceFacts' :
          f.server = h.server => f \in h.listed
    BY <1>4, <1>8, <1>9
  <2>2. ASSUME NEW f \in held'[r] \cap ChatFacts',
               namespaces'[f.namespace].server = h.server
        PROVE  f \in h.chats \/ f.namespace \in h.wanted
    BY <1>4, <1>8, <1>9, <2>2
  <2>3. h.listed \cup h.chats \subseteq ever'[r]
    BY <1>4, <1>8, <1>9 DEF Facts
  <2> HIDE DEF h
  <2> QED
    BY <1>6, <2>1, <2>2, <2>3 DEF ListerFits
<1> QED
  BY <1>1, <1>4, <1>5, <1>10, QueryStep

LEMMA EmitListStep ==
  ASSUME IInv, NEW r \in Request, EmitList(r), Remember
  PROVE  IInv'
<1> DEFINE q == reqs[r]
<1>1. q.op = "list" /\ q.pc = "load" /\ q.wanted = {}
  BY DEF EmitList, At
<1>2. /\ HandlerFits(r)'
      /\ \A p \in Request \ {r} : reqs'[p] = reqs[p]
      /\ reqs' \in [Request -> Handler \cup {Idle}]
  BY Finished DEF IInv, EmitList
<1>3. UNCHANGED tables /\ excused' = excused
  BY DEF EmitList
<1>4. /\ TypeOK' /\ Evolves /\ NamesStay
      /\ NamespaceFacts' = NamespaceFacts /\ ChatFacts' = ChatFacts
  BY <1>2, <1>3, SameTables, TablesStay DEF IInv
<1>5. \A p \in Request : HandlerFits(p)'
  BY <1>2, <1>4, OneMoves
<1>6. told' = {[kind |-> "list", server |-> q.server, listed |-> q.listed,
                chats |-> q.chats, held |-> held[r], ever |-> ever[r]]}
  BY DEF EmitList
<1>7. BareServersAreExcused'
  <2>1. ASSUME NEW s \in DOMAIN servers PROVE Furnished(s)'
    BY <1>1, <1>2, <1>4, FurnishedStays
  <2>2. \A e \in told' : e.kind # "created"
    BY <1>6
  <2> QED
    BY <1>3, <2>1, <2>2 DEF BareServersAreExcused, Furnished, tables
<1>8. AnswersAreTrue'
  BY <1>6 DEF AnswersAreTrue
<1>9. ListsShowWhatLasted'
  <2>1. /\ q.listed \cup q.chats \subseteq ever[r]
        /\ \A f \in held[r] \cap NamespaceFacts :
             f.server = q.server => f \in q.listed
        /\ \A f \in held[r] \cap ChatFacts :
             namespaces[f.namespace].server = q.server => f \in q.chats
    BY <1>1 DEF IInv, HandlerFits, ListerFits
  <2>2. ASSUME NEW f \in held[r] \cap ChatFacts,
               namespaces[f.namespace].server = q.server
        PROVE  \E g \in q.listed : g.id = f.namespace
    <3> DEFINE g == [id |-> f.namespace,
                     server |-> namespaces[f.namespace].server]
    <3>1. g \in held[r]
      BY <1>1 DEF IInv, HandlerFits, HistoryFits
    <3>2. g \in NamespaceFacts
      BY DEF IInv, TypeOK, ChatFacts, NamespaceFacts
    <3> QED
      BY <2>1, <2>2, <3>1, <3>2
  <2>3. namespaces' = namespaces
    BY <1>3 DEF tables
  <2> QED
    BY <1>4, <1>6, <2>1, <2>2, <2>3 DEF ListsShowWhatLasted
<1> QED
  BY <1>4, <1>5, <1>7, <1>8, <1>9 DEF IInv

LEMMA FailStep ==
  ASSUME IInv, NEW r \in Request, Fail(r), Remember
  PROVE  IInv'
<1> DEFINE q == reqs[r]
<1>1. /\ HandlerFits(r)'
      /\ \A p \in Request \ {r} : reqs'[p] = reqs[p]
      /\ reqs' \in [Request -> Handler \cup {Idle}]
  BY Finished DEF IInv, Fail
<1>2. /\ UNCHANGED tables /\ told' = {} /\ excused \subseteq excused'
      /\ q.op = "create" => q.server \in excused'
  BY DEF Fail
<1>3. TypeOK' /\ Evolves /\ NamesStay
  BY <1>1, <1>2, SameTables, TablesStay DEF IInv
<1>4. \A p \in Request : HandlerFits(p)'
  BY <1>1, <1>3, OneMoves
<1>5. BareServersAreExcused' /\ ListsShowWhatLasted' /\ AnswersAreTrue'
  <2>1. ASSUME NEW s \in DOMAIN servers, NEW p \in Request,
               reqs[p].op = "create", reqs[p].server = s
        PROVE  \/ reqs'[p].op = "create" /\ reqs'[p].server = s
               \/ Furnished(s)'
    BY <1>1, <1>2, <2>1 DEF Furnished
  <2>2. servers' = servers
    BY <1>2 DEF tables
  <2> QED
    BY <1>2, <1>3, <2>1, <2>2, QuietStep
<1> QED
  BY <1>3, <1>4, <1>5 DEF IInv
-----------------------------------------------------------------------------
\* Every step keeps it.
LEMMA NextIInv == IInv /\ [Next]_vars => IInv'
<1> SUFFICES ASSUME IInv, [Next]_vars
             PROVE  IInv'
  OBVIOUS
<1>1. CASE UNCHANGED vars
  <2>1. UNCHANGED <<servers, nextServer, namespaces, nextNamespace, chats,
                    nextChat, reqs, told, held, ever, excused>>
    BY <1>1 DEF vars, tables
  <2>2. TypeOK'
    BY <2>1 DEF IInv, TypeOK
  <2>3. NamespaceFacts' = NamespaceFacts /\ ChatFacts' = ChatFacts
    BY <2>1 DEF NamespaceFacts, ChatFacts
  <2>4. ASSUME NEW r \in Request PROVE HandlerFits(r)'
    BY <2>1, <2>3 DEF IInv, HandlerFits, CreatorFits, UpdaterFits, HistoryFits,
       ListerFits, Facts
  <2>5. BareServersAreExcused' /\ ListsShowWhatLasted' /\ AnswersAreTrue'
    BY <2>1, <2>3 DEF IInv, BareServersAreExcused, ListsShowWhatLasted,
       AnswersAreTrue
  <2> QED
    BY <2>2, <2>4, <2>5 DEF IInv
<1>2. CASE Next
  <2>1. Remember
    BY <1>2 DEF Next
  <2>2. CASE Administer
    BY <2>1, <2>2, CreateNamespaceStep, DeleteNamespaceStep, CreateChatStep
       DEF Administer
  <2>3. ASSUME NEW r \in Request,
               Create(r) \/ UpdateNamespace(r) \/ ReadBack(r) \/ List(r) \/ Fail(r)
        PROVE  IInv'
    <3>1. CASE Create(r)
      BY <2>1, <3>1, CreateServerStep, SubscribeOwnerStep, CreateGeneralStep,
         CreateGeneralChatStep, NamespaceGoneStep DEF Create
    <3>2. CASE UpdateNamespace(r) \/ ReadBack(r) \/ Fail(r)
      BY <2>1, <3>2, UpdateNamespaceStep, ReadBackStep, FailStep
    <3>3. CASE List(r)
      BY <2>1, <3>3, StartListStep, FindNamespacesStep, LoadChatsStep,
         EmitListStep DEF List
    <3> QED
      BY <2>3, <3>1, <3>2, <3>3
  <2> QED
    BY <1>2, <2>2, <2>3 DEF Next
<1> QED
  BY <1>1, <1>2

\* The conjunction is inductive.
THEOREM Invariance == Spec => []IInv
BY InitIInv, NextIInv, PTL DEF Spec

\* Tables and handlers keep their types, and the foreign keys hold.
THEOREM TypeCorrectness == Spec => []TypeOK
<1>1. IInv => TypeOK
  BY DEF IInv
<1> QED
  BY <1>1, Invariance, PTL

\* A server without a chat has an excuse, and what server:created announces is
\* there and belongs together.
THEOREM BareServers == Spec => []BareServersAreExcused
<1>1. IInv => BareServersAreExcused
  BY DEF IInv
<1> QED
  BY <1>1, Invariance, PTL

\* A listing made of several queries misses nothing that lasted from its arrival
\* on, and shows nothing that was at no moment there.
THEOREM Listings == Spec => []ListsShowWhatLasted
<1>1. IInv => ListsShowWhatLasted
  BY DEF IInv
<1> QED
  BY <1>1, Invariance, PTL

\* A namespace reported as deleted is gone from that server, and one reported as
\* renamed was given that name, unless another update overtook this one.
THEOREM Answers == Spec => []AnswersAreTrue
<1>1. IInv => AnswersAreTrue
  BY DEF IInv
<1> QED
  BY <1>1, Invariance, PTL
=============================================================================
