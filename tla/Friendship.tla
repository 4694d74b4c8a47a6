----------------------------- MODULE Friendship -----------------------------
(***************************************************************************)
(* Friendship as the rest of the program uses it: AllowToMessageHimGuard   *)
(* before a message is stored, the list of one's friends, the mutual       *)
(* friends of a conversation and the two lists of pending invitations.     *)
(* Each is made of several queries, between which the table changes as     *)
(* InvitationLifecycle allows: the module Friends implements it, and what  *)
(* holds here depends on nothing else about invitations.                   *)
(***************************************************************************)
EXTENDS InvitationLifecycle

CONSTANTS
  Account,          \* the users
  Use               \* the handlers of this module that can be in flight

VARIABLES
  rows,             \* who sends each invitation to whom; it never changes
  anyone_dm,        \* the column of account
  uses,             \* where each use is suspended, and what it has found
  seen              \* history: what was so since the use arrived

vars == <<status, rows, anyone_dm, uses, seen>>

Side == {"sender", "receiver"}

\* A mutual friend is in two lists, the first and the second account's.
ListUse ==
  [kind : {"friends", "mutual", "received", "sent"}, me : Account, him : Account,
   todo : SUBSET ({1, 2} \X Side), found : SUBSET ({1, 2} \X Invitation)]

WriteUse ==
  [kind : {"write"}, pc : {"privacy", "from_him", "from_me", "store", "refuse"},
   me : Account, him : Account]

NoUse == [kind |-> "none"]

\* held, ever: the rows with the status the use looks for, all along or at some
\* moment; opened, shut: the receiver's anyone_dm was true, was false; friends:
\* the two accounts were friends all along, if not by the same row.
Seen ==
  [held : SUBSET Invitation, ever : SUBSET Invitation,
   opened : BOOLEAN, shut : BOOLEAN, friends : BOOLEAN]

NothingSeen ==
  [held |-> {}, ever |-> {}, opened |-> FALSE, shut |-> FALSE, friends |-> FALSE]

TypeOK ==
  /\ status \in [Invitation -> Status]
  /\ rows \in [Invitation -> [sender : Account, receiver : Account]]
  /\ anyone_dm \in [Account -> BOOLEAN]
  /\ uses \in [Use -> ListUse \cup WriteUse \cup {NoUse}]
  /\ seen \in [Use -> Seen]

\* The status a use looks for.
Wanted(use) ==
  IF use.kind \in {"received", "sent"} THEN "pending" ELSE "accepted"

\* The rows that match where status and sender, status and receiver, or all.
Holding(request_status) == {i \in Invitation : status[i] = request_status}

FromTo(me, him) ==
  {i \in Invitation : rows[i].sender = me /\ rows[i].receiver = him}

Between(a, b) == FromTo(a, b) \cup FromTo(b, a)

Mine(side, me) == {i \in Invitation : rows[i][side] = me}

Friend(i, me) ==
  IF rows[i].sender = me THEN rows[i].receiver ELSE rows[i].sender

Of(use, list) == IF list = 1 THEN use.me ELSE use.him
-----------------------------------------------------------------------------
FriendshipInit ==
  /\ Init
  /\ rows \in [Invitation ->
       {p \in [sender : Account, receiver : Account] : p.sender # p.receiver}]
  /\ anyone_dm = [a \in Account |-> TRUE]
  /\ uses = [u \in Use |-> NoUse]
  /\ seen = [u \in Use |-> NothingSeen]

Done(u) == uses' = [uses EXCEPT ![u] = NoUse]

\* PATCH account/privacy.  Without a value there is nothing to update, and
\* TypeORM throws.
UpdatePrivacy ==
  /\ \E a \in Account, value \in BOOLEAN :
       anyone_dm' = [anyone_dm EXCEPT ![a] = value]
  /\ UNCHANGED uses

(***************************************************************************)
(* AllowToMessageHimGuard, and what sendMessage does once it has passed.   *)
(***************************************************************************)
StartWrite(u) ==
  /\ uses[u] = NoUse
  /\ \E me, him \in Account :
       uses' = [uses EXCEPT ![u] =
         [kind |-> "write", pc |-> "privacy", me |-> me, him |-> him]]
  /\ UNCHANGED anyone_dm

Writing(u, label) == uses[u].kind = "write" /\ uses[u].pc = label

Goto(u, label) == uses' = [uses EXCEPT ![u].pc = label]

ReadPrivacy(u) ==
  /\ Writing(u, "privacy")
  /\ IF anyone_dm[uses[u].him] THEN Goto(u, "store")
     ELSE Goto(u, "from_him")
  /\ UNCHANGED anyone_dm

\* Slip: the first lookup takes the direction of the second.
FindFromMeFirst(u) ==
  /\ Writing(u, "from_him")
  /\ IF Holding("accepted") \cap FromTo(uses[u].me, uses[u].him) # {}
     THEN Goto(u, "store") ELSE Goto(u, "from_me")
  /\ UNCHANGED anyone_dm

FindFromHim(u) ==
  /\ Writing(u, "from_him")
  /\ IF Holding("accepted") \cap FromTo(uses[u].him, uses[u].me) # {}
     THEN Goto(u, "store") ELSE Goto(u, "from_me")
  /\ UNCHANGED anyone_dm

\* Slip: any invitation will do.
FindFromMeAny(u) ==
  /\ Writing(u, "from_me")
  /\ IF FromTo(uses[u].me, uses[u].him) # {} THEN Goto(u, "store")
     ELSE Goto(u, "refuse")
  /\ UNCHANGED anyone_dm

\* Slip: the second lookup repeats the direction of the first.
FindFromHimAgain(u) ==
  /\ Writing(u, "from_me")
  /\ IF Holding("accepted") \cap FromTo(uses[u].him, uses[u].me) # {}
     THEN Goto(u, "store") ELSE Goto(u, "refuse")
  /\ UNCHANGED anyone_dm

FindFromMe(u) ==
  /\ Writing(u, "from_me")
  /\ IF Holding("accepted") \cap FromTo(uses[u].me, uses[u].him) # {}
     THEN Goto(u, "store") ELSE Goto(u, "refuse")
  /\ UNCHANGED anyone_dm

\* The statements of module DirectMessages follow, and do not look again; or the
\* guard throws.
EndWrite(u) ==
  /\ Writing(u, "store") \/ Writing(u, "refuse")
  /\ Done(u)
  /\ UNCHANGED anyone_dm

(***************************************************************************)
(* The lists.  getMyFriends has two queries in flight at once, and         *)
(* findMutualFriends four; they are answered in any order.                 *)
(***************************************************************************)
Queries(kind) ==
  {q \in {1, 2} \X Side :
     /\ q[1] = 2 => kind = "mutual"
     /\ kind = "received" => q[2] = "receiver"
     /\ kind = "sent" => q[2] = "sender"}

StartList(u) ==
  /\ uses[u] = NoUse
  /\ \E kind \in {"friends", "mutual", "received", "sent"}, me, him \in Account :
       /\ kind # "mutual" => him = me
       /\ uses' = [uses EXCEPT ![u] =
            [kind |-> kind, me |-> me, him |-> him, todo |-> Queries(kind),
             found |-> {}]]
  /\ UNCHANGED anyone_dm

Listing(u) == uses[u].kind \in {"friends", "mutual", "received", "sent"}

\* Slip: only the invitations a user has sent make friends.
FindSent(u) ==
  /\ Listing(u)
  /\ \E q \in uses[u].todo :
       uses' = [uses EXCEPT ![u].todo = @ \ {q},
         ![u].found = @ \cup ({q[1]} \X
           (Mine("sender", Of(uses[u], q[1])) \cap Holding(Wanted(uses[u]))))]
  /\ UNCHANGED anyone_dm

Find(u) ==
  /\ Listing(u)
  /\ \E q \in uses[u].todo :
       uses' = [uses EXCEPT ![u].todo = @ \ {q},
         ![u].found = @ \cup ({q[1]} \X
           (Mine(q[2], Of(uses[u], q[1])) \cap Holding(Wanted(uses[u]))))]
  /\ UNCHANGED anyone_dm

\* formatFriends of what the queries of one list have found.
FriendsIn(use, list) ==
  {Friend(i, Of(use, list)) :
     i \in {j \in Invitation : <<list, j>> \in use.found}}

MutualFriends(use) == FriendsIn(use, 1) \cap FriendsIn(use, 2)

Requests(use) == {i \in Invitation : <<1, i>> \in use.found}

AnswerList(u) ==
  /\ Listing(u)
  /\ uses[u].todo = {}
  /\ Done(u)
  /\ UNCHANGED anyone_dm

\* A query fails, and with it the handler.
FailUse(u) ==
  /\ uses[u] # NoUse
  /\ Done(u)
  /\ UNCHANGED anyone_dm
-----------------------------------------------------------------------------
Write(u) ==
  \/ StartWrite(u) \/ ReadPrivacy(u) \/ FindFromHim(u) \/ FindFromMe(u)
  \/ EndWrite(u)

List(u) == StartList(u) \/ Find(u) \/ AnswerList(u)

LifecycleStep == Next /\ UNCHANGED <<anyone_dm, uses>>

UseStep ==
  /\ UpdatePrivacy \/ \E u \in Use : Write(u) \/ List(u) \/ FailUse(u)
  /\ UNCHANGED status

\* What is so after the step, and what was before unless the use is new.
Remember ==
  seen' = [u \in Use |->
    LET use == uses'[u]
        new == uses[u] = NoUse
        now == {i \in Invitation : status'[i] = Wanted(use)}
        friends == use.kind = "write" /\ now \cap Between(use.me, use.him) # {} IN
    IF use = NoUse THEN NothingSeen
    ELSE [held |-> IF new THEN now ELSE seen[u].held \cap now,
          ever |-> IF new THEN now ELSE seen[u].ever \cup now,
          opened |-> \/ seen[u].opened
                     \/ use.kind = "write" /\ anyone_dm'[use.him],
          shut |-> \/ seen[u].shut
                   \/ use.kind = "write" /\ ~ anyone_dm'[use.him],
          friends |-> friends /\ (new \/ seen[u].friends)]]

FriendshipNext ==
  /\ LifecycleStep \/ UseStep
  /\ Remember
  /\ UNCHANGED rows

FriendshipSpec == FriendshipInit /\ [][FriendshipNext]_vars
-----------------------------------------------------------------------------
(***************************************************************************)
(* A message is stored only for a receiver who was open to anyone, or for  *)
(* accounts that were friends by one row, at some moment since it came:    *)
(* the guard may be overtaken, but it is never plain wrong.                *)
(***************************************************************************)
WritersWereAllowed ==
  \A u \in Use : Writing(u, "store") =>
    \/ seen[u].opened
    \/ seen[u].ever \cap Between(uses[u].me, uses[u].him) # {}

(***************************************************************************)
(* Nobody is refused who had a friendship that lasted through all three    *)
(* lookups of the guard, or whose receiver was open all the time.          *)
(***************************************************************************)
FriendsAreNotRefused ==
  \A u \in Use : Writing(u, "refuse") =>
    /\ seen[u].shut
    /\ seen[u].held \cap Between(uses[u].me, uses[u].him) = {}

(***************************************************************************)
(* Accounts that were friends at every moment are refused only when their  *)
(* friendship turned around: it was a row of either direction, each at     *)
(* some moment, so that a lookup of one direction after the other could    *)
(* miss both.                                                              *)
(***************************************************************************)
OnlyTurnedFriendsAreRefused ==
  \A u \in Use : Writing(u, "refuse") /\ seen[u].friends =>
    LET me == uses[u].me
        him == uses[u].him IN
    /\ seen[u].ever \cap FromTo(me, him) # {}
    /\ seen[u].ever \cap FromTo(him, me) # {}

(***************************************************************************)
(* A list that comes from two or four queries has every friend (mutual     *)
(* friend, pending invitation) by rows that lasted from the first query to *)
(* the last, and none that was so at no moment.                            *)
(***************************************************************************)
FriendsBy(ids, a) ==
  {Friend(i, a) : i \in ids \cap (Mine("sender", a) \cup Mine("receiver", a))}

ListsAreTrue ==
  \A u \in Use : Listing(u) /\ uses[u].todo = {} =>
    LET use == uses[u]
        held == seen[u].held
        ever == seen[u].ever IN
    /\ use.kind = "friends" =>
         /\ FriendsBy(held, use.me) \subseteq FriendsIn(use, 1)
         /\ FriendsIn(use, 1) \subseteq FriendsBy(ever, use.me)
    /\ use.kind = "mutual" =>
         /\ FriendsBy(held, use.me) \cap FriendsBy(held, use.him)
              \subseteq MutualFriends(use)
         /\ MutualFriends(use)
              \subseteq FriendsBy(ever, use.me) \cap FriendsBy(ever, use.him)
    /\ use.kind = "received" =>
         /\ held \cap Mine("receiver", use.me) \subseteq Requests(use)
         /\ Requests(use) \subseteq ever \cap Mine("receiver", use.me)
    /\ use.kind = "sent" =>
         /\ held \cap Mine("sender", use.me) \subseteq Requests(use)
         /\ Requests(use) \subseteq ever \cap Mine("sender", use.me)
=============================================================================
