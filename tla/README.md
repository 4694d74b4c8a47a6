# Verification of slack-ws

TLA+ models of the server, TLC runs over small instances of them, and TLAPS
proofs for instances of any size.  `PROJECT.json` lists the runs, the mutants,
the lines every definition models, the findings, the hazards and the theorems.

## The system

`apps/slack` is one Node process: NestJS gateways (Socket.IO namespaces) and
HTTP controllers over one PostgreSQL database.  `apps/auth` is a second process
that issues and verifies tokens.  What matters for the models:

- **One thread.** A handler runs until an `await`, then any other handler may
  run.  Every `await` of a database statement is a point where handlers
  interleave.
- **One statement at a time.** `AbstractRepoService`
  (`libs/database/src/abstract.repo.service.ts`) executes each operation as a
  statement of its own.  No handler opens a transaction, so a handler that fails
  leaves what it has written.
- **Guards, then validators, then the handler.** A WebSocket event passes its
  guards (which query the tables), the `ValidationPipe` (whose `IsExist...`
  validators query them again) and only then the handler.  What a guard saw may
  be stale when the handler acts.
- **`client.data` belongs to the socket.** Guards leave there what the handler
  reads; two events of one socket share it.
- **Rooms.** `server.to(room).emit` reaches the sockets that are in the room at
  that moment and nobody else.  There is no acknowledgement and no retry.

### Components

| component | state | operations | what makes it correct |
|---|---|---|---|
| repository service | the tables | create, save, findOne, find, findOneAndUpdate, findOneAndDelete, paginate | each is one statement; an update changes every matching row and fails if there is none; findOne answers the row with the lowest id |
| direct conversations (`dms/`) | `direct_conversations` | findOrCreateDm, list, delete, metadata | one conversation for two accounts, a preview that is the last message |
| messages (`messages/`) | `direct_conversation_messages`, rooms, `client.data` | connect, send, mark as read, mark as delivered, fetch | messages belong to the participants of their conversation; only the receiver marks; every message reaches the receiver's sockets |
| friends (`friends/`) | `friends_invitations` | send, accept, reject, cancel, remove, lists; over WebSocket and HTTP | an invitation is answered once, while pending; one pending invitation for two accounts; none between friends |
| permission to write | reads `account`, `friends_invitations` | AllowToMessageHimGuard | only friends write to accounts that do not accept anyone |
| servers (`servers/`) | `server`, `subscribers` | create, update, invite, kick, leave, change role, list | a server has its owner's subscription; roles change as the rules say |
| namespaces, server chats | `namespaces`, `server_chats`, ... | create, update, delete, list; chats mostly stubs | belong to an existing server; nobody whose role there is member changes them (whoever has no role may, see below) |
| authentication (`apps/auth`) | `account` | register, login, verify, account settings | one account per username |

Components call each other in three ways: services inject services
(`DmsService` uses `FriendsService`, the guards use both), handlers of different
components work on the same tables (deleting a conversation cascades to the
messages that other handlers are marking), and handlers emit to rooms that
`handleConnection` of some other socket has joined.

What is hard: handlers of one conversation, one pair of accounts or one socket
that interleave between two statements; rows deleted under a handler; a
connection handled while messages arrive; a statement that fails half way; and
answers that depend on the whole history of a pair of accounts, because old rows
are kept.

## The modules

| module | models | statements of the code |
|---|---|---|
| `Repository` | `AbstractRepoService` | one operator per statement, on tables as functions from ids to rows |
| `DirectMessages` | `sendMessage`, `findOrCreateDm`, `deleteConversation` and its guard | one action per statement; `reqs[r].pc` is the `await` the handler is suspended at |
| `MarkMessages` | the two mark events, their guards and validators | `data[s]` is `client.data` of socket `s`; the handler copies it at `Validate` |
| `MessageDelivery` | `handleConnection`, `emitUnreadMessages`, the emit of `sendMessage` | seen from the sockets of one user; `got[s]` is what the client on `s` has received |
| `InvitationLifecycle` | what the friends component promises of one invitation | abstract: a status that moves |
| `Friends` | `FriendsGateway`, its guards, `FriendsController` | one action per statement, `via` tells the channel |
| `Friendship` | `AllowToMessageHimGuard`, `account/privacy`, the lists of `FriendsService` | one action per query, over `InvitationLifecycle` |
| `RoleLifecycle` | what the servers component promises of an account's role on a server | abstract: the role the guards see |
| `Servers` | `ServersGateway`, its guards, `ServerGatewayService`, `ServerController` | one action per statement of a handler, the last guard's lookup is its arrival |
| `Namespaces` | the four inserts of `create:new:server`, `NamespacesGateway`, `NamespacesController`, `create:server:chat` | one action per statement; `told` is the event or answer just sent |
| `Accounts` | sign-up, sign-in, `TokenProvider`, the message patterns of `apps/auth` and the guards that send them | one action per statement or call; `answer` is who was just admitted or turned down |
| `Pagination` | `paginate`, `findConversationMessages`, `deleteMessage`, a client that follows the links | the two queries of a page, and what changes between them |
| `...Proofs` | | the theorems about the module of that name; `AdmissionProofs` those about `Accounts` and `Friendship`, `ReadingProofs` those about `MessageDelivery` and `Pagination` |
| `MC...` | | the instances TLC checks, one `.cfg` per run |

The modules meet where the code does.

- `MarkMessages` and `MessageDelivery` assume of the tables what
  `DirectMessages` guarantees, and each contains, as an action of its own, what
  the other handlers do to the rows it works on (`DeleteConversation` in both,
  `MarkDelivered` in `MessageDelivery`).  `PopulationAssumption` of
  `MarkMessages` (a message is between the two participants of its conversation)
  is theorem `MessageSafety` of `DirectMessagesProofs`.
- `Friendship` extends `InvitationLifecycle` and takes its steps as the only
  steps of the table.  `Friends` implements that lifecycle (`Refinement` of
  `FriendsProofs`), so what holds in `Friendship` holds of the rows the handlers
  of `Friends` write.
- `Servers` and `Namespaces` share the handler of `create:new:server`: the first
  follows its two inserts into the tables of servers and subscriptions, the
  second all four.  Whom a guard admits is decided in `Servers`, so `Namespaces`
  lets anybody ask.
- `Accounts` ends where the other modules begin: the user it admits is the user
  whose handlers they start.  `AdmissionProofs` extends it and `Friendship`: who
  is taken for which user, and to whom that user may write.
- `Pagination` looks at the rows of one conversation, stored by `sendMessage`.
  `ReadingProofs` extends it and `MessageDelivery`: the two ways a stored message
  reaches its reader.  (`Accounts` and `Pagination` name their `Init`, `Next`,
  `Spec` and `TypeOK` after themselves, so that they can be extended together
  with another component.)
- `Servers` implements `RoleLifecycle` for the role its guards see
  (`ImplementsRoles`), as `Friends` implements `InvitationLifecycle`.

### Correspondence

`DirectMessages`.  `StartSend` is the arrival after the guards.  `FindInitiated`
and `FindReceived` are the two `findOne` of `findExistingConversation`,
`CreateNewConversation` its insert, `SetLastMessage` the `findOneAndUpdate` of
`sendMessage`, `CreateMessage` the insert of the message.  `ConversationGone` is
the exception of either when the conversation was deleted since.  The second
`findOne` inside `findOneAndUpdate` changes nothing and its answer is not used
here, so it is no step.  `StartDelete`, `IsYourConversation` and
`DeleteConversation` are the HTTP deletion: guard, then `DELETE` with its
cascade.  Three histories no action reads: `since` in a handler, the serial at
arrival; `lost`, the conversations whose preview a failed handler left; and
`raced`, those whose preview was written while another handler was between its
two statements.

`MarkMessages`.  `Arrive`, `IsYourConversation`, `IsMessageOfConversation`,
`Validate`, `SetFlag`, `ReadBack` and `Emit` are the stations of one event: the
two in the middle are the two statements of `findOneAndUpdate`, an update that
throws if it changes no row and a query that may find none, since the
conversation can be deleted in between.  `row` is what it found, the flags of the
row or nothing, and goes out with the event.  `DeleteConversation` takes the
flags with the rows.  `Refuse` is an exception of whichever station fails its
lookup.  `emitted` is the event just sent, if there was one: the properties judge
each event when it is sent.  Two histories: `alone`, the events that have met no
other of their socket on the way to the handler, and `written`, the flags that
were ever set.

`MessageDelivery`.  `Connect` verifies the token and joins the room; the query of
the list (`Fetch`), the turns of the loop (`Acknowledge`, `AcknowledgeDeleted`)
and the final emit (`EmitUnreadMessages`) follow, a statement each.  Messages are
stored (`CreateMessage`) and emitted (`EmitMessage`) by handlers of other users.

`Friends`.  The two channels send by different rules: the guard looks at one row
of any status per direction (`GuardSent`, `GuardReceived`), the controller asks
three questions (`CheckAccepted`, `CheckPending`, `CheckReceived`).  Answers go
through `UpdateAnswer`, behind a guard on the WebSocket; `EmitAnswer` reads a row
back for the event.  Canceling over HTTP deletes the row (`Withdraw`).
`friend:remove` has an empty handler; only the controller removes.

`Friendship`.  `ReadPrivacy`, `FindFromHim` and `FindFromMe` are the lookups of
the guard, `Find` answers one of the queries that `getMyFriends` (two) and
`findMutualFriends` (four) have in flight at once, `AnswerList` formats them.
`UpdatePrivacy` is `PATCH account/privacy`.  `seen[u]` is history: what was so at
some moment, or all along, since the use arrived; `friends`, that the two accounts
were friends all along, by whichever rows.

`Servers`.  A handler arrives when its guards pass (`WsIsServerAdmin`,
`WsIsServerMember`, `WsIsServerOwner`, `IsServerOwner`, `GuardVisable`): the
lookups of the guards change nothing, so only the last one matters, and
`IsAllowedToInviteGuard` is split because it queries twice.  What follows is one
action per statement: `KickFindUser`, `KickFindAdmin` and `KickUser` of
`kickUser`, `LeaveFindUser` and `LeaveServer` of `leaveServer`, and so on.
`RoleOf` is what every guard sees: the role in the account's *first* row.
`SetRole` changes *all* of its rows.  `Roles` maps the first rows of all accounts
to the roles of `RoleLifecycle`: inserting the owner's row is its `Found`, an
invitation its `Invite`, `ChangeUserRole` its `Appoint`, `KickUser` its `Remove`,
`LeaveServer` its `Leave`; a row inserted after the first, or an update without a
row, is a stutter.  The controller's `POST /server` makes the
same two inserts as `createServer`, its `PATCH` the same update.

`Namespaces`.  `CreateServer`, `SubscribeOwner`, `CreateGeneral` and
`CreateGeneralChat` are the inserts of a new server; over HTTP only the first two
are made.  An event with one statement left after its guards is that statement
(`CreateNamespace`, `DeleteNamespace`, `CreateChat`).  `FindNamespaces` and
`LoadChats` are the query of a listing and the one per namespace behind
`await namespace.chats`.  `held`, `ever` and `excused` are histories.

`Accounts`.  A password stands for itself and its hashes: `Compare` is what the
library's `compare` tells apart.  A token is its payload; `presented` is history,
what its bearer had sent.  `StartVerify` is the call between the processes,
`VerifyToken` and `FindUser` what `apps/auth` does with it, and the answer is the
user of `request.user` or `client.data.user`.  `Fail` is a failed statement, a
lost or timed-out call, or a stop of either process.

`Pagination`.  `Find` and `Count` are `find` and `count` of `paginate`,
`TotalPages` its `Math.round`; after `Count` the client follows `next` if there
is one.

## The runs

Bounds are constants: ids the database hands out (`MaxConversations`,
`MaxMessages`, `MaxInvitations`, `MaxServers`, `MaxSubscribers`, `MaxNamespaces`,
`MaxChats`, `MaxAccounts`), tokens signed (`MaxTokens`), handlers in flight
(`Request`, `Use`), events in flight per socket (`MaxPerSocket`), deletions while
a client reads (`MaxDeletions`).

| run | question | bounds |
|---|---|---|
| `direct_messages` | do messages always fit their conversation, do duplicates need a race, is the preview the newest message? | 2 accounts, 2 texts, 2 handlers, 2 conversations, 2 messages, any statement may fail |
| `mark_messages` | who marks, do events tell the truth when two of them share `client.data` and conversations are deleted, and does an event alone on its socket reach the author? | 2 conversations, 3 messages, 1 socket with 2 events in flight |
| `mark_messages_recipient` | does every event reach the author: violated | as above |
| `message_delivery` | does a message fall between the list and the live events, and does every message arrive under fairness? | 2 sockets, 2 messages in 2 conversations, failures and restarts |
| `message_delivery_unread` | what a comment says the list guarantees: violated | 1 socket, no failures |
| `friends` | what do the checks still guarantee when handlers of both channels race, and does the table implement `InvitationLifecycle`? | 2 accounts, 2 handlers, 2 invitations, failures |
| `friends_pending` | one pending invitation for two accounts: violated by 1 handler at a time | 2 accounts, 3 invitations, WebSocket only |
| `friendship` | who may write, who is refused, what do the lists show, while friendships and privacy change between the queries? | 3 accounts, 2 invitations, 1 use in flight, failures |
| `servers` | does the owner keep the role, who hands out roles and kicks admins, is the list of members ever empty, do the subscriptions implement `RoleLifecycle`, while accounts collect rows? | 3 accounts, 2 handlers, 1 server, 3 subscriptions, failures |
| `namespaces` | which servers may lack a chat, what do listings show, are answers true? | 2 handlers, 2 names, 1 server, 2 namespaces, 2 chats, failures |
| `accounts` | whose is a name, who is admitted, who is turned down, when sign-ups race and tokens expire? | 2 names, 2 passwords, 3 handlers, 2 accounts, 2 tokens, failures |
| `pagination` | does a reader see a message twice, and how many can be missed? | pages of 4, 9 messages, 3 deletions |

Two handlers and two rows are enough for every race the code contains: each
hazard is between one handler suspended at one statement and one other that acts
in between; a third handler only repeats what the second can do.  `accounts` has
a third because a race of two sign-ups is judged by what a sign-in or a
verification sees.  `servers` needs an owner, an admin and a third account, and an
account with two rows next to the owner's: three subscriptions.  `friendship` has
one use in flight because uses write nothing: they meet only through the
invitations and the privacy, which change at every step by themselves; its three
accounts are two that are friends and one who is the mutual friend.
`pagination` starts from any number of messages up to nine, which is two full
pages and a last one on either side of the rounding.

`CHECK_DEADLOCK FALSE` appears twice: in `message_delivery_unread`, where nothing
fails and everybody may be done, and in `pagination`, where the client stops at
the last page.  Accounts, handlers, invitations and texts are interchangeable.
The runs that use symmetry check invariants, action properties and the refinements
of `Friends` and `Servers`, all of them safety properties that treat these alike; liveness
runs without symmetry.

### Fairness

`ServerFairness` of `MessageDelivery`: a handler whose statement is answered is
resumed, one weak fairness condition per socket's `handleConnection` and per
message to be emitted.  Node's event loop gives it, and nothing else is assumed:
users may stop at any time, statements may fail, the process may restart.
`StaySpec` leaves failures and departures out, to show that
`UnreadReachTheClient` fails by what the code decides alone.

### Where the code does not do what it says

Each violated run has an entry under `findings`.  The models show or exclude
more; where a property has an exception, the exception is what happens.

- Two accounts get two conversations when their first messages cross
  (`DuplicateOnlyByRace`: only then).
- The preview of a conversation can stay at the text of an older message when two
  handlers are between their statements at once, since `sendMessage` updates
  `last_message` (`messages.gateway.ts:170`) before it inserts the message, or at
  that of one that was never stored, when the insert fails (`PreviewIsNewest`:
  only then, and until the next undisturbed message).
- `read:message` and `delivered:message` are sent with `message: null` when the
  conversation is deleted after the update of the flag and before
  `findOneAndUpdate` has read the row back (`abstract.repo.service.ts:63-70`,
  `messages.gateway.ts:214-229`, `247-263`); when it is deleted after that, they
  carry a row that is gone (`EventsTellTheTruth`: only for a deleted message).
- The event of a rejected or canceled invitation carries the oldest row with that
  status, not the one just answered (`AnswerEventsCarryARow`: never a younger one).
- Two accounts that are friends all the time can be refused when their friendship
  passes from a row of one direction to one of the other between the guard's two
  lookups (`OnlyTurnedFriendsAreRefused`: only then, and `FriendsAreNotRefused`:
  never when one row lasts).
- An admin can be kicked by another admin when the promotion falls between the
  read and the update of `kickUser` (`AdminsKickedByOwner`: only then).  An owner
  invited before the own subscription is inserted is recognised by no guard for
  ever.
- A server whose creation fails half way stays without namespace or chat; one
  created over HTTP never has any (`BareServersAreExcused`).
- `deleted:namespace` is emitted whether or not a row matched, and
  `updated:namespace` shows what another handler has written since
  (`AnswersAreTrue`).
- A message stored between the two queries of a page that was not full is on no
  page when a next one follows; a last page less than half full is never offered
  (`LittleIsMissed`).  When `2 * total < limit` the link to the last page is for
  page 0.
- A sign-up whose token could not be signed has inserted the account: the same
  sign-up again is turned down, but a sign-in works (`RefusalsHaveAReason`).

Some need no model to see, and the models do what the code does: the query of
`emitUnreadMessages` has no condition on `marked`, so its list holds every
message the user ever received; `addFriend` looks for a friendship from the
caller to the other account only, so the friend who had received the invitation
can send a new one; `removeFriend` updates only rows the caller once sent, so for
the other friend nothing happens; `update:namespace` and `create:server:chat` act
on the row the payload names, not on the server the guard was asked about;
`WsIsServerAdminGuard` throws for the role MEMBER only
(`ws.is.server.admin.guard.ts:32`), so whoever has no subscription, is only
invited or was kicked passes it; the loser of a race of two sign-ups for one name
gets the 500 of `AbstractRepoService.create`, not the `ConflictException` of
`register`'s own check (to `Accounts` both are a refusal);
`PATCH account/privacy` without a value throws; `emitListFriends` is not awaited
(`friends.gateway.ts:84`), so a failure of its query is a rejection nobody
handles, which ends the process; neither the routes of `MessagesController` nor
`fetch:conversation-messages` reach the service at this commit, since the routes
have no guard that sets the user before the one that reads it, and the event's
parameter decorator reads an HTTP request.  `Pagination` models what the service
would answer; as `deleteMessage` is called from nowhere else, `DirectMessages`
has no such action.

## What is proved

All proofs are for any number of accounts, handlers, sockets and rows.

- `RepositoryProofs`: what `findOne` answers.  That a non-empty set of ids has a
  lowest element is proved from the well-foundedness of strict inclusion of
  finite sets, since the induction theorems of the library take a predicate as
  a parameter.
- `DirectMessagesProofs`: the inductive invariant says what each suspended
  handler knows: a conversation id it holds is of a row with exactly its two
  accounts *if the row still exists* (ids are never reused), rows it has
  looked past are at least as young as its arrival, and the preview of a row is
  owed to the newest message, to a handler about to store one, to a failure or to
  a race: a handler alone between its two statements finds its own text there
  (`Alone`).  From it: `TypeCorrectness`, `MessageSafety`, `DuplicatesNeedARace`,
  `PreviewsAreNewest`.
- `MarkMessagesProofs`: whatever `client.data` of a socket holds was put there
  by a guard for the user of that socket, so its message was sent to that user.
  That is why overwriting cannot make a user mark another's message
  (`MarkingIsTheReceivers`), although the event can go astray.  `Truthfulness`
  needs that a flag, once set, goes only with its row: what is read back either
  shows it or is not there.  While an event is alone on its
  socket, what the guards left there is its own (`LoneEventsAreAnswered`).
- `FriendsProofs`: the invariant records what a handler of either channel has
  ruled out so far, and that a row just rejected or canceled stays so.  From it:
  `TypeCorrectness`, `SecondPendingNeedsARace`, `AnswersCarryARow`, and
  `Refinement`: each statement of each handler is a step of
  `InvitationLifecycle` or a stutter.
- `ServersProofs`: an owner is *recognised* when the first row is the owner's
  and *shadowed* when it is another one; both are for ever, since an insert goes
  to the end of the table and no update changes the role of a recognised owner.
  The invariant says which of the two each suspended handler relies on: a kick
  or a leave that is past its check and is about the owner can only be of a
  shadowed one, so that a stale check does no harm.  `RowsAreLegal` adds that
  admins and members exist only where the owner is recognised.  From it:
  `TypeCorrectness`, `OwnerKeepsRole`, `ListIsNeverEmpty`,
  `AppointmentsAreTheOwners`, `AdminsAreTheOwners`.  `Refinement` needs one fact
  more, `LeaversWereIn`: whoever is about to leave is not seen as invited.  It is
  preserved because the *lifecycle* never turns a role back into an invitation
  (`InStaysIn`), so it is proved together with the refinement.  In return
  `OneOwnerPerServer` is proved of the lifecycle alone
  (`OwnersOfTheLifecycle`) and carried over.
- `NamespacesProofs`: every statement changes the tables in one of a few ways
  (`Evolves`: rows of servers and chats are for ever but for deletions, which
  excuse their server; a namespace keeps its server; `NamesStay`: and, but for a
  renaming, its name).  Each suspended handler knows something that `Evolves`
  preserves, so that a step is proved for the handler that moves and for the
  others at once (`OneMoves`).  A handler that creates knows that its
  server is there and that the general namespace is too, or was deleted and the
  server excused (`CreatorFits`); one that renames, that its row, while
  it exists, bears the name it asked for unless another update has touched it
  (`UpdaterFits`); one that lists, that what is in `held` is so, that what is so is
  in `ever`, and that each query answered has brought what lasted (`HistoryFits`,
  `ListerFits`).  From it: `TypeCorrectness`, `BareServers`, `Listings`,
  `Answers`.
- `AdmissionProofs`, first `Accounts`: accounts are never changed, tokens only
  added and expirations only grow.  So a token fits the account it was signed for
  (`TokensFit`) and what a suspended handler has found stays true
  (`HandlerFits`): a sign-in past its comparison holds the account whose
  credentials it was given, and a verification past its check holds a token that
  was not expired when it arrived.  From it: `AccountsTypeCorrectness`,
  `NamesAreUnique`, `AdmissionIsGenuine`, `RefusalsAreRight`.  Then `Friendship`:
  the invariant ties the histories to the present (`held` is now so, what is now
  so is in `ever`) and says what each lookup has left behind: a row that lasted
  was not of the direction the guard has looked in, and friends it did not find in
  one direction were friends by the other (`GuardKnows`); and a row that
  lasted is found by each query that was answered (`ListKnows`).  From it:
  `UsesTypeCorrectness`, `WritersAreAllowed`, `FriendsMayWrite`,
  `FriendsWhoDoNotTurnMayWrite`, `ListsAreRight`.
- `ReadingProofs`, first `MessageDelivery`: while a connection is handled, each
  stored message that was emitted is in the list or was received live.  From it:
  `DeliveryTypeCorrectness`, `DeliveryIsComplete`, `ListsAreDelivered`.  Then
  `Pagination`, which is arithmetic with ranks: `RowsOf` cuts the rows whose rank
  lies in an interval, and a deletion moves ranks down by at most one.  The pages
  asked for so far end at row `Offset`; what was shown lies before it
  (`ShownIsPassed`), since ranks never grow, hence no message is shown twice.
  What was passed without being shown is paid for by a deletion each
  (`DeletionsPay`), which with the rounding of `TotalPages` bounds what is
  missed.  From it: `PagesTypeCorrectness`, `NothingIsShownTwice`,
  `MissesAreExplained`.

Assumptions are those of the modules: bounds are naturals, channels are the two
there are, `None` and `NoContent` are no rows, messages are between the
participants of their conversation.

Only model-checked: `MessagesArrive`, since liveness under fairness is beyond the
prover, and the three violations, which are counterexamples.  Every other property
of the runs is a theorem.

## The plan

1. done: conversations, marking, delivery, invitations, servers, the permission
   to write and the lists of friends, namespaces, accounts and tokens, pages;
   the abstract lifecycles of an invitation and of a role with their refinements;
   proofs of every safety property.
2. `Friendship` with the rows of `Friends` instead of their abstraction, to judge
   which of the turns of `OnlyTurnedFriendsAreRefused` its handlers can produce.
3. The two modules that assume what another guarantees (`MarkMessages` of
   `DirectMessages`, `Friendship` of `Friends`) composed with it, so that the
   argument made in words above becomes a theorem.

## Not modelled

- Configuration, logging, response wrapping, decorators, module wiring and
  socket adapters: no state that a handler depends on.
- The list of one's conversations (`findAllMyDms`, and `DmsGateway` around it) and
  of one's servers (`findMyServers`): reads of one or two queries whose answer
  nothing else depends on.  A conversation with oneself is in the first one twice.
- The validators of accounts and servers: neither is ever deleted, so their
  answers do not change.
- Hashing and signing: library calls, modelled by what they let be told apart.
- Handlers that are stubs (`friend:remove`, most of the server chats).
- Soft deletion: no handler sets `deleted_at`.
