# Specification and verification of nest-realtime-chat

TLA+ modules beside the NestJS chat API (`apps/api`), the TLC instances that
check them, and TLAPS proofs of the results that do not depend on an instance's
size.

## 1. Inventory of the system

One API process (or several behind the Socket.IO Redis adapter) serves REST
requests and sockets. All durable state is in PostgreSQL, reached with Prisma;
the sets of live sockets are in Redis. **No service opens a transaction**: every
Prisma call is one autocommitted statement (a nested create is one transaction),
and at every `await` any other handler of any process may run. That is the
source of nearly every hard behaviour below.

| component | state | operations | talks to |
|---|---|---|---|
| Conversations (`conversations/`) | `Conversation`, `ConversationMember` rows | create direct / group, rename, delete, add / remove member, leave, mark read, list | Messages (membership checks), emitter |
| Messages (`messages/`) | `Message`, `MessageRead`, `lastMessageAt`, read pointers | send, edit, delete, list, record a direct read | Conversations, Presence, Notifications, emitter |
| Presence (`presence/`) | Redis set of sockets per user, `User.status`, `lastSeenAt` | register / unregister a socket, `isOnline`, `filterOnline` | gateway, Users, emitter |
| Chat gateway (`websocket/`) | `socket.data.user`, the rooms each socket is in, in the memory of its process | connect, disconnect, join, typing, send, read | all services |
| Realtime fan-out (`websocket/realtime/`, the Redis adapter) | events on their way between processes | emit to a user's or a conversation's room, on every process | called by all services |
| Sessions (`auth/`) | `RefreshToken` rows | register, login, refresh (rotate), logout | Users |
| Notifications (`notifications/`) | `Notification` rows; the badge of each open tab, which follows the events | create many, mark read, mark all read, list | emitter |
| Users (`users/`) | `User` rows, avatars on disk | profile, status, directory, search | |
| Lists (`common/utils/cursor.util.ts`, `common/dto/pagination.dto.ts`, `search/`) | the cursor or the page number a client holds | encode, decode, next page; rows and total | Messages, Conversations, Notifications, Users |
| configuration, bootstrap, exception filter | none of their own | wiring, error mapping | |

What is hard, per component, and what makes it correct:

* **Conversations.** Check-then-act over several statements: owner hand-off
  (find, promote, delete), kick on a role read earlier, delete after listing,
  add after two checks, find-or-create racing on a unique key. Correct means: a
  group always has an owner, an owner is not kicked, a conversation is not
  dissolved under a new member, rows do not outlive their conversation, one direct
  conversation per pair and everyone gets it, members are told the truth.
* **Presence.** Redis and PostgreSQL are written by separate calls; two tabs
  open and close at once; a process dies with sockets registered; a socket
  closes before its connect handler is done; contacts are told of a status that
  was not written, and by a creation that asks no socket. Correct means: online while a tab
  is open, offline after the last one, no ghost sockets.
* **Messages.** Membership is checked before the insert, not with it; four
  writes follow the insert one by one; edit and delete race; a read pointer is
  overwritten by whichever request comes last. Correct means: a deleted message
  stays deleted and is shown so, a pointer names a real message and its time,
  receipts and notifications go to whom the policy says, and what the table says
  is what the sidebar and the room were told.
* **Sessions.** Rotation creates a token, looks it up again, and revokes the old
  one last; reuse detection revokes a whole family; answers get lost. Correct
  means: everyone is signed in to his own account, who waits for his answers is
  not signed out, the audit links lead forward.
* **Gateway and fan-out.** A socket connects in steps while memberships change
  on other processes; the announcement, the client's request to join and the
  membership check race with removals; a process dies with announcements unsent;
  typing events are handlers of their own. Correct means: a member's socket gets
  into the room, whoever is not a member does not, nobody is shown typing for good.
* **Notifications.** Rows are written in one call and told of in another, and
  events of several processes keep no order. Correct means: when all has arrived
  the tabs show what the table says, up to what cannot be told apart.
* **Lists.** A walk through pages while rows are inserted, touched and removed;
  rows and their total are two queries. Correct means: no row that stayed where it
  was is skipped or repeated, and a next page is a page.

`PROJECT.json` lists each of these hazards at its line.

## 2. Plan

In this order, the most important behaviour first.

| step | modules | state |
|---|---|---|
| 1 | `Conversations`, the abstract `DirectRegistry` and `Membership`, `ConversationsProofs` | done |
| 2 | `Presence`, `Tabs` (how the handlers of tabs crossed), `PresenceProofs` | done |
| 3 | `Messages`, `MessagesProofs` | done |
| 4 | `Accounts`, `AccountsProofs` | done |
| 5 | `Lists`, `ListsProofs`: every list of the API, by cursor and by page number | done |
| 6 | `Rooms`, `RoomsProofs`: who is in which room, on which process, and who types | done |
| 7 | `Notifications`, `NotificationsProofs` | done |
| 8 | `Overtaking` (how the handlers of a group overtook one another), `OvertakingProofs` | done |
| 9 | Conversations composed with Messages and with Rooms, by the contract `Membership` | done, in the proof modules of the three |

Every module is written to be proved about as well as checked: the sizes are
constants with named assumptions, each operation is one action, no operator is
recursive.

## 3. Modules

### Conversations

State and code: `conversation` and `member` are the two tables (rows by id;
`member[c][u].role = "NONE"` is no row), `clock` is `now()`, which stamps
`joinedAt`; `view[c][u]` is what the events to a user last said of a conversation;
`pc[r]` and `call[r]` are the program counter and the frame of the handler that
serves request `r`; `given` is the history of answers of `findOrCreateDirect`.
One action is one `await`: the database call and the decision on its result;
emits after the last call of a handler are one step.

| action | code (`conversations.service.ts`) |
|---|---|
| `Receive` | the request and the checks that read only its parameters and users (198-203, 260-269) |
| `FindDirect`, `CreateDirect`, `AnnounceDirect`, `RefetchDirect` | `findOrCreateDirect` 197-257 |
| `CreateGroup`, `AnnounceGroup` | `createGroup` 259-296 |
| `AssertMembership` | the check each management operation begins with |
| `WriteName`, `AnnounceName` | `update` |
| `ListMembers`, `RemoveConversation`, `AnnounceRemoval` | `remove` |
| `LoadConversation`, `InsertMember`, `AnnounceMember`, `ReplyAdded` | `addMember` |
| `ReadTarget`, `FindSuccessor`, `Promote`, `Dissolve`, `Farewell`, `DeleteMember`, `AnnounceLeft` | `removeMember` |
| `Abort` | a handler that dies at an await: nothing is rolled back |

External pieces, as the code uses them: unique indexes (P2002), foreign keys
(P2003), updates of missing rows (P2025), `onDelete: Cascade`.

`Overlap` is the set of operations that may run beside any other operation; the
program is `Overlap = Operations`. One property, `GroupHasOwner`, is checked with a
smaller `Overlap`, and the violation run `race_owner` with the program's.

No action sets the role `ADMIN`: the program has no operation that does, though
the code tests for it; the model keeps the test.

### Overtaking

Conversations with two history variables, for the properties that another handler
can spoil between a read and a write. `stale[r]` are the users whose rows others have
changed since request `r` last read or wrote them (`Looks`); `crossed` are the pairs of
a conversation and a user at which a handler then acted on, or told of, such a row
(`ReliesOn`), or which it left half done when it died (`LeavesOpen`). `Track` is a
conjunct of every step and restricts none: `HSpec` has the behaviours of `Spec`. The
properties hold of every interleaving and of every death, and say exactly which
rows the code's missing transactions may cost.

### DirectRegistry

What POST /conversations promises for a DIRECT conversation: a register from
pairs to conversations, filled once, never changed, given to everyone who asks.
`Conversations!GetOrCreate` maps the table to it.

### Membership

What the conversations module promises the other modules of one conversation's
rows, by its kind and its members' roles: how they are created, that members of a
group come and go one at a time, that whoever is made an owner is a member, that
deletion takes all rows and is for good, and that nothing touches a direct
conversation. `Conversations!MembershipAsPromised` says that each conversation of
the table behaves so; section 5 says how Messages and Rooms build on it.

### Presence

The sockets of one user, for users share no state, and one contact of his. `live` is
the Redis set `presence:sockets:<user>` and `timed` says that the key has a time to
live; `status` is `User.status`. `near` says that a client of the contact is in a room
the user's broadcasts go to, `paired` that they have a direct conversation, `heard`
is what the contact was last told. `up[s]` and `down[s]` are the program counters of the
connect and the disconnect handler of socket `s`, which run concurrently when a
socket closes early.

| action | code |
|---|---|
| `Connect`, `Authenticate`, `Reject` | `handleConnection`, `chat.gateway.ts` 87-119 |
| `AddSocket`, `CountUp`, `TouchOnline`, `TellOnline` | `registerSocket`, `presence.service.ts` 38-57; `Broadcast` is `broadcastPresence` |
| `Close` | `handleDisconnect`, `chat.gateway.ts` 121-127 |
| `RemoveSocket`, `CountDown`, `DeleteKey`, `TouchOffline`, `TellOffline` | `unregisterSocket`, `presence.service.ts` 59-74 |
| `FailDown` | a call of the disconnect handler rejects; nothing catches it |
| `Crash` | a process dies: its sockets and handlers are gone, Redis stays |
| `Expire` | `SOCKETS_TTL_SECONDS` after the last registration |
| `PatchStatus` | `PATCH /users/me` writes the status column |
| `StartDirect` | `findOrCreateDirect` tells the other one ONLINE, whatever sockets its caller has, `conversations.service.ts` 234-237 |
| `EnterRoom` | a client of the contact joins the room of a conversation they share |

A write of `touchLastSeen` may fail, which it swallows: the broadcast follows all the
same. `weather`, drawn from `Weathers` once and for all, is the subset of `Events` a
behaviour may hold: `"connect"`, `"disconnect"` (a call of that handler fails),
`"write"` (a swallowed one), `"crash"`, `"early"` (a socket of `Hasty` closes while it connects),
`"expiry"`, `"patch"`, `"meet"` (`StartDirect` and `EnterRoom`). In every weather the
handlers of all sockets overlap as they please. `Home` is the process of each socket.
A greeting by `StartDirect` is told apart from a broadcast (`"GREETED"`): it says
nothing of sockets, and nothing takes it back when the creator has none.

### Tabs

Presence with two history variables. `crossed` becomes true when a tab comes or goes
while the handler of another runs and no third tab is settled, or when something
goes wrong, and false again when the user is altogether away; `astray` says that the
table's status is not the one the handlers last meant to write. `Track` restricts no
step. The properties hold in every interleaving, and say which crossings may cost
the user his status.

### Messages

One conversation. `conv`, `role` and `pointer` are the conversation's row and
its membership rows, `message`, `reads` and `noted` the tables of messages,
receipts and notifications, `told[m]` what the room was last told of message
`m`. Content is abstracted to what tells versions apart: as sent, edited, empty.

| action | code (`messages.service.ts` unless named) |
|---|---|
| `AssertMembership` | the check `send` and `markRead` begin with |
| `InsertMessage`, `BumpConversation`, `SetPointer`, `ReadRecipients`, `AskOnline`, `MarkDelivered`, `TellNew` | `send` 104-198 |
| `ResolveMentions`, `ChooseTargets`, `NotifyTargets` | `fanOutNotifications` 200-272, `NotificationsService.createMany` |
| `LoadMessage`, `EditMessage`, `Announce` | `update` 286-316 |
| `LoadMessage`, `ReadRole`, `DeleteMessage`, `Announce` | `delete` 318-346 |
| `FindMessage`, `SetPointer` | `ConversationsService.markRead` 470-485 |
| `LoadForRead`, `UpsertRead` | `recordDirectRead` 352-371, awaited after `markRead` |
| `Join`, `Leave`, `Promote`, `DeleteConversation` | the single statements of the conversations module, which are the changes `Membership` allows |

A request for who is online may have any answer: sockets open and close at any
time and the set may hold ghosts. Two inserts may carry the same millisecond. A
handler that dies is one that takes no further step; a property that does not
speak of handlers at rest holds of what it leaves behind too. One whose call is
rejected (`Fail`: any call of any handler, answered by the exception filter with an
error) stops as well, but the system comes to rest behind it; `CutShort(m, ops)` says
that it was an operation `ops` on message `m`, and the properties at rest say what
is then still promised of `m`, and of all other messages. `scope`, drawn from
`Scopes`, holds the operations that may run beside any other, with "membership"
for the changes of members; how many messages may be sent; and the sets of people
they may name. The program is the scope with all of them. `Old` holds the messages
that may be there at the start, sent and announced to the end.

### Accounts

`account` is the user table (a person's username, or `None`: his email and his
password are himself), `token` the table of refresh tokens in the order of
`createdAt`, a row being its index, `jar` the cookie of each browser.
`token[i].person` and `.from` are history: who typed the password a session goes
back to, and which token this one was rotated from.

| action | code |
|---|---|
| `CheckFree`, `CreateUser` | `register`, `auth.service.ts` 47-67; unique indexes answer P2002 |
| `FindUser`, `LoadUser` | `login`: the two lookups of `resolveLoginUser` and the user |
| `IssueTokens` | `issueTokenPair`, `token.service.ts` 34-68 |
| `Consume`, `SweepFamily` | `consumeRefreshToken`, `token.service.ts` 84-118 |
| `FindNewest`, `RevokeOld` | `refresh` 103-124: the newest live token is taken for the new one, then `revokeToken` |
| `RevokeOnLogout` | `logout` |
| `CheckName`, `UpdateName` | the username in `updateProfile`, `users.service.ts` 68-92 |
| `Reply`, `Lose` | the answer with its cookie arrives, or does not |
| `Expire` | tokens expire in the order of their creation |

A *careful* browser sends one request at a time and gets every answer; any set of
browsers in `Manners` may be the careful ones. Bounds on time: no two tokens are
created in the same millisecond, so that `createdAt` orders them; and nothing
expires while a handler is past the one check of the expiry time, since tokens
live for days. A handler that dies takes no further step. The model begins with any
accounts and any browsers signed in.

### Lists

One client walks one `list` with one page size `limit`. `known`, `shown` and `key`
are the table: the rows there are, those the query's `where` lets through, and
what they are sorted by. `token` and `page` are what the client sends next, `total`
the count of the last answer. History: `seen` and `twice` are the rows he was
given, `kept` those he may count on because nothing has moved them in the list,
`sunk` those whose key went back. Walks write nothing, so one is enough.

| action | code |
|---|---|
| `AskForMessages`, `ListMessages` | `MessagesService.list`: membership, then the page (40-84) |
| `ListConversations`, `ListNotifications` | `ConversationsService.list` 94-137, `NotificationsService.list` 30-64 |
| `Decode`, `Encode`, `After`, `GivePage` | `cursor.util.ts`, the keyset `where`, `take: limit + 1` |
| `Rows`, `Total`, `TurnPage` | `users.controller.ts` 38-110 and `search.service.ts` 12-67: two queries at once |
| `Insert`, `Move`, `Hide`, `Show`, `Expel` | what the rest of the system does to such rows |

Cuids and times are integers: only their order matters. A cursor that does not
parse asks for the first page, as `decodeCursor` says. `Insert` lets a row appear
after one that is a little younger, since `createdAt` is taken before the insert
commits. A row that nothing else is promised of is one whose key or visibility
changes, or, in a numbered list, before which anything does.

### Rooms

`up[s]` is the step of the connect handler of socket `s`, `rows[s]` the memberships
it read, `room[s]` the conversations' rooms it is in. `tell` are rows committed and
not yet announced, `gone` the conversations deleted, `wire` announcements on their way to a process, `asks` and
`joins` the client's requests to join before and after the membership check.
`events`, `dots` and `shown` are typing handlers, typing events on their way, and
what clients show. History: `past`, `lost`, `over`.

| action | code |
|---|---|
| `Create`, `AddMember`, `RemoveMember`, `Remove` | the membership statements of `conversations.service.ts` |
| `Announce`, `Deliver` | `emitToUser` and the adapter, `socket-realtime-emitter.ts` 10-13, `redis-io.adapter.ts` |
| `Connect`, `Authenticate`, `ReadMemberships`, `JoinRooms`, `RegisterSocket` | `handleConnection`, `chat.gateway.ts` 87-112 |
| `Close`, `Crash` | `handleDisconnect`, a process that dies |
| `Ask`, `OnConversationJoin`, `Join` | `onConversationJoin` 224-231, and the client that asks |
| `Type`, `CheckTyping`, `EmitTyping`, `DeliverTyping` | `onTypingStart`, `onTypingStop` 166-198 |

`scope` says which sockets open, which processes serve requests, which groups are
there at the start or may be created, and whether clients ask to join unasked,
processes die, and people type. `MaxDots` bounds the events of one typist under
way. Other modules model the handlers of conversations step by step; here each
membership statement is one action, and announcing it another.

### Notifications

`row` is the table, `stamps` how often `readAt` was written, `post` events on their
way to tabs, `badge[t]` what tab `t` shows as unread. History: `excused` (rows read
while their announcement was under way, or the other way round, or of which an
event was lost).

| action | code (`notifications.service.ts` unless named) |
|---|---|
| `Notify`, `Insert`, `EmitNew` | `createMany` 113-132, the emits of `messages.service.ts` 245-247 |
| `MarkRead`, `Find`, `Update`, `EmitRead` | `markRead` 71-96 |
| `MarkAllRead`, `UpdateAll`, `EmitAll` | `markAllRead` 98-106 |
| `Deliver` | a tab of the web client |
| `Die` | a request stops between two calls |

### Instances for TLC

`MCConversations`, `MCOvertaking`, `MCPresence`, `MCMessages`, `MCAccounts`, `MCLists`, `MCRooms` and
`MCNotifications` declare the model values and the few constants a configuration
cannot write. No bound is a constraint on states: every instance is finite because
requests and ids are used once and typing events are bounded, and TLC visits all of
its behaviours.

## 4. What the runs check

| run | instance | states | shows |
|---|---|---|---|
| `groups` | 3 people, 1 conversation, 4 requests of any kind that may die at any await; leaves and kicks one at a time, all else overlapping | 289,000 | no orphan row, never an ownerless group; rows change as `Membership` says |
| `groups_overtaking` | 3 people, 1 conversation, 3 requests of any kind but createDirect, all overlapping, all able to die at any await | 44,000 | one owner, no owner kicked, only the last member dissolves, members told the truth: each but for the rows handlers were overtaken on |
| `directs` | 4 people of whom 3 have accounts, 2 conversations, 3 requests of any kind but createGroup, all overlapping, all able to die | 14,000 | direct conversations are the register `DirectRegistry`; the race is hidden |
| `race_owner` | 3 people, 4 requests, `removeMember` overlaps itself | violation | a group without an owner (finding 1) |
| `presence` | 3 tabs on 2 processes, overlapping as they please, five weathers: early closes (of a tab on each process) and expiry; crashes, swallowed writes, expiry and a contact; failing handlers and expiry; failing connects, expiry and a contact; swallowed writes, patches and a contact | 585,000 | online while a settled tab is open unless handlers crossed, no ghosts, offline after the last close, and ghosts expire |
| `presence_race_open` | 3 tabs, overlapping, no fault | violation | two tabs open and the user is offline (finding 2) |
| `messages` | 3 people, 2 requests that may be rejected at any call, a message that may be there already, four scopes: everything overlapping with 1 message sent; all operations but sends, with 2; only reads, with 2; only reads and changes of members, with 1 | 855,000 | deletion is for good; pointers, receipts and notifications are right; the sidebar agrees if sends wait, the room if all that writes does, but for messages whose own request ended in an error |
| `messages_sidebar` | two sends, everything overlapping | violation | the sidebar lags the table (finding 3) |
| `accounts` | 2 people, 2 names, 2 browsers, 3 requests | 2,131,000 | own sessions, lasting sessions, links that lead on |
| `lists` | six lists, tables of up to 3 rows on 3 keys, pages of 1 or 2, any change between any two queries | 937,000 | nothing skipped, nothing repeated, cursors that lead on, numbered pages that agree |
| `rooms` | 2 people, 2 processes, 1 group and 1 direct conversation, four scopes | 262,000 | members get into the room and only leavers overhear; nobody types for good |
| `notifications` | 3 notifications, 2 users, 2 tabs of one of them, 3 requests in every interleaving, each able to die | 1,091,000 | badges agree with the table when all has arrived; `readAt` of a read row is written only by who had found it unread |

Why these sizes. The hand-off needs an owner, a successor and one more
(3 people) and a creation, an addition and two calls that race (4 requests); with
the history of who was overtaken, a creation and two calls that race (3). A
direct conversation needs two racers and one call to disturb them, a third
person who is outside the pair, and one without an account for the refusals. A
tab race needs two tabs and a third that was there before; no weather has more
than it needs for one cause to meet another. A message needs a
sender, a recipient and a stranger; a send and anything that races with it, or
two requests that race on a message that is there; its content names nobody, one
person or all three (`Somebody`). A sign-in mix-up needs two
people who swap a name: a login between its lookups, and two renames; a
rotation needs one of another browser between its steps, and one more. A page
boundary needs a row on each side and one that moves, with equal keys among
them: three rows, of which a page takes one or two. A socket and the process that
serves the request may be the same or two; the scopes of `rooms` are a process
that dies and clients that ask unasked; a group beside a direct conversation; two
people; and a typist with an observer, of whom three events at once already cross.
Two notifications of one user and one of another, told to two tabs, are marked one
by one or all at once while a third request creates some.
Requests, people, conversations and messages are interchangeable, hence the
symmetry sets; no run that checks liveness uses symmetry.

In `directs` the role of `createGroup` is left to `groups`: a group shares no
row with a direct conversation.

Conditions say exactly what the code's lack of transactions costs. Where a history
variable can tell the rows or tabs at which handlers crossed, the property speaks of
every interleaving and excuses those alone: `OneOwner` and `ToldTheTruth` the users in
`crossed`, `OwnerNeverKicked` and `DissolvesOnlyForLastMember` those whose rows changed
after the handler looked (`stale`), `OnlineWhileOpen` the time after a crossing,
`ReadOnce` the requests that had found the row unread. Three are about operations
that wait, by the constant or by the scope a behaviour draws: `GroupHasOwner`
(`removeMember`), `SidebarAgrees` (sends), `RoomKnows` (sends, edits and deletes);
whatever else overlaps. The first two are false otherwise, which is findings 1 and 3;
the third fails as soon as an edit and a delete cross. `NoGhosts` and
`OfflineAfterLastClose` are about `Benign` weather: a process that dies, a disconnect
handler that fails and a socket that closes while it connects leave an entry in the
set that nobody takes out before the key expires, which is what `GhostsExpire` is
about. Everything else holds whatever overlaps.

**Fairness.** `Presence!Fairness`, in `FairSpec` and in `Tabs!HFairSpec`: each handler goes on (`WF_vars(Handle(s))`: Node
runs a continuation whose promise has settled, and a call to Redis or PostgreSQL
settles one way or the other), and the key's time to live elapses
(`WF_vars(Expire)`: Redis expires a key with a TTL). Nobody owes a click: sockets
need not open or close, and processes need not die. `GhostsExpire` accordingly
speaks of a user whose sockets are all gone for good. `Rooms!FairSpec`: connect
handlers and join handlers go on for the same reason; for each group and
user an announcement is emitted and carried on (`Tell(c, u)`), as Redis delivers
while it is connected; and a client that hears of a conversation asks to join,
which is what the web client does. Nobody owes a connection, a request or a typing
event, and what a crash left unannounced stays so: `EventuallyHears` excuses it.
`rooms` and `notifications` do not check for deadlock, since a system nobody calls
may rest; in the other runs resting is a step of its own (`AllAnswered`, `Over`),
enabled only when every handler has answered, so that a handler that is stuck is
a deadlock.

### Findings

1. `race_owner`: an owner's leave promotes a successor whose own leave, checked
   while he was a plain member, is about to delete him. A live group is left
   without an owner (`conversations.service.ts` 427-449, against the comment at 428).
2. `presence_race_open`: two first sockets add before either counts; both count
   two and nobody flips the user to online (`presence.service.ts` 41-57, against
   the comment at 33-35).
3. `messages_sidebar`: `lastMessageAt` is not written in the insert's transaction,
   as the comment at `messages.service.ts` 129-131 says, and may end behind the
   newest message.

Other disagreements met while modelling, which have no run of their own:

* a kick acts on a role it read one await earlier, so the target may be the
  owner when the row is deleted (`conversations.service.ts` 425 and 447);
* a member added after "no successor" was read loses the group it joined
  (`conversations.service.ts` 435);
* a tab that opens while the last one closes is deleted from the set, and its
  ONLINE overwritten, against "must not flip the user to offline"
  (`presence.service.ts` 35-36 and 66);
* the key of the sockets is not renewed: after 24 hours an open tab is
  forgotten (`presence.service.ts` 15);
* `markRead` may move the pointer back, which the API documents as advancing it
  (`messages.controller.ts` 54);
* the audit link of a rotation may name a token of another session of the same
  user (`auth.service.ts` 114);
* a new direct conversation is announced to its own room only, in which no socket can
  be yet (`conversations.service.ts` 238): the other one's open tabs learn of it when
  they ask or reconnect, and no property could say more;
* a refresh whose answer is lost signs the user out with his next refresh.

## 5. What is proved

TLAPS checks 51 theorems, of which `PROJECT.json` lists the 48 a reader should know
of, for any number of users, conversations, requests, sockets, processes, browsers,
tokens, messages, rows and tabs. Every invariant and every action property that a
passing run checks is among them. The type invariants of `Accounts`, `Lists`,
`Rooms` and `Notifications` are proved (`AccountsTypeCorrect`, `ListsTyped`, `RoomsTyped`,
`NotificationsTyped`), and no run spends its time on them.

**Conversations** (`ConversationsProofs`). `TypeCorrect` is the type invariant.
`TablesCorrect` is the inductive invariant of the tables, from which follow
`RowsHaveConversation`, `DirectStaysIntact`, `DirectIsUnique` and `CallersAgree`.
That a direct conversation is never touched is not inductive by itself: what
keeps the later statements of a handler off it is the check the handler made at
its beginning, so the invariant adds `GroupCall` (whoever got past that check
works on a group, and a conversation never changes its type) and `DirectCall`
(what a creator announces is its pair's conversation; who is about to refetch
will find one). From the latter follows `RaceIsHidden`. `DirectIsARegister` is the
refinement: every step of every handler maps to `Register`, `Give` or a stutter
of `DirectRegistry`; that it is given to everyone who asks makes an invariant on the
answers superfluous, so no run checks what `CallersAgree` says. `MembershipIsAsPromised`
is the other refinement: `TablesInv` makes every write of a row one of the changes
`Membership` lists, of one conversation. It needs, for instance, that an insert
finds its conversation live (the foreign key), and that the row a hand-off updates
is still there (P2025). These results assume nothing about `Overlap` or `Faults`.

**One module on top of another.** Messages and Rooms let members come and go as their
environment, and their theorems would be about a system of their own if that
environment did less than the handlers of Conversations do. `Membership` is the
contract between them. Conversations keeps it (`MembershipIsAsPromised`); Messages
begins with rows that one of its creations makes (`StartsAsCreated`) and has a step
for every change it allows, with what the cascade takes (`EveryChangeIsAStep`), so
that all its theorems hold beside any race in Conversations; and no handler of its
own changes the rows in another way (`RowsFollowMembership`). Rooms keeps only who is
a member: `GroupChangesReachRooms` says that every change of a group's roles, with an
announcement queued for each who came in, is a step or a stutter of Rooms.

`GroupsStayManageable` assumes `"removeMember" \notin Overlap`. Its invariant
`OwnersInv` follows the one handler of `removeMember` (`LeaversAlone`) through its
steps: when it is about to delete a row, another owner exists, or the row is no
owner's (`Leaver`). Without the assumption it is false, which is finding 1.

**Operations that overtake one another** (`OvertakingProofs`). Nothing is assumed of
`Overlap` or `Faults`. The invariant `HandlersKnow` says of every handler that what it
has learnt of a row still holds, unless the row is stale (`Knows`: who is about to
dissolve a group was alone in it, who is about to delete one has listed its members,
who is about to kick knows his target is no owner, who is about to tell somebody knows
whether he is a member), and that a hand-off is the leaver's own (`Plan`). From it
`OwnersAreNotKicked` and `LastMemberDissolves` follow at once, and so does that a
step that acts on no stale row does what it is meant to. `OwnershipMoves` adds
`OwnedInv`: a clean group has one owner, or two while one hands over to the other
(`HandOver`), and a step that changes its owners is the promotion or the deletion of
one hand-off, or a deletion that touches no owner. `MembersAreTold` goes by whom a step
changes and whom it tells: a user's row and what he was told differ only while
somebody owes him an event (`Owes`), and who owed him one knew his row.
`SuccessorThere` is the lemma that an empty answer to the successor query means that
there is no other member: rows have a first one in the query's order.

**Presence** (`PresenceProofs`). `PresenceTyped` and `KeyIsTimed` hold in any weather;
the latter is the safety half of `GhostsExpire`: a set with sockets in it has a time
to live. `SetIsClean` and `LastCloseIsSeen` are about `Benign` weather. `Guarded` is
their invariant: `NoGhosts`; `Orderly` (a socket whose handler failed is closed, and no
connect handler runs for a closed one); `HeardInv` (while the contact was last told
ONLINE by a broadcast, there is somebody who will still tell him OFFLINE, and he is
near enough to hear it); beside it `AstrayInv`, the same of the table and of who will
write, unless the table is astray. That makes "offline after the last close" inductive,
without counting sockets, however the tabs overlapped. `OnlineSeen` holds in any weather,
the handlers of all tabs running at once: `TurnInv` says that while nothing crossed, at most
one handler runs if no tab is settled (`OneHandler`), the set is what it should be
(`SetIsExact`), only a handler that has no settled tab beside it is about to flip the
status (`FlipsInOrder`), and the user is online once a tab is settled
(`OnlineOnceSettled`).

**Messages** (`MessagesProofs`). From `Core` (frames, tables, what each step may rely
on, and `Sound`: pointers, receipts and notifications name what is there) follow
`PointersAreReal`, `ReceiptsAreTheOthers`, `PolicyIsKept` and, as an action property,
`DeletedStaysDeleted`, whatever overlaps. `DirectsAreNotified` adds `Notified`: a
direct message that has not notified the other one has a handler on its way to do
so, or one that ended in an error. `SidebarIsRight` needs sends to wait for one another and nothing
else: `TimesRise` says that no message is younger than the clock, nor than the one
whose time is about to be written, nor else than `lastMessageAt`. `RoomIsToldAll` needs
what writes to wait (`OneByOne`), beside reads and changes of members: `RoomTold` says
that a message of which the room was told something else has one handler about to
say what the table says, or was never told of, because its sender lost his row
while he sent it, or had a write of it cut short (`WriteCut`). `OneWrites` serves both: of the operations that wait, one request
is under way.

**Accounts** (`AccountsProofs`). Four results, in layers, each of which uses those
before it, from `AccountsAssumption` alone:

* `AccountsTypeCorrect`: types, and `Fits`: what each step says of its frame, in
  particular that the tokens a handler works with are rows.
* `SessionsAreOwn`, by `TokensMatch`: the tokens of a handler were issued for its
  browser and its user (`Belongs`), through all of its steps.
* `LinksLeadOn`, by `LinksLead`: the newest live token, found two calls after the
  insert, is the inserted one or younger, unless a sweep came in between; then
  everything older was swept with it (`SweptAtOnce`), so a token that is found is
  younger all the same.
* `SessionsLast`, by `Undelivered` (a token not yet in a cookie is known to its
  handler only), `OneAtATime` (a careful browser has one request in flight) and
  `SessionsGood` (the tokens of a careful browser are good until the handler that
  replaces them is about to answer, and only those who use a reckless browser are
  swept).

**Lists** (`ListsProofs`). `NothingSkipped` and `NothingRepeated`, by `KeysetInv`: the
rows that may be counted on are given or after the cursor, and no row given is
after it but one that sank. `CursorsLeadOn`: one row more than the page was there,
so it comes after the cursor. `NumbersAgree`, by `OffsetInv`: the place of a row that
may be counted on is the number of rows before it, which nothing changes, so it is
given exactly if its place is before what was read, and before any total.

**Rooms** (`RoomsProofs`). `NobodyIsLeftOut`, by `Included`: from the moment the
memberships are read a group's row is among them, or announced after the user's
room was joined. `LeaversOnly` is inductive once the joins under way are part of it.
`DotsAllGoOut`, by `Followed`: after a stop that nothing disturbed every queue ends
with a stop, or is empty where nobody shows the typist.

**Notifications** (`NotificationsProofs`). `BadgesMeetTheRows`, by `Truth` (requests and
events are about rows of their user) and `Told`: an unread row that is not excused
is shown or its announcement is coming, and no 'all' is; a read one is not coming,
and is shown only where word of it is under way. `FirstReadStays`, by `ReadStays`: a
read row stays read, no request sets out to write it any more, and who does write it
is done with that. Requests may overlap as they please.

**Checked by TLC only.** `GhostsExpire` and `EventuallyHears`: liveness under fairness
and ENABLED are beyond the prover, as is induction over data. `OpenIsOnline`,
`NewestIsShown` and `GroupHasOwner` without its condition are false, and the three
violation runs show so.

## 6. What is not modelled

* The unread counts: a count of what the pointer has not passed, computed when
  asked; nothing in the repository says how exact it is.
* Avatars: files, with no state anything else depends on; a new file is there
  before the row names it.
* The fields of a profile other than username and status: single statements that
  nothing depends on. `setAway` and `NotificationsService.create` have no caller.
* Live delivery of messages to single sockets: `Messages` follows what the room is
  told and `Rooms` who is in the room; the window between connecting and joining,
  in which a client hears nothing, is in `Rooms`, but not what it missed there.
* Socket.IO, its Redis adapter, Prisma, argon2 and JWT: libraries. An emit is one
  step, a Prisma call one autocommitted statement, a password check succeeds for
  the person it belongs to, an access token is a permission to ask. What the web
  client does with an event (ask to join, change its badge, show who types) is
  external, and modelled as the events are named for.
* Validation, configuration, error formatting and bootstrap: without state. The
  filter appears as the outcomes of handlers (404 for P2025, 409 for P2002, 400
  for P2003).
