# Formal models of easy-chat

easy-chat is an instant-messaging backend in Go: a websocket server for the
clients, go-zero rpc services for conversations, friends, groups and users, and a
task process that consumes Kafka topics, stores messages and pushes them back
through the websocket server. This directory holds TLA+ modules translated from
that code, the TLC configurations that check them on small instances, and theorems
about them that the TLA+ proof system (tlapm) has checked for every instance.

- `X.tla` models a component. `MCX.tla` adds what only TLC needs: symmetry, and,
  where one run serves several components that share no state, a variable `part`
  that picks the one a behaviour moves. `X_<question>.cfg` is one run; `X_proof.tla`
  holds the theorems about `X` and about the components set beside it.
- `PROJECT.json` lists the components, the runs, the theorems, the source lines
  behind every definition (`map`), what is hard to test in this code (`hazards`),
  and, for every property, a plausible bug it would find (`mutants`).
- A mutant is an operator beside the one it varies, marked "Mutant" in the comment.

Run `tlc -workers 2 -config ReadAck_modes.cfg MCReadAck` or `tlapm ReadAck_proof.tla`.

## 1. Inventory

### IM websocket server (`apps/im/ws`)

**Connection and acknowledgement queue** (`websocket/connection.go`, `server.go`
131-361). State of a connection: the queue `readMessages`, the map `readMessageSeq`
from a message id to the latest message seen with it (both under `messageMu`), the
channel `message` with a buffer of one, the channel `done`. Three goroutines:
`handlerConn` reads frames and either queues them (`appendMsgMq`) or sends them on
the channel; `readAck` acknowledges the head of the queue, in `RigorAck` mode waits
for the client's confirmation, resends or gives up, and sends on the channel;
`handlerWrite` receives, runs the route's handler and deletes the id. The mode is
an option; `im.go:26-29` deploys `NoAck`.
*Hard:* two senders on one channel, outside the lock; ids deleted by one goroutine
while another relies on them; repeated, early, late and wrong confirmations; a
timeout against a late confirmation; writes that fail half way; everyone blocked on
the channel. *Correct means:* in order, at most once, nothing accepted vanishes,
nothing unconfirmed is handled, no goroutine waits for ever.

**Registry of connections** (`server.go` 76-128, 363-431; `connection.go` 56-77,
116-145; `authentication.go`). State: `connToUser` and `userToConn` under the
server's mutex; per connection `done`, the socket, the idle time. Operations:
`ServerWs` upgrades, authenticates and registers (`addConn` closes the user's
connection before), the read loop and the idle timer call `Server.Close`, `GetConn`
and `GetUser` answer the handlers. *Hard:* logins, failing reads and timers in any
order; closing a socket that reports an error; `close(done)` twice. *Correct means:*
the two maps agree, one live login per user, whoever is served is reachable, and
whoever is gone is forgotten.

**Handlers and push delivery** (`handler/conversation`, `handler/push`,
`validator`): validate a frame, publish a chat message or a read mark to Kafka, or
look the recipients' connections up and write to them, a group's in one task each.
No state but the connections. *Hard:* a connection found and gone when it is written
to. **Client** (`client.go`), with which the task process reaches the server: one
connection, `Send` under a mutex, one redial and a second write after a failed one.

### Task process (`apps/task/mq`)

**Chat messages** (`msgChatTransfer.go`, `msgTransfer.go`): consume, insert the chat
log, update the conversation's total and last message, push to one user or the
members of a group. *Hard:* a message that comes again after a restart, insert done and
update not, several goroutines per consumer, a link that breaks, a connection that is
replaced. *Correct means:* what a user receives is stored, meant for him and comes once,
and where a message is given up is known.
**Read receipts** (`msgReadTransfer.go`, `groupMsgRead.go`): consume a read mark,
update the chat logs' bitmaps, and push a receipt: of a single chat at once, of a
group merged by a `groupMsgRead` per conversation, whose goroutine flushes after a
number of receipts or a delay; one goroutine, `transfer`, forwards pushes and releases
idle `groupMsgRead`s. *Hard:* two kinds of mutex and a channel of one between three
kinds of goroutine, `isIdle` and `clear` without the lock of the object, the gap
between taking a batch out and stamping the time; two goroutines that load, change and
store the bitmap of one message. *Correct means:* a receipt is in one place and
forwarded at most once, never lost, nobody waits for ever, and a bitmap shows who read.
**Bitmap** (`pkg/bitmap`): a bit per member, at the hash of his id.
**Producers** (`mqclient`): topics and keys.

### Conversations (`apps/im/rpc`)

Mongo documents: a user's conversation list (read, changed and written back whole)
and a conversation's total. Set-up for single and group chats, put, get, chat log.
*Hard:* concurrent read-modify-write, a set-up done for one of two users, early
returns, a report sent again. *Correct means:* what is counted is stored, what is
listed exists, a chat that was set up is listed for both, and nobody has read more
than there is. Ids of single chats come from `CombineId` (`pkg/wuid`).

### Friends, groups, users (`apps/social/rpc`, `apps/user`)

MySQL tables with generated models that cache rows in Redis: requests to be friends or
to join a group, their handling, friends, groups and members; users by phone number,
and a hash of who is online. *Hard:* check-then-insert without a unique key, updates
outside the transaction that is meant to hold them, checks against a cached copy, a
cached "not found", an error of a deferred function that is not returned. *Correct
means:* a request is decided once, an accepted one makes friends or a member, nobody
is a member twice, a phone has one user.

### HTTP APIs (`apps/*/api`, `pkg/middleware`, `pkg/storex`, `pkg/respx`, `pkg/resultx`)

Three processes with twenty endpoints. A request gets an id (the client's
`X-Request-ID` or a generated `req_N`), is parsed, its logic asks rpc services and
Redis, and an error or success handler answers; `storex`, a map from request id to
message, carries the text of the answer. *Hard:* `err` assigned twice, replies used
after an rpc failed, two requests with one id. *Correct means:* success is answered
only when everything succeeded, the services get messages of the right kind, an answer
carries its own message, and the map does not grow.

### Idempotence of rpc calls (`pkg/interceptor`, `pkg/zrpcx`)

The client interceptor puts an id into the metadata; a middleware would make a
fresh one per HTTP request, so only gRPC's retries of one call share it
(UNAVAILABLE and DEADLINE_EXCEEDED, `MaxAttempts` 3). The server interceptor keeps,
in Redis, a hash with `status` and `data` and a lock with a time to live, for
`GroupCreate`. *Hard:* attempts interleave between Redis commands; lost answers,
cancelled contexts, a server that dies with the lock held; a lock deleted by whoever
comes by. *Correct means:* handlers exclude each other, no result is invented, a
lock does not stay.

### The rest

`pkg/job` (`WithRetry`: attempts in goroutines, a pause, a deadline), `pkg/configserver`
(restart on a configuration change), protobuf messages, SQL and Mongo models, helpers.

## 2. The modules

### ReadAck, AckInbox: a connection's goroutines

`ReadAck` has one action per critical section of `messageMu` and per send or receive
on the channel. `reader`, `acker` and `writer` are the three goroutines with their
program counter and the message in hand; `wire` lists the frames read, and a message
is named by its place in it, so a repeat of an id is a different message. `handled`
(what went through the queue), `direct` (what bypassed it), `dropped` and `acked` are
histories.

| code | action |
| --- | --- |
| handlerConn 142-176 | `ReadFrame`, `ReaderSend`, `ReadFail` |
| appendMsgMq | `appendMsgMq` (`RecordRepeat`, `Enqueue`) inside `ReadFrame` |
| readAck | `AckCheck`, `AckIdle`, `OnlyAckSend`, `RigorFirstAck`, `RigorDeliver`, `RigorTimeout`, `RigorWait`, `RigorResend`, `AckDeliver` |
| handlerWrite | `WriterDone`, `WriterReceive`, `WriterHandle`, `WriterForget` |
| Close by another | `CloseConn` |

Two points of Go matter and are kept: `readMessages[0]` and `readMessageSeq[id]` are
the *same object* until a client frame replaces the map's entry (`SeqEntry.own`), so
numbering the queued message numbers the entry; and a failed write of an ack unlocks
`messageMu` on behalf of a caller who, on the resend path, no longer holds it, which
is a fatal error (`crashed`). Time is what the timeout tells apart: an AckTime is
unset, recent or late, and one that a client frame left unset is always late.
Handlers are one step; what they do is outside the module. The mode (`AckMode`) is
chosen in `Init`, so that one run has the deployed `NoAck` and the two others.

`AckInbox` is the abstract promise: accept, take the oldest, or give up openly.
`ReadAck` implements it twice: for what passes through the queue (`InboxSpec`, with
`Unhandled` as what is pending and `handled` as what was taken) and for what bypasses it
(`DirectSpec`, with `direct`).

### WsServer: the registry

`connToUser` and `userToConn` are total functions with `NoUser` and `NoConn` for a
missing key. `addConn` and `Server.Close` run under the server's mutex and are one
action each (`AddFirst`, `AddReplacing`, `AddPanics`; `ReaderClose`,
`KeepaliveClose`). `pc` follows a connection from `ServerWs` through `handlerConn`:
`Start` reads the user id *after* `addConn` has released the mutex. `close(done)` on
a closed channel panics: recovered under `ServerWs`, fatal elsewhere (`panicked`).
`Block` is the read loop stuck on `conn.message` after `handlerWrite` left.
`AuthFail` leaves the connection open, as the code does.

### GroupRead: merging read receipts

`Procs` are the goroutines that call `Consume`; `groups` is every `groupMsgRead` ever
made with its goroutine's program counter, `groupMses` the map to the current one,
`mu` the mutex of `MsgReadTransfer`, `push` the channel. The lock of a `groupMsgRead`
is held only inside an action, or while its goroutine sends with it held
(`Locked`). `Flush` and `FlushStamp` are apart because `pushTime` is set after the
batch was taken out, and `Release` does not take the lock. A receipt is the number of
its read mark; what a batch keeps of several bitmaps of one message is `shown` in
`ReadRecords`.

### Idempotence: the interceptor and the retries

One request, `MaxAttempts` attempts, every Redis command a step: `ReadData`,
`ReadStatus`, `Setnx`, `Mark`, `Run`, `SaveResp`, `Release`. `Lose` is an attempt the
client gives up (so it may start the next), `Cancel` the server learning of it (its
Redis commands fail from then on), `Crash` the server dying, `LockExpires` the time to
live. The model remembers who set the lock; the code does not.

### ReadRecords: who has read a message

A bitmap is the *set of its ones*, `Place(u)` the bit of a user, so users whose ids
hash alike share one; a single chat's field becomes the one byte 1 (`One`).

| code | action |
| --- | --- |
| handler MarkRead | `MarkRead` |
| Consume, ListByMsgIds | `ListByMsgIds`: the copies of all messages of the mark |
| UpdateChatLogRead, a message at a time | `UpdateMakeRead`, or `UpdateFails`, which is logged |
| the push that Consume sends | `MergeReceipt`: `shown` keeps the copy handed on last |
| the offset goes back; the process dies | `ComeAgain`, `Restart` |

`stored` is whose read was stored, `handed` those of them whose receipt was handed on.
A read can be missing afterwards for two reasons, and each has a history that names the
reads it hits and no other: `overtaken`, a copy loaded before was stored over it, and
`hidden`, the receipt handed on last was computed from copies loaded before. Both are
read off `since`, which each goroutine has beside its copies: what others stored of
these messages after it loaded them.

### Delivery: a chat message on its way

From `Publish` (handler Chat) through the queue, a set that goroutines `Fetch` from in
any order; `Insert`, under a fresh id on every try, and `Members`; the client's `Lock`,
`Write`, `Redial` or `DialFails`; the server's `Push`, with a task per recipient
(`GetConn`, `SendTo`); to `inbox`, what each user received. The counting between `Insert`
and `Members` is the subject of `Conversation`.

A goroutine may stop at every point: `InsertFails` and `UpdateMsgFails` are the errors of
`addChatLog`, after which the queue, with kq's default configuration, commits the offset
all the same; `Restart` is the death of the process at any step, the one before the
offset of a pushed message is committed included. What the queue handed out it may hand
out again at any later time (`ComeAgain`), with a `copy` of its own to tell the two
apart: it is stored and pushed again, under a new id. `link` is the one connection to the
server: on a broken one a write may be taken and lost, and of the frames on it the server
reads some first ones (`LinkBreaks`) or none (`ServerDies`). A task keeps the connection
that `GetConn` found: `Connect`, a new login, and `Disconnect` close it (`Closed`), and a
push written to it then is lost, although the user may be online again.

Two histories name the losses: `missed`, who was not reached with which row, entered
at the points where the code gives a push up, and `unstored`, the messages whose
`Consume` ended before their insert.

### JobRetry: WithRetry

`Attempt` starts the handler's goroutine (`HandlerReturns`, `HandlerSends`), the caller
waits in `select` (`Take`, `TimedOut`), pauses (`Sleep`) and tries again or gives up;
`ContextEnds` is the deadline. The goroutine of a job that timed out runs on.

### Conversation: lists and totals

Three Mongo collections and whoever works on them: the calls of the IM rpc and the
storing half of the chat consumer. `conversation` and `conversations` map an id or a
user to the *sequence* of his documents, because no collection has a unique index and
two finds that miss lead to two inserts; a find takes the first. `logs` counts the
stored messages of a conversation. Every command is a step; `run` holds what a
goroutine is about to do and what it has loaded, so a copy may be stale when `Save`
writes it back. `Fail` ends a goroutine anywhere: a failing command, an impatient
caller and a dying process look the same to the collections.

| code | action |
| --- | --- |
| SetUpUserConversation, CreateGroupConversation | `SetUp`, `CreateGroup`, `FindConversation`, `InsertConversation` |
| setUpUserConversation, for the sender and then the receiver | `LoadList`, `SaveList`, with `GoOn` for who is next |
| GetConversations | `Get`, `GetLoad`, `GetCount` (`ToRead`) |
| PutConversations | `Put`, `PutLoad`, `PutSave` (`AddReads`), `PutAnswer`, `PutRetry` |
| MsgChatTransfer.Consume up to the push | `Consume`, `StoreLog`, `UpdateMsg` |

A client is one that reads the answer to a `Get` before it reports, and never reports
more than it was told is unread. Three histories name what goes wrong in this code, so
that the properties can say what holds otherwise: `overwritten` (a list was saved from
a stale copy), `broken` (a set-up failed between its inserts and is never repaired,
because the conversation is found when it is tried again) and `again`, how many messages
of a conversation a user's list may count twice: those of a report that was saved and
then sent again (`PutRetry`), and those that a stale copy holds and the stored list does
not any more (`Ahead`). Left out:
the show flag, the chat type, `Seq`, chats with oneself, and retries of a set-up, which
are set-ups of their own.

### Friends, Groups, Users: rows, cached rows and calls

A call is a goroutine of an rpc server with the step it is at and what it has read.
Every database or cache command is a step, and `Fail` ends a call at any of them:
what it wrote stays, because what the code calls a transaction updates on a
connection of its own. A row's place in its table is its id.

| code | action |
| --- | --- |
| friendputinlogic | `FriendPutIn`, `FindFriends`, `FindRequest`, `InsertRequest` |
| friendputinhandlelogic | `FriendPutInHandle`, `FindOne`, `FillCache`, `Update`, `Evict`, `InsertFriends` |
| groupcreatelogic and the api after it | `GroupCreate`, `InsertGroup`, `InsertOwner`, `CreateGroupConversation` |
| groupputinlogic | `GroupPutIn`, `FindMember`, `FindRequest`, `Verify`, `InsertRequest`, `InsertMember` |
| groupputinhandlelogic | `GroupPutInHandle`, `FindOne`, `Update`, `Evict`, `InsertMember` |
| registerlogic, loginlogic, finduserlogic | `Register`, `Login`, `FindUser`, `FindByPhone`, `FillCache`, `Insert`, `Password` |

`cached` is Redis: the copy of a request, or what is known of a phone, "absent"
included; in `Friends` and `Users` the fill of the cache is a step of its own, and
`Expire` drops an entry. Two histories state the exceptions of the properties:
`disturbed` (overlapping calls about the same request, member or phone, or a cached
copy that outlived a change) and `broken` (accepted by a call that failed before it
inserted).

### Messages, Gateway: the HTTP services

`Messages` has every message of the three rpc services as a set of records and every
method with the types of its messages. `Gateway` has an action for every endpoint's
logic: the nth question it asks (`Ask`, `AskRedis`), the answer kept beside the
question in `got`, its returns (`ReturnOk`, `ReturnErr`) and its nil dereferences
(`Panic`). A service answers with any reply its logic makes (`Replies`) or fails. A
request begins in `Arrive` and `Parse` and ends in `SetLoad` and `SetStore` (Detail
only), `OkHandler` or `ErrHandler`, and the two deletes, `Cleanup` and
`CleanupByReqID`. The apis are processes of their own, so a behaviour is one `service`:
social answers through `resultx`, im and user through `respx`.

## 3. The runs

| run | bounds | shows |
| --- | --- | --- |
| ReadAck_modes | 3 modes, 2 ids, 3 frames, data numbers 0-1, ack numbers 1-2 | `TypeOK`, `AckRecorded`, `OneCopyPerId`, `AckedBeforeHandled`, `ConfirmedBeforeHandled`, `InboxSpec`, `DirectSpec`, `EventuallySettled` |
| WsServer_registry | 2 users, 3 connections, idle timer, failing closes | `TypeOK`, `MapsAgree`, `SingleLogin`, `ServedIsReachable`, `RemovedIsClosed`, `Forgotten` |
| GroupRead_receipts | merging: 2 goroutines, 2 read marks, 1 conversation, DelayCount 2; jobs: 2, 3 tries | `TypeOK`, `InOnePlace`, `OrphansAreEmpty`, `NothingLost`, `EventuallyForwarded`; `AnswersAreTrue` of `JobRetry` |
| Idempotence_safe | 3 attempts | `TypeOK`, `Exclusive`, `NoPhantomResult`, `LockIsFreed` |
| Conversation_lists | lists: 2 users, 1 group, 2 goroutines, 7 calls, 2 messages per conversation; records: 3 readers, 4 bits, 2 messages, 2 marks, 1 repetition; delivery: 2 messages, repetitions included, 2 rows | `TypeOK`, `CountedIsStored`, `ListedExists`, `EstablishedIsListed`, `ReadWithinTotal`; `RecordsAreTrue` of `ReadRecords`; `PushesAccounted` of `Delivery` |
| Social_rows | 2 users, 3 calls, 2 requests, 2 groups (one verified), 1 phone; 2 HTTP requests, 1 caller | `TypeOK`, `DecidedOnce`, `AcceptedAreFriends` of `Friends`; `JoinedOnce`, `RoomsAreComplete` of `Groups`; `OneUserPerPhone` of `Users`; `RpcsAreTyped`, `SuccessIsTrue`, `OwnMessage` of `Gateway` |

Why the bounds are enough. *ReadAck:* three frames hold a message, its confirmation
and a repeat or a second message between them. `MaxFrames` bounds what the client
sends and nothing else. The numbers give an ack that is too low for a message the
client numbered itself, equal, and high enough against the server's own 1. *WsServer:*
three connections allow a login, the one that replaces it and one that finds what the
replacement left; two users tell their entries apart. *GroupRead:* with `DelayCount`
2, two marks fill a batch, or are flushed one by one by the delay, the second arriving
while the first is being sent, or go to a released `groupMsgRead` and its successor;
conversations share only `mu` and the channel, and single chats compete for the
channel; the safety properties are proved for any number. *JobRetry:* three tries have
a first, a middle and a last; jobs are independent. *Idempotence:* 3 is the deployed
`MaxAttempts`. *Conversation:* seven calls set a chat up, store a message, fetch,
report, and leave three more to get in their way; two goroutines are enough for a stale
copy, and the pair's chat and the group share the users' documents. *ReadRecords:* of
three readers two share a bit and one does not; two marks meet in one message, or one
names a group's and a single chat's, and either comes again. *Delivery:* a message and
its repetition, or two messages, fill `MaxLogs`, and two goroutines push them over one
link to users who come and go. *Friends, Groups:* two calls ask while a third decides, or
one asks and two decide, and two requests tell their cached copies apart. *Users:* a
registration, a login and one more. *Gateway:* two requests, with the ids generated,
chosen, equal, or chosen as the one generated next. `MaxCalls`, `MaxLogs`,
`MaxRequests`, `MaxRows`, `MaxChats`, `MaxMarks`, `MaxRepeats` and `MaxIds` bound what happens and
guard nothing else.

`part` loses nothing: the components of one run share no variable, so an invariant of
one component holds of all interleavings if it holds of that component alone, and while
`JobRetry` moves `GroupRead` has nothing to be fair to.

Symmetry is used where only safety is checked and the set is interchangeable: users and
goroutines in Conversation_lists, HTTP requests in Social_rows. Deadlock checking is off
everywhere because all these systems may stop: a closed connection, nothing more to
consume, all calls over.

**Fairness.** Weak fairness of the goroutines' own steps and of the passing of time:
the Go scheduler runs what can run. In `GroupRead` sends on the channel and the
acquisition of mutexes are strongly fair, because Go serves blocked senders in turn
and mutexes avoid starvation. Never fair: a client sending, a peer leaving, a write
failing, a server dying, the idle timer. The services of `Friends` to `Gateway` and the
queue of `Delivery` promise nothing that must happen: a call may fail at any step, and
a queue may repeat a message as often as it likes, so only safety is stated of them.

### Disagreements between the code and what is written about it

Each is a run that TLC ends with a counterexample.

| run | what happens |
| --- | --- |
| WsServer_relogin (`SurvivesRelogin`) | A second login of a user closes the old connection and leaves it in `connToUser`. The old read loop fails, calls `Server.Close`, and `done` is closed twice: the process panics. This is the deployed configuration. |
| GroupRead_fatal (`PushIsNotFatal`) | After a batch was flushed `push` is nil, and the next receipt of that conversation is merged into it: the process panics. |
| Idempotence_twice (`AtMostOnce`) | A retry that read `status` before the first attempt saved it and takes the lock after the first deleted it carries the request out a second time. |
| Idempotence_failed (`FailureIsReturned`) | The cached result of a failed request is the JSON null, which the interceptor cannot tell from "in progress". |
| Conversation_retry (`ReportedOnce`) | `PutConversations` adds to what was read before and is retried by gRPC: when its answer is lost the messages count as read twice, and as many new ones are not reported. |
| Users_login (`NotRegisteredIsTrue`) | `Register` looks the phone up first, which caches that there is no such user, and its `Insert` deletes another key: whoever registers and logs in at once is told "手机号码没有注册", and may register again. |

Some more are visible in the models as the exceptions that properties name, and have
no run of their own: in RigorAck mode, which is not deployed, a repeated ack that
fails to be written unlocks a mutex that is not locked, and the process dies
(`RigorResend`, `crashed`); after a failed write of a first ack `readAck` leaves for good,
and a message the client numbered itself never times out (`EventuallySettled`); the
old connection of a second login stays in `connToUser` when its loop is blocked
(`Forgotten`); a repeat of an id whose message was handled is handled again
(`OneCopyPerId` speaks of messages on their way only); an idle `groupMsgRead` is not
released by its own sentinel, which names no conversation (`IdleTick`, `Release`); a
connection that failed authentication is never closed by the server (`AuthFail`); a
set-up that failed half way is never completed, and a list saved from a stale copy
drops a chat or a report (`EstablishedIsListed`, `ReadWithinTotal`); a message of a
conversation that does not exist, or whose count failed, is stored and never counted
(`CountedIsStored` bounds the count from above).

The newer modules show more of this kind. *Read records:* a failing `UpdateMakeRead`
is logged and the mark counts as consumed, though `msgReadTransfer.go:68` calls the
update one that must succeed; two goroutines with one message lose a read, in the chat
log (`overtaken`) or in the receipt (`hidden`); users whose ids hash alike are shown as
readers of what the other read (`RecordsAreTrue`). *Delivery:* `msgChatTransfer.go:45`
says of an error of `addChatLog` that the message will be consumed again ("返回 error，消息会重新消费"),
but kq commits after an error unless ForceCommit is turned off, which no configuration
here does, so the message is lost, or stored and never counted or pushed (`InsertFails`,
`UpdateMsgFails`); a message that does come again, after a restart, is stored and pushed
again under another id, for which no client can tell it from a new one (`ComeAgain`); a
push is lost when a login replaces the connection it was looked up for (`SendTo`).
`mqclient/msgtransfer.go:31-33` speaks of an order within a conversation
that the goroutines of the consumer do not keep; the sender of a group message receives
it too, because `msgTransfer.go:57` compares a member's id with the group's
(`Recipients`); a write on a half-closed link loses a push without an error (`Write`).
*JobRetry:* an attempt may start when the context has ended (`Sleep`). *Groups:* a
request whose insert failed makes a member all the same (`InsertRequest`). *Gateway:*
`PutConversations` answers copier's error instead of the rpc's; `GroupPutInHandle`
overwrites the rpc's error and sets the conversation up for the one who handles the
request, not the one who joins; `GroupPutInList` and `GroupUserOnline` dereference nil
when the rpc failed; no api forwards an inviter; an error whose text has "invalid" in it
is answered 401, and business errors reach the api as gRPC's Unknown and become 500
(`respxStatus`); a chat log looked up by its id comes without read records, so
everybody but the sender appears as not having read it (`GetChatLogOf`); `Detail` is the
only endpoint with a message of its own; and the idempotence middleware that
`docs/grpc-idempotency-implementation.md:207` speaks of is registered nowhere.

## 4. What is proved

For every value of the constants, from the named `ASSUME`s of each module only. What
they ask: bounds and delays are numbers (`RetryAssumption` for jobs); the names `none`
stand for nobody (`NoneAssumption`,
`NobodyAssumption`); verified groups are groups, a founder and the
user of a token are users (`VerifiedAssumption`, `NobodyAssumption`, `TokenAssumption`).
`Groups` and `Delivery` are proved under the same as a hypothesis (`Setting`); where a
run sets components side by side, the proof module of that run instantiates their
proofs, shows that the instance is the component (`SameGroups`, `SameDelivery`) and that
its constants meet the hypothesis (`GroupsSetting`), and so has the theorem of the state
machine the run checks. `GroupRead_proof`, `Conversation_proof` and `Social_proof`
prove the other components of their run directly, through the instance's name.

| theorem | of | argument |
| --- | --- | --- |
| `ReadAck_proof!TypeCorrect` | `TypeOK` | inductive as it stands |
| `ReadAck_proof!OneCopy`, `HeadIsRecorded` | `OneCopyPerId`, `AckRecorded` | `CopyInv`, `Routed` |
| `ReadAck_proof!RigorConfirmed` | `ConfirmedBeforeHandled` | `ConfInv` |
| `ReadAck_proof!AckedFirst` | `AckedBeforeHandled` | `AckInv` |
| `ReadAck_proof!QueueIsInbox`, `BypassIsInbox` | `InboxSpec`, `DirectSpec`: refinement of `AckInbox` | `AckInv`, the places joined |
| `WsServer_proof!TypeCorrect` | `TypeOK` | inductive |
| `WsServer_proof!MapsStayConsistent`, `OneLogin` | `MapsAgree`, `SingleLogin` | `RegInv` |
| `WsServer_proof!PushesReachTheReader` | `ServedIsReachable` | `RegInv` and `Served` |
| `WsServer_proof!RemovedAreClosed` | `RemovedIsClosed` | `RegInv` |
| `GroupRead_proof!TypeCorrect` | `TypeOK` | `TypeInv` |
| `GroupRead_proof!OrphansHoldNothing` | `OrphansAreEmpty` | `MapInv` |
| `GroupRead_proof!ReceiptInOnePlace` | `InOnePlace` | `PlaceInv` |
| `GroupRead_proof!ReceiptNeverLost` | `NothingLost` | `Movement` |
| `GroupRead_proof!RetriesAnswerTruly` | `AnswersAreTrue` of `JobRetry` | `JobInv` |
| `Idempotence_proof!TypeCorrect` | `TypeOK` | inductive |
| `Idempotence_proof!LockExcludes` | `Exclusive` | `Owns` |
| `Idempotence_proof!ResultsAreReal` | `NoPhantomResult` | `Backed` |
| `Conversation_proof!TypeCorrect` | `TypeOK` | inductive |
| `Conversation_proof!ListsAreBacked` | `ListedExists` | `ListInv` |
| `Conversation_proof!CountedAreStored` | `CountedIsStored` | `CountInv` |
| `Conversation_proof!EstablishedConversationsAreListed` | `EstablishedIsListed` | `SetUpInv` |
| `Conversation_proof!ReadsStayWithinTotal` | `ReadWithinTotal` | `ReadInv` |
| `Conversation_proof!ReadRecordsAreTrue` | `RecordsAreTrue` of `ReadRecords` | `RecordInv` |
| `Delivery_proof!EveryPushIsAccounted`, `Conversation_proof!PushesAreAccounted` | `PushesAccounted` of `Delivery` | `DeliveryInv` |
| `Social_proof!TypeCorrect` | `TypeOK` of `Friends` | inductive |
| `Social_proof!FriendsOfAccepted` | `AcceptedAreFriends` | `AcceptedSettled` |
| `Social_proof!RequestDecidedOnce` | `DecidedOnce` | `HandleInv` |
| `Social_proof!RequestDecisionIsFinal` | `DecisionIsFinal`, which no run checks | `HandleInv` |
| `Groups_proof!GroupsAreComplete`, `Social_proof!SocialRoomsAreComplete` | `RoomsAreComplete` of `Groups` | `RoomInv`, `AcceptedSettled` |
| `Groups_proof!MembersJoinOnce`, `Social_proof!SocialMembersJoinOnce` | `JoinedOnce` of `Groups` | `JoinInv` |
| `Social_proof!PhonesHaveOneUser` | `OneUserPerPhone` of `Users` | `UserInv` |
| `Social_proof!GatewaySuccessIsTrue`, `RequestsKeepTheirMessage` | `SuccessIsTrue`, `OwnMessage` of `Gateway` | `GateInv` |
| `Social_proof!GatewayRpcsAreTyped` | `RpcsAreTyped` of `Gateway` | `FitInv` |

*ReadAck.* `OneCopyPerId` alone is not inductive: a message could be queued while
another with its id is in somebody's hand if the id were missing from the map.
`CopyInv` adds that every message on its way has its id in `readMessageSeq`;
`Routed` adds that what the reader sends itself never passes through the queue and
what the writer forgets always does. Then a new message is queued only if no other
with its id is on its way, and `handlerWrite` deletes an id only when its message was
the only one. For `RigorConfirmed`, `ConfInv` follows numbers: every entry in the map
is either the queued message itself or a frame the client sent later with that id and
number, and every message past the queue has such a frame with a higher number.

For `AckedFirst` a queued message is faithful to its frame, and once the server has
numbered it the ack was written or `readAck` has left; so one that is carried, or was
handled, was acknowledged if the server owed it an ack (`AckInv`). The refinements rest
on the same invariant: what is unhandled lies, oldest first, in the writer's hand, in
the channel, in the hand of `readAck` and in the queue, and their `Join` is the inbox of
`AckInbox`. `ReadFrame` appends to it, `WriterHandle` takes its head, `RigorTimeout`
gives the oldest up, and every other step moves a message from one place to the next and
leaves the join as it was: a stutter. That a message in RigorAck mode is in at most one
of the two hands is what keeps the order.

*WsServer.* `RegInv` says of a registered connection that it is registered under the
user of its token and, while the process lives, that the user's entry names it unless
it has been told to stop (`Live`). That is what makes `Server.Close`, which deletes
the user's entry whatever it names, harmless: if it names another connection, this one
has been told to stop before, and closing it again ends the process. `Served` carries
registration and name from `addConn` to the read loop. Only `Server.Close` empties an
entry, and `addConn` enters a user, never `NoUser`, since `ServerWs` authenticated him:
so whoever is removed has been told to stop (`RemovedAreClosed`).

*Idempotence.* While handlers finish within the lock's time to live, whoever is
between SETNX and DEL owns the lock (`Owns`), so the unconditional DEL is harmless. A
result read from Redis was stored by somebody whose handler had committed (`Backed`).

*Conversation.* A list in somebody's memory becomes a stored one, so `ListInv` says of
every copy and of every report on its way that the conversations it names exist, and
that a report names one; documents are never deleted (`ConversationGrows`). For
`CountedIsStored`, `CountInv` counts the goroutines between `StoreLog` and `UpdateMsg`
(`Pending`): what a conversation counts and what is still to be counted do not exceed
what is stored, because each stored message is counted by the goroutine that stored
it, at most once. The proof uses that there are finitely many goroutines.
`SetUpInv`: from the insert of a single chat to the save of a list there is always a
goroutine that still has the user to do, unless a set-up failed (`broken`) or the list
was saved from a stale copy (`overwritten`); and a stored list is never taken away.
`ReadInv` is about one user: one of his goroutines waits at a time, and for each
conversation what he has read and what his client was told of and has not reported, or is
reporting, do not exceed the total and what may have been counted twice (`UserReads`). A
save from a copy keeps this, stale or not: what the copy counts and the stored list does
not (`Ahead`) is added to `again` in the same step (`SaveReads`). The theorem is an
upper bound that holds without exception; that `again` does grow is what
Conversation_retry shows, and for a user whose lists are saved from no stale copy and
whose reports are sent once it stays 0.

*ReadRecords.* `RecordInv` has three parts. `ClaimInv`: every bit, in the chat log, in a
goroutine's copy and in a receipt, is the place of somebody whose mark names the message;
it holds of what is loaded, and a goroutine adds only the bit of its own mark. `ShowInv`:
the stored bitmap shows every stored read that is not `overtaken`, and a goroutine's
copies show all of these but what was stored `since` it loaded them (`Keeps`); so a
store loses no other reads, and a receipt hides no others. `MarkTypes` is the rest. The
theorem leaves what the code leaves: reads lost to stale copies, and colliding hashes.

*GroupRead.* `InOnePlace` says that a consumed receipt is in at most one of the places
it can be in. `PlaceInv` adds when it is in none (before its mark is consumed, and once
it was forwarded), and a place's content can then change only by a move: by the lemma
`Movement` every step leaves the places as they are (`Stays`), moves what one holds to
another (`Moves`), adds a fresh receipt (`Adds`) or forwards one (`Forwards`). The same
case analysis proves `NothingLost`, an action property: what a step takes out of a
place is elsewhere or forwarded afterwards. `MapInv` adds to
`OrphansAreEmpty` that the map names for a conversation only a `groupMsgRead` of that
conversation which has not been cleared, so that a receipt is merged into no other.

*JobRetry.* `JobInv` says of each point of `WithRetry`'s loop what it knows of the attempts
so far: before an attempt all earlier ones failed and their number is the counter, while
it waits the last one is pending or has answered, and what it answers is what that
attempt answered, or the last error, or a timeout with an attempt still pending. Jobs are
independent.

*Friends.* That an accepted request has friends or a call on its way (`AcceptedSettled`)
is kept because each step hands the duty on: `Update` to the call itself, `InsertFriends`
to the table, `Fail` to `broken`. `DecidedOnce` needs `HandleInv`: a request that is not
`disturbed` is handled by one call at a time (`Alone`), its cached copy agrees with the
row whenever nobody is between update and eviction (`Fresh`), a call that is
about to update it knows the row to be undecided, and one that is past the update that
no friends were made yet (`Knows`), and friends were made once at most, of an accepted
request (`Once`).

*Groups.* A group exists before its creator is a member. `RoomInv` says that until then
it is known only to the call that makes it: nobody has asked to join it, nobody is in
it, and it has no conversation. `AcceptedSettled` hands the duty to make a member on as
in `Friends`. `JoinInv` counts a user's memberships of a group, ownership included
(`Total`, 0 or 1): while the pair is not `disturbed`, one call at a time is about it
(`Alone`), there is one request (`OneRequest`) whose cached copy agrees with the row
(`Fresh`) and which is undecided only while he is no member (`Waits`), and a call past its
checks knows that they still hold (`Knows`).

*Users.* A registration that found nobody is the only one of its phone, and there is
nobody as long as it has not inserted (`Unique`), unless two overlapped or the cached
"absent" was stale (`disturbed`).

*Gateway.* `Faithful` follows one request: its logic goes on only from a success or from
one of the three answers `Excused` names, so at every step all answers but the last are
granted, and 200 is written only when the last is, too; an error carries a status that is
not 200. Each endpoint is a handful of moves, and `AskMoves`, `LeaveMoves` and
`ReturnMoves` are what a logic is made of. `Tidy` and `Apart`: a request that shares its
id with nobody finds no entry under it when it arrives, because entries belong to live
requests (`Owned`); if it is Detail its message is there before it answers; and no other
request touches it. For `GatewayRpcsAreTyped` the invariant `FitInv` keeps of every answer
that it is one of the replies to its question, and which question the logics that build
a message from a reply have asked (`AskedFor`): a chat log of a group, looked up by its
id, names a group, and so `GroupUsers` is asked for a group and never for a user.

*Delivery.* `PlaceInv`: whatever a goroutine, a frame, a task or an inbox holds is the id
of a row, and its recipients are that row's. `OnceInv`: an id is with one goroutine, or
in one frame, or spread over tasks and inboxes, one of the two for each recipient. It is
kept because `Insert` takes a new id (`PlaceInv`: every id in use is a row's), because a
goroutine lets go of the id when it writes the frame, and because nothing puts a frame or
a task back. `AccountInv`: every row is, for each of its recipients, at one of these
places or `missed`, and never both, because each step that takes it from a place hands it
to the next or enters it. `FreshInv`: what the queue holds, has handed out or a goroutine
has not stored yet is told apart by its `copy`, so that no two rows are of one handing
out. `KeptInv`: a message is in the queue, with a goroutine, in the chat log or
`unstored`. `Kinds` names the few ways in which a step can touch all this. The theorem
promises no delivery and no single row per message, since the code does neither.

Model-checked only: the liveness properties, `EventuallySettled`, `Forgotten`,
`EventuallyForwarded` and `LockIsFreed`, and the six disagreements, which are
counterexamples. Liveness under fairness and ENABLED are beyond the prover, and so is
induction over data; no module here has a RECURSIVE operator. Every safety property of
a passing run is proved.

## 5. What is not modelled

- **Configuration server and Sail client.** On a change they call go-zero's
  `proc.WrapUp` and start the service anew (before the new configuration was parsed).
  What of the old instance stops is decided in go-zero, which is not in this repository.
- **Read receipts in AtTransfer mode**, which is not deployed: a push is serialised
  while the same map is merged into. Go does not bound what such a race does.
- **Kafka keys and partitions.** The consuming goroutines make no use of them.
- **protoc's descriptors and registration code**, generated updates and deletes that
  nothing calls, routing tables, JSON and protobuf encoding.
- **Password hashing, tokens, ids, logging:** pure or without state that interleaves. A
  password is right or wrong, a token names its user.
- Frames that fail to parse or validate are answered and dropped without touching any
  state and are left out of `ReadAck`; pings and acks have no handler. A handler that
  runs longer than the lock's time to live is a switch of `Idempotence` (`SlowHandler`)
  that the runs leave off: then exclusion is lost, as with any lock with a time to live.
- **Composition.** Components that exchange messages are joined by what the receiver may
  get, chosen freely: `Gateway` takes any reply, `Conversation` any client. Only the
  storing half of the chat consumer shares its documents with the IM rpc.

Next would be the composition of `ReadAck` with `Delivery` (the frames of a connection
as the handler's input), and a proof that `Delivery`'s server is what `WsServer` promises.
