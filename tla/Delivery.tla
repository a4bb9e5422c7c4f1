------------------------------- MODULE Delivery -------------------------------
(***************************************************************************)
(* A chat message on its way: the websocket handler Chat publishes it, a   *)
(* goroutine of the task MQ stores it and pushes it over the one websocket *)
(* connection to the websocket server, whose handler Push looks up the     *)
(* connection of each recipient and writes to it.                          *)
(*                                                                         *)
(* The queue goes on after an error: kq logs it and commits the offset     *)
(* (ForceCommit is left at its default), so a failed message is gone.      *)
(* After a restart or a rebalance it goes on from an offset that any of    *)
(* its goroutines committed, so what was taken may come again, whether or  *)
(* not it was stored and pushed.                                           *)
(***************************************************************************)
EXTENDS Naturals, Sequences, FiniteSets

CONSTANTS
  Chatters,     \* the users
  Rooms,        \* the groups, also the ids of their conversations
  InRoom,       \* who belongs to each group: Rooms -> SUBSET Chatters
  Handlers,     \* the goroutines of the queue
  MaxChats,     \* bound: how often users send a message or one comes again
  MaxLogs       \* bound: the rows of the chat log

VARIABLES
  published,  \* how many messages users sent
  repeats,    \* how many came again
  topic,      \* the messages in the queue
  taken,      \* the messages the queue handed out, which may come again
  handler,    \* MsgChatTransfer.Consume in each goroutine
  chatlog,    \* the collection chat_log: a row's place is its MsgId
  link,       \* the connection of the task MQ to the server: "up" or "broken"
  sending,    \* client.mu: the goroutines inside Send
  pushes,     \* the frames that the server has not handled yet
  tasks,      \* the tasks of a group push (srv.Schedule), and a single push
  online,     \* the users with a connection
  inbox,      \* history: the MsgIds that each user received, in order
  missed,     \* history: who was not reached with which MsgId, where it is known
  unstored    \* history: the messages whose Consume ended without a row

queue == <<published, repeats, topic, taken>>
server == <<tasks, online, inbox>>
vars == <<queue, handler, chatlog, link, sending, pushes, server, missed, unstored>>

(* wuid.CombineId: the same for both users of a single chat.                *)
CombineId(u, v) == {u, v}
(* A message; copy is 0 when it comes first and tells its repetitions apart. *)
Chat == [id: 1..MaxChats, copy: 0..MaxChats, from: Chatters, to: Chatters \cup Rooms]
ConversationId(c) == IF c.to \in Rooms THEN {c.to} ELSE CombineId(c.to, c.from)

NoChat == [id |-> 0, copy |-> 0, from |-> "none", to |-> "none"]
Waiting == [pc |-> "idle", chat |-> NoChat, msgId |-> 0, recvIds |-> {}]

Init ==
  /\ published = 0 /\ repeats = 0
  /\ topic = {} /\ taken = {}
  /\ handler = [h \in Handlers |-> Waiting]
  /\ chatlog = <<>>
  /\ link = "up" /\ sending = {}
  /\ pushes = <<>> /\ tasks = {}
  /\ online = {}
  /\ inbox = [u \in Chatters |-> <<>>]
  /\ missed = {} /\ unstored = {}

(* Transfer: a single chat goes to its recipient; of a group the members    *)
(* are asked for, all but the one whose id is the group's (the code means   *)
(* the sender, who gets his own message).                                   *)
Recipients(c) == IF c.to \in Rooms THEN {u \in InRoom[c.to] : u # c.to} ELSE {c.to}

(* Nobody, of those it is meant for, is pushed what h holds.                *)
Holding(h) == handler[h].pc \in {"members", "lock", "write", "dial"}
Undelivered(h) == {<<handler[h].msgId, u>> : u \in Recipients(handler[h].chat)}
Rest(h) == handler' = [handler EXCEPT ![h] = Waiting]

-----------------------------------------------------------------------------
(* Chat: the conversation is that of the two users, or the group, when the  *)
(* client names none.  Push of the queue's client: the conversation is the  *)
(* key.  Its failure is answered to the sender.                             *)
Publish(u, to) ==
  /\ published + repeats < MaxChats /\ u # to /\ u \in online
  /\ published' = published + 1
  /\ topic' = topic \cup {[id |-> published + 1, copy |-> 0, from |-> u, to |-> to]}
  /\ UNCHANGED <<repeats, taken, handler, chatlog, link, sending, pushes, server, missed, unstored>>

Fetch(h, c) ==
  /\ handler[h].pc = "idle" /\ c \in topic
  /\ topic' = topic \ {c} /\ taken' = taken \cup {c}
  /\ handler' = [handler EXCEPT ![h] = [Waiting EXCEPT !.pc = "insert", !.chat = c]]
  /\ UNCHANGED <<published, repeats, chatlog, link, sending, pushes, server, missed, unstored>>

(* The offset the queue goes on from is before that of the message.         *)
ComeAgain(c) ==
  /\ c \in taken /\ published + repeats < MaxChats
  /\ repeats' = repeats + 1
  /\ topic' = topic \cup {[c EXCEPT !.copy = repeats + 1]}
  /\ UNCHANGED <<published, taken, handler, chatlog, link, sending, pushes, server, missed, unstored>>

(* The process of the task MQ dies and is started again, and dials anew.    *)
Restart ==
  /\ handler' = [h \in Handlers |-> Waiting]
  /\ sending' = {} /\ link' = "up"
  /\ missed' = missed \cup UNION {Undelivered(h) : h \in {k \in Handlers : Holding(k)}}
  /\ unstored' = unstored \cup {handler[h].chat.id : h \in {k \in Handlers : handler[k].pc = "insert"}}
  /\ UNCHANGED <<queue, chatlog, pushes, server>>

(* addChatLog: Insert, under an id made for this try, then UpdateMsg, which *)
(* is the subject of Conversation.                                          *)
Row(h) == [conv |-> ConversationId(handler[h].chat), chat |-> handler[h].chat]
Insert(h) ==
  /\ handler[h].pc = "insert" /\ Len(chatlog) < MaxLogs
  /\ chatlog' = Append(chatlog, Row(h))
  /\ handler' = [handler EXCEPT ![h].pc = "members", ![h].msgId = Len(chatlog) + 1]
  /\ UNCHANGED <<queue, link, sending, pushes, server, missed, unstored>>

(* Insert fails, or UpdateMsg after it: Consume returns the error.          *)
InsertFails(h) ==
  /\ handler[h].pc = "insert"
  /\ unstored' = unstored \cup {handler[h].chat.id}
  /\ Rest(h)
  /\ UNCHANGED <<queue, chatlog, link, sending, pushes, server, missed>>
UpdateMsgFails(h) ==
  /\ handler[h].pc = "members"
  /\ missed' = missed \cup Undelivered(h)
  /\ Rest(h)
  /\ UNCHANGED <<queue, chatlog, link, sending, pushes, server, unstored>>

(* If asking for the members fails, the error is logged and nobody gets it. *)
Members(h) ==
  /\ handler[h].pc = "members"
  /\ \/ /\ handler' = [handler EXCEPT ![h].pc = "lock", ![h].recvIds = Recipients(handler[h].chat)]
        /\ UNCHANGED missed
     \/ /\ handler[h].chat.to \in Rooms
        /\ missed' = missed \cup Undelivered(h)
        /\ Rest(h)
  /\ UNCHANGED <<queue, chatlog, link, sending, pushes, server, unstored>>

(* client.Send under the client's lock.  A write to a broken connection may *)
(* be taken for good; one that fails is followed by one attempt to dial and *)
(* write again.                                                             *)
Lock(h) ==
  /\ handler[h].pc = "lock" /\ sending = {}
  /\ sending' = {h}
  /\ handler' = [handler EXCEPT ![h].pc = "write"]
  /\ UNCHANGED <<queue, chatlog, link, pushes, server, missed, unstored>>

Frame(h) == [msgId |-> handler[h].msgId, to |-> handler[h].recvIds]
Unlock(h) == sending' = {} /\ Rest(h)
Write(h) ==
  /\ handler[h].pc = "write"
  /\ \/ /\ link = "up"
        /\ pushes' = Append(pushes, Frame(h))
        /\ Unlock(h)
        /\ UNCHANGED missed
     \/ /\ link = "broken"
        /\ missed' = missed \cup Undelivered(h)
        /\ Unlock(h)
        /\ UNCHANGED pushes
     \/ /\ link = "broken"
        /\ handler' = [handler EXCEPT ![h].pc = "dial"]
        /\ UNCHANGED <<sending, pushes, missed>>
  /\ UNCHANGED <<queue, chatlog, link, server, unstored>>

(* Dialling fails, or the second write: the error of Transfer is logged.    *)
DialFails(h) ==
  /\ handler[h].pc = "dial"
  /\ missed' = missed \cup Undelivered(h)
  /\ Unlock(h)
  /\ UNCHANGED <<queue, chatlog, link, pushes, server, unstored>>
(* Mutant: the frame is not written again.                                  *)
RedialOnly(h) ==
  /\ handler[h].pc = "dial"
  /\ link' = "up"
  /\ Unlock(h)
  /\ UNCHANGED <<queue, chatlog, pushes, server, missed, unstored>>
Redial(h) ==
  /\ handler[h].pc = "dial"
  /\ link' = "up"
  /\ pushes' = Append(pushes, Frame(h))
  /\ Unlock(h)
  /\ UNCHANGED <<queue, chatlog, server, missed, unstored>>

(* The connection breaks, and of the frames on it the server reads the      *)
(* first n.  If the server dies it reads none, and what it had to do is     *)
(* gone, too.                                                               *)
Unread(n) == UNION {{<<pushes[i].msgId, u>> : u \in pushes[i].to} : i \in DOMAIN pushes \ 1..n}
Undone == {<<t.msgId, t.to>> : t \in tasks}
LinkBreaks(n) ==
  /\ link = "up"
  /\ link' = "broken"
  /\ pushes' = SubSeq(pushes, 1, n)
  /\ missed' = missed \cup Unread(n)
  /\ UNCHANGED <<queue, handler, chatlog, sending, server, unstored>>
ServerDies ==
  /\ link' = "broken"
  /\ pushes' = <<>> /\ tasks' = {} /\ online' = {}
  /\ missed' = missed \cup Unread(0) \cup Undone
  /\ UNCHANGED <<queue, handler, chatlog, sending, inbox, unstored>>

-----------------------------------------------------------------------------
(* The websocket server's handler Push: single at once, group as one task   *)
(* for each recipient.                                                      *)
Push ==
  LET f == Head(pushes)
  IN /\ pushes # <<>>
     /\ pushes' = Tail(pushes)
     /\ tasks' = tasks \cup {[msgId |-> f.msgId, to |-> u, rconn |-> "none"] : u \in f.to}
     /\ UNCHANGED <<queue, handler, chatlog, link, sending, online, inbox, missed, unstored>>

(* GetConn: a user without a connection gets nothing.                       *)
GetConn(t) ==
  /\ t \in tasks /\ t.rconn = "none"
  /\ IF t.to \in online
     THEN tasks' = (tasks \ {t}) \cup {[t EXCEPT !.rconn = "open"]} /\ UNCHANGED missed
     ELSE tasks' = tasks \ {t} /\ missed' = missed \cup {<<t.msgId, t.to>>}
  /\ UNCHANGED <<queue, handler, chatlog, link, sending, pushes, online, inbox, unstored>>

(* Send, to the connection that was found: lost if that one is closed by    *)
(* now, even if the user has another.                                       *)
SendTo(t) ==
  /\ t \in tasks /\ t.rconn # "none"
  /\ tasks' = tasks \ {t}
  /\ IF t.rconn = "open"
     THEN inbox' = [inbox EXCEPT ![t.to] = Append(@, t.msgId)] /\ UNCHANGED missed
     ELSE missed' = missed \cup {<<t.msgId, t.to>>} /\ UNCHANGED inbox
  /\ UNCHANGED <<queue, handler, chatlog, link, sending, pushes, online, unstored>>

(* A user connects; his connection ends, or a new login closes it and takes *)
(* its place.                                                               *)
Closed(u) ==
  {IF t.to = u /\ t.rconn = "open" THEN [t EXCEPT !.rconn = "closed"] ELSE t : t \in tasks}
Connect(u) ==
  /\ online' = online \cup {u}
  /\ tasks' = Closed(u)
  /\ UNCHANGED <<queue, handler, chatlog, link, sending, pushes, inbox, missed, unstored>>
Disconnect(u) ==
  /\ u \in online /\ online' = online \ {u}
  /\ tasks' = Closed(u)
  /\ UNCHANGED <<queue, handler, chatlog, link, sending, pushes, inbox, missed, unstored>>

Next ==
  \/ \E u \in Chatters :
       (\E to \in Chatters \cup Rooms : Publish(u, to)) \/ Connect(u) \/ Disconnect(u)
  \/ \E h \in Handlers :
       \/ \E c \in topic : Fetch(h, c)
       \/ Insert(h) \/ InsertFails(h) \/ UpdateMsgFails(h) \/ Members(h)
       \/ Lock(h) \/ Write(h) \/ DialFails(h) \/ Redial(h)
  \/ (\E c \in taken : ComeAgain(c)) \/ Restart
  \/ (\E n \in 0..Len(pushes) : LinkBreaks(n)) \/ ServerDies
  \/ Push
  \/ \E t \in tasks : GetConn(t) \/ SendTo(t)

Spec == Init /\ [][Next]_vars

-----------------------------------------------------------------------------
(* Properties *)

(* Where a message can be on its way to a recipient, and what he has.       *)
Received(m, u) == \E k \in DOMAIN inbox[u] : inbox[u][k] = m
OnTheWay(m, u) ==
  \/ \E h \in Handlers : Holding(h) /\ handler[h].msgId = m
  \/ \E i \in DOMAIN pushes : pushes[i].msgId = m /\ u \in pushes[i].to
  \/ \E t \in tasks : t.msgId = m /\ t.to = u

(* EachRowOnce: whatever a user receives is in the chat log, under the id   *)
(* he receives, was meant for him, and comes once, however often the client *)
(* dials and writes again; and a message is stored once for each time that  *)
(* the queue handed it out.                                                 *)
EachRowOnce ==
  /\ \A u \in Chatters : \A k \in DOMAIN inbox[u] :
       /\ inbox[u][k] \in DOMAIN chatlog /\ u \in Recipients(chatlog[inbox[u][k]].chat)
       /\ \A l \in DOMAIN inbox[u] : inbox[u][k] = inbox[u][l] => k = l
  /\ \A i, j \in DOMAIN chatlog : chatlog[i].chat = chatlog[j].chat => i = j

(* PushesAccounted: a message that is in the chat log is received by each   *)
(* of its recipients, or on its way to him, or it was given up at one of    *)
(* the points where this code gives up (an error after the insert, a dead   *)
(* process, a broken link, nobody online, a connection that was replaced),  *)
(* and then he does not receive it; and a message that is not in the log is *)
(* in the queue or in hand, or its insert was not reached.  Nothing else    *)
(* loses a push (msgChatTransfer.go:41-69, client.go:48-71, push.go:36-72). *)
PushesAccounted ==
  /\ EachRowOnce
  /\ \A m \in DOMAIN chatlog : \A u \in Recipients(chatlog[m].chat) :
       /\ Received(m, u) \/ OnTheWay(m, u) \/ <<m, u>> \in missed
       /\ <<m, u>> \in missed => ~Received(m, u) /\ ~OnTheWay(m, u)
  /\ \A n \in 1..published :
       \/ \E c \in topic : c.id = n
       \/ \E h \in Handlers : handler[h].chat.id = n
       \/ \E i \in DOMAIN chatlog : chatlog[i].chat.id = n
       \/ n \in unstored
=============================================================================
