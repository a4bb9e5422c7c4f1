--------------------------- MODULE Delivery_proof ---------------------------
(***************************************************************************)
(* Proofs about Delivery, for any users, groups, goroutines and bounds.    *)
(***************************************************************************)
EXTENDS Delivery, SequenceTheorems, TLAPS

(* What the proofs take of the constants.                                   *)
Setting == InRoom \in [Rooms -> SUBSET Chatters]

-----------------------------------------------------------------------------
(* Types *)

Chats == [id: Nat, copy: Nat, from: Chatters, to: Chatters \cup Rooms]
Rows == [conv: SUBSET (Chatters \cup Rooms), chat: Chats]
Frames == [msgId: Nat, to: SUBSET Chatters]
Held == {"members", "lock", "write", "dial"}
Addressed == {"lock", "write", "dial"}
Handler == [pc: Held \cup {"idle", "insert"}, chat: Chats \cup {NoChat}, msgId: Nat,
            recvIds: SUBSET Chatters]
Tasks == [msgId: Nat, to: Chatters, rconn: {"none", "open", "closed"}]

TypeOK ==
  /\ published \in Nat /\ repeats \in Nat
  /\ topic \subseteq Chats /\ taken \subseteq Chats
  /\ handler \in [Handlers -> Handler]
  /\ \A h \in Handlers : handler[h].pc # "idle" => handler[h].chat \in Chats
  /\ chatlog \in Seq(Rows)
  /\ pushes \in Seq(Frames)
  /\ tasks \subseteq Tasks
  /\ inbox \in [Chatters -> Seq(Nat)]

LEMMA RecipientsAreUsers ==
  ASSUME Setting, NEW c \in Chats PROVE Recipients(c) \subseteq Chatters
BY DEF Setting, Chats, Recipients

LEMMA WaitingHandler ==
  Waiting \in Handler /\ Waiting.pc = "idle" /\ Waiting.chat = NoChat
BY DEF Waiting, Handler

(* One goroutine takes a step and the others stay.                          *)
LEMMA OneHandler ==
  ASSUME TypeOK, NEW h \in Handlers, NEW x \in Handler, handler' = [handler EXCEPT ![h] = x],
         x.pc # "idle" => x.chat \in Chats
  PROVE  /\ handler'[h] = x /\ \A k \in Handlers \ {h} : handler'[k] = handler[k]
         /\ handler' \in [Handlers -> Handler]
         /\ \A k \in Handlers : handler'[k].pc # "idle" => handler'[k].chat \in Chats
BY DEF TypeOK

(* It goes on with what it has.                                             *)
Goes(h, pc) ==
  /\ handler'[h].pc = pc /\ handler'[h].chat = handler[h].chat
  /\ \A k \in Handlers \ {h} : handler'[k] = handler[k]
Rests(h) ==
  /\ handler'[h] = Waiting
  /\ \A k \in Handlers \ {h} : handler'[k] = handler[k]
HandlersOK ==
  /\ handler' \in [Handlers -> Handler]
  /\ \A k \in Handlers : handler'[k].pc # "idle" => handler'[k].chat \in Chats

LEMMA NowRests ==
  ASSUME TypeOK, NEW h \in Handlers, Rest(h)
  PROVE  Rests(h) /\ HandlersOK
BY WaitingHandler, OneHandler DEF Rest, Rests, HandlersOK

LEMMA NowGoes ==
  ASSUME TypeOK, NEW h \in Handlers, handler[h].pc # "idle", NEW pc \in Held,
         handler' = [handler EXCEPT ![h].pc = pc]
  PROVE  /\ Goes(h, pc) /\ HandlersOK
         /\ handler'[h].msgId = handler[h].msgId /\ handler'[h].recvIds = handler[h].recvIds
<1> DEFINE x == [handler[h] EXCEPT !.pc = pc]
<1>1. handler[h] \in Handler /\ handler[h].chat \in Chats
  BY DEF TypeOK
<1>2. x \in Handler /\ x.pc = pc /\ x.chat = handler[h].chat
      /\ x.msgId = handler[h].msgId /\ x.recvIds = handler[h].recvIds
  BY <1>1 DEF Handler
<1>3. handler' = [handler EXCEPT ![h] = x]
  OBVIOUS
<1> HIDE DEF x
<1> QED
  BY <1>1, <1>2, <1>3, OneHandler DEF Goes, HandlersOK

LEMMA NowFetched ==
  ASSUME TypeOK, NEW h \in Handlers, NEW c \in Chats, Fetch(h, c)
  PROVE  /\ handler'[h].pc = "insert" /\ handler'[h].chat = c /\ HandlersOK
         /\ \A k \in Handlers \ {h} : handler'[k] = handler[k]
<1> DEFINE x == [Waiting EXCEPT !.pc = "insert", !.chat = c]
<1>1. x \in Handler /\ x.pc = "insert" /\ x.chat = c
  BY DEF Waiting, Handler
<1>2. handler' = [handler EXCEPT ![h] = x]
  BY DEF Fetch
<1> HIDE DEF x
<1> QED
  BY <1>1, <1>2, OneHandler DEF HandlersOK

(* The new row is the last one, and the goroutine has its id.               *)
LEMMA NowInserted ==
  ASSUME TypeOK, NEW h \in Handlers, Insert(h)
  PROVE  /\ Goes(h, "members") /\ HandlersOK /\ handler'[h].msgId = Len(chatlog) + 1
         /\ chatlog' \in Seq(Rows)
         /\ DOMAIN chatlog' = DOMAIN chatlog \cup {Len(chatlog) + 1}
         /\ Len(chatlog) + 1 \notin DOMAIN chatlog
         /\ chatlog'[Len(chatlog) + 1].chat = handler[h].chat
         /\ \A m \in DOMAIN chatlog : chatlog'[m] = chatlog[m]
<1> DEFINE new == Len(chatlog) + 1
           x == [handler[h] EXCEPT !.pc = "members", !.msgId = new]
           row == Row(h)
<1>1. handler[h] \in Handler /\ handler[h].chat \in Chats /\ handler[h].pc = "insert"
  BY DEF TypeOK, Insert
<1>2. chatlog \in Seq(Rows) /\ Len(chatlog) \in Nat
  BY LenProperties DEF TypeOK
<1>3. row \in Rows /\ row.chat = handler[h].chat
  BY <1>1 DEF Row, Rows, ConversationId, CombineId, Chats
<1>4. chatlog' = Append(chatlog, row)
  BY DEF Insert
<1>5. x \in Handler /\ x.pc = "members" /\ x.chat = handler[h].chat /\ x.msgId = new
  <2>1. new \in Nat
    BY <1>2
  <2> HIDE DEF new
  <2> QED
    BY <1>1, <2>1 DEF Handler, Held
<1>6. handler' = [handler EXCEPT ![h] = x]
  BY DEF Insert
<1> HIDE DEF x, row
<1>7. Goes(h, "members") /\ HandlersOK /\ handler'[h].msgId = new
  BY <1>1, <1>5, <1>6, OneHandler DEF Goes, HandlersOK
<1>8. /\ chatlog' \in Seq(Rows) /\ Len(chatlog') = new
      /\ \A m \in 1..Len(chatlog) : chatlog'[m] = chatlog[m]
      /\ chatlog'[new] = row
  BY <1>2, <1>3, <1>4, AppendProperties
<1>9. DOMAIN chatlog = 1..Len(chatlog) /\ DOMAIN chatlog' = 1..new
  BY <1>2, <1>8, LenProperties
<1>10. DOMAIN chatlog' = DOMAIN chatlog \cup {new} /\ new \notin DOMAIN chatlog
  BY <1>2, <1>9
<1> QED
  BY <1>3, <1>7, <1>8, <1>9, <1>10

(* The recipients are known.                                                *)
LEMMA NowMembers ==
  ASSUME Setting, TypeOK, NEW h \in Handlers, handler[h].pc = "members",
         handler' = [handler EXCEPT ![h].pc = "lock", ![h].recvIds = Recipients(handler[h].chat)]
  PROVE  /\ Goes(h, "lock") /\ HandlersOK /\ handler'[h].msgId = handler[h].msgId
         /\ handler'[h].recvIds = Recipients(handler[h].chat)
<1> DEFINE x == [handler[h] EXCEPT !.pc = "lock", !.recvIds = Recipients(handler[h].chat)]
<1>1. handler[h] \in Handler /\ handler[h].chat \in Chats
  BY DEF TypeOK
<1>2. x \in Handler /\ x.pc = "lock" /\ x.chat = handler[h].chat
      /\ x.msgId = handler[h].msgId /\ x.recvIds = Recipients(handler[h].chat)
  BY <1>1, RecipientsAreUsers DEF Handler, Held
<1>3. handler' = [handler EXCEPT ![h] = x]
  OBVIOUS
<1> HIDE DEF x
<1> QED
  BY <1>1, <1>2, <1>3, OneHandler DEF Goes, HandlersOK

(* A frame is added at the end of the link, or nothing is.                  *)
LEMMA NowPushed ==
  ASSUME TypeOK, NEW h \in Handlers, pushes' = Append(pushes, Frame(h))
  PROVE  /\ pushes' \in Seq(Frames)
         /\ DOMAIN pushes' = DOMAIN pushes \cup {Len(pushes) + 1}
         /\ Len(pushes) + 1 \notin DOMAIN pushes
         /\ \A i \in DOMAIN pushes : pushes'[i] = pushes[i]
         /\ pushes'[Len(pushes) + 1].msgId = handler[h].msgId
         /\ pushes'[Len(pushes) + 1].to = handler[h].recvIds
<1> DEFINE new == Len(pushes) + 1
           frame == Frame(h)
<1>1. frame \in Frames /\ frame.msgId = handler[h].msgId /\ frame.to = handler[h].recvIds
  BY DEF TypeOK, Frame, Frames, Handler
<1>2. pushes \in Seq(Frames) /\ Len(pushes) \in Nat
  BY LenProperties DEF TypeOK
<1>3. pushes' = Append(pushes, frame)
  OBVIOUS
<1> HIDE DEF frame
<1>4. /\ pushes' \in Seq(Frames) /\ Len(pushes') = new
      /\ \A i \in 1..Len(pushes) : pushes'[i] = pushes[i]
      /\ pushes'[new] = frame
  BY <1>1, <1>2, <1>3, AppendProperties
<1>5. DOMAIN pushes = 1..Len(pushes) /\ DOMAIN pushes' = 1..new
  BY <1>2, <1>4, LenProperties
<1>6. DOMAIN pushes' = DOMAIN pushes \cup {new} /\ new \notin DOMAIN pushes
  BY <1>2, <1>5
<1> QED
  BY <1>1, <1>4, <1>5, <1>6

(* The first n frames stay on the link.                                     *)
LEMMA NowCut ==
  ASSUME TypeOK, NEW n \in 0..Len(pushes), pushes' = SubSeq(pushes, 1, n)
  PROVE  /\ pushes' \in Seq(Frames)
         /\ DOMAIN pushes' = 1..n /\ DOMAIN pushes' \subseteq DOMAIN pushes
         /\ \A i \in DOMAIN pushes' : pushes'[i] = pushes[i]
<1>1. pushes \in Seq(Frames) /\ Len(pushes) \in Nat /\ DOMAIN pushes = 1..Len(pushes)
  BY LenProperties DEF TypeOK
<1>2. \A i \in 1..n : i \in DOMAIN pushes /\ pushes[i] \in Frames
  BY <1>1, ElementOfSeq
<1>3. /\ pushes' \in Seq(Frames) /\ Len(pushes') = n
      /\ \A i \in 1..n : pushes'[i] = pushes[i]
  BY <1>1, <1>2, SubSeqProperties
<1> QED
  BY <1>2, <1>3, LenProperties

(* The first frame leaves the link.                                         *)
LEMMA NowTaken ==
  ASSUME TypeOK, Push
  PROVE  /\ 1 \in DOMAIN pushes /\ pushes[1] \in Frames
         /\ pushes' \in Seq(Frames)
         /\ \A i \in DOMAIN pushes' : i + 1 \in DOMAIN pushes /\ i + 1 # 1 /\ pushes'[i] = pushes[i + 1]
         /\ \A j \in DOMAIN pushes : j # 1 => j - 1 \in DOMAIN pushes' /\ pushes'[j - 1] = pushes[j]
         /\ tasks' = tasks \cup {[msgId |-> pushes[1].msgId, to |-> u, rconn |-> "none"] : u \in pushes[1].to}
<1>1. pushes \in Seq(Frames) /\ pushes # <<>> /\ pushes' = Tail(pushes)
  BY DEF TypeOK, Push
<1>2. Len(pushes) \in Nat /\ Len(pushes) > 0 /\ DOMAIN pushes = 1..Len(pushes) /\ Head(pushes) = pushes[1]
  BY <1>1, LenProperties, EmptySeq, HeadTailProperties
<1>3. pushes' \in Seq(Frames) /\ Len(pushes') = Len(pushes) - 1
      /\ \A i \in 1..Len(pushes') : pushes'[i] = pushes[i + 1]
  BY <1>1, HeadTailProperties
<1>4. DOMAIN pushes' = 1..(Len(pushes) - 1)
  BY <1>3, LenProperties
<1>5. 1 \in DOMAIN pushes /\ pushes[1] \in Frames
  BY <1>1, <1>2, ElementOfSeq
<1>6. \A i \in DOMAIN pushes' : i + 1 \in DOMAIN pushes /\ i + 1 # 1 /\ pushes'[i] = pushes[i + 1]
  BY <1>2, <1>3, <1>4
<1>7. ASSUME NEW j \in DOMAIN pushes, j # 1
      PROVE  j - 1 \in DOMAIN pushes' /\ pushes'[j - 1] = pushes[j]
  <2>1. j - 1 \in DOMAIN pushes' /\ (j - 1) + 1 = j
    BY <1>2, <1>4, <1>7
  <2> QED
    BY <1>6, <2>1
<1> QED
  BY <1>2, <1>3, <1>5, <1>6, <1>7 DEF Push

(* What arrives is the last in the inbox.                                   *)
Arrives(t) == inbox' = [inbox EXCEPT ![t.to] = Append(@, t.msgId)]

LEMMA NowReceived ==
  ASSUME TypeOK, NEW t \in tasks, Arrives(t)
  PROVE  /\ inbox' \in [Chatters -> Seq(Nat)]
         /\ \A u \in Chatters : \A k \in DOMAIN inbox[u] : k \in DOMAIN inbox'[u] /\ inbox'[u][k] = inbox[u][k]
         /\ \A u \in Chatters : \A k \in DOMAIN inbox'[u] :
              \/ k \in DOMAIN inbox[u]
              \/ k = Len(inbox[u]) + 1 /\ u = t.to /\ inbox'[u][k] = t.msgId
         /\ Len(inbox[t.to]) + 1 \in DOMAIN inbox'[t.to]
         /\ inbox'[t.to][Len(inbox[t.to]) + 1] = t.msgId
<1> DEFINE s == inbox[t.to]
           new == Append(s, t.msgId)
<1>1. t.to \in Chatters /\ t.msgId \in Nat
  BY DEF TypeOK, Tasks
<1>2. s \in Seq(Nat) /\ Len(s) \in Nat
  BY <1>1, LenProperties DEF TypeOK
<1>3. /\ new \in Seq(Nat) /\ Len(new) = Len(s) + 1
      /\ \A k \in 1..Len(s) : new[k] = s[k]
      /\ new[Len(s) + 1] = t.msgId
  BY <1>1, <1>2, AppendProperties
<1>4. DOMAIN s = 1..Len(s) /\ DOMAIN new = 1..(Len(s) + 1)
  BY <1>2, <1>3, LenProperties
<1>5. /\ \A k \in DOMAIN s : k \in DOMAIN new /\ new[k] = s[k]
      /\ \A k \in DOMAIN new : k \in DOMAIN s \/ k = Len(s) + 1
      /\ Len(s) + 1 \in DOMAIN new
  BY <1>2, <1>3, <1>4
<1>6. \A u \in Chatters : inbox'[u] = IF u = t.to THEN new ELSE inbox[u]
  BY DEF TypeOK, Arrives
<1>7. inbox' \in [Chatters -> Seq(Nat)]
  BY <1>3 DEF TypeOK, Arrives
<1> HIDE DEF new
<1> QED
  BY <1>1, <1>3, <1>5, <1>6, <1>7

(* Tasks lose their connection, or find one, and stay what they are.        *)
SameTasks ==
  /\ tasks' \subseteq Tasks
  /\ \A s \in tasks' : \E t \in tasks : t.msgId = s.msgId /\ t.to = s.to
  /\ \A t \in tasks : \E s \in tasks' : t.msgId = s.msgId /\ t.to = s.to
  /\ (\A s, t \in tasks : s.msgId = t.msgId /\ s.to = t.to => s = t)
       => \A s, t \in tasks' : s.msgId = t.msgId /\ s.to = t.to => s = t

LEMMA NowClosed ==
  ASSUME TypeOK, NEW u \in Chatters, tasks' = Closed(u) PROVE SameTasks
<1> DEFINE Of(t) == IF t.to = u /\ t.rconn = "open" THEN [t EXCEPT !.rconn = "closed"] ELSE t
<1>1. \A t \in tasks : Of(t) \in Tasks /\ Of(t).msgId = t.msgId /\ Of(t).to = t.to
  BY DEF TypeOK, Tasks
<1>2. tasks' = {Of(t) : t \in tasks}
  BY DEF Closed
<1> HIDE DEF Of
<1> QED
  BY <1>1, <1>2 DEF SameTasks

LEMMA NowFound ==
  ASSUME TypeOK, NEW t \in tasks, tasks' = (tasks \ {t}) \cup {[t EXCEPT !.rconn = "open"]}
  PROVE  SameTasks
<1> DEFINE new == [t EXCEPT !.rconn = "open"]
<1>1. new \in Tasks /\ new.msgId = t.msgId /\ new.to = t.to
  BY DEF TypeOK, Tasks
<1>2. tasks' = (tasks \ {t}) \cup {new}
  OBVIOUS
<1> HIDE DEF new
<1> QED
  BY <1>1, <1>2 DEF SameTasks, TypeOK

(* Every goroutine ends.                                                    *)
LEMMA NowRestarted ==
  ASSUME TypeOK, Restart
  PROVE  HandlersOK /\ \A h \in Handlers : handler'[h] = Waiting
BY WaitingHandler DEF Restart, HandlersOK

LEMMA StepType == Setting /\ TypeOK /\ [Next]_vars => TypeOK'
<1> SUFFICES ASSUME Setting, TypeOK, [Next]_vars PROVE TypeOK'
  OBVIOUS
<1> USE DEF queue, server
<1>1. ASSUME NEW u \in Chatters, NEW to \in Chatters \cup Rooms, Publish(u, to) PROVE TypeOK'
  <2>1. [id |-> published + 1, copy |-> 0, from |-> u, to |-> to] \in Chats
    BY DEF TypeOK, Chats
  <2> QED
    BY <1>1, <2>1 DEF Publish, TypeOK
<1>2. ASSUME NEW u \in Chatters, Connect(u) \/ Disconnect(u) PROVE TypeOK'
  <2>1. SameTasks
    BY <1>2, NowClosed DEF Connect, Disconnect
  <2> QED
    BY <1>2, <2>1 DEF Connect, Disconnect, TypeOK, SameTasks
<1>3. ASSUME NEW h \in Handlers, NEW c \in topic, Fetch(h, c) PROVE TypeOK'
  <2>1. c \in Chats
    BY DEF TypeOK
  <2>2. HandlersOK
    BY <1>3, <2>1, NowFetched
  <2> QED
    BY <1>3, <2>1, <2>2 DEF Fetch, TypeOK, HandlersOK
<1>4. ASSUME NEW h \in Handlers, Insert(h) PROVE TypeOK'
  BY <1>4, NowInserted DEF Insert, TypeOK, HandlersOK
<1>5. ASSUME NEW h \in Handlers, InsertFails(h) \/ UpdateMsgFails(h) PROVE TypeOK'
  <2>1. HandlersOK
    BY <1>5, NowRests DEF InsertFails, UpdateMsgFails
  <2> QED
    BY <1>5, <2>1 DEF InsertFails, UpdateMsgFails, TypeOK, HandlersOK
<1>6. ASSUME NEW h \in Handlers, Members(h) PROVE TypeOK'
  <2>1. HandlersOK
    BY <1>6, NowMembers, NowRests DEF Members
  <2> QED
    BY <1>6, <2>1 DEF Members, TypeOK, HandlersOK
<1>7. ASSUME NEW h \in Handlers, Lock(h) PROVE TypeOK'
  BY <1>7, NowGoes DEF Lock, TypeOK, HandlersOK, Held
<1>8. ASSUME NEW h \in Handlers, Write(h) \/ DialFails(h) \/ Redial(h) PROVE TypeOK'
  <2>1. pushes' \in Seq(Frames)
    BY <1>8, NowPushed DEF Write, DialFails, Redial, TypeOK
  <2>2. HandlersOK
    <3>1. CASE Unlock(h)
      BY <3>1, NowRests DEF Unlock
    <3>2. CASE handler[h].pc = "write" /\ handler' = [handler EXCEPT ![h].pc = "dial"]
      BY <3>2, NowGoes DEF Held
    <3> QED
      BY <1>8, <3>1, <3>2 DEF Write, DialFails, Redial
  <2> QED
    BY <1>8, <2>1, <2>2 DEF Write, DialFails, Redial, TypeOK, HandlersOK
<1>9. ASSUME NEW n \in 0..Len(pushes), LinkBreaks(n) PROVE TypeOK'
  BY <1>9, NowCut DEF LinkBreaks, TypeOK
<1>10. CASE ServerDies
  BY <1>10 DEF ServerDies, TypeOK
<1>11. CASE Push
  <2> DEFINE new == {[msgId |-> pushes[1].msgId, to |-> u, rconn |-> "none"] : u \in pushes[1].to}
  <2>1. new \subseteq Tasks
    BY <1>11, NowTaken DEF Frames, Tasks
  <2>2. tasks' = tasks \cup new
    BY <1>11, NowTaken
  <2> HIDE DEF new
  <2> QED
    BY <1>11, <2>1, <2>2, NowTaken DEF Push, TypeOK
<1>12. ASSUME NEW t \in tasks, GetConn(t) PROVE TypeOK'
  <2>1. tasks' \subseteq Tasks
    BY <1>12, NowFound DEF GetConn, TypeOK, SameTasks
  <2> QED
    BY <1>12, <2>1 DEF GetConn, TypeOK
<1>13. ASSUME NEW t \in tasks, SendTo(t) PROVE TypeOK'
  <2>1. inbox' \in [Chatters -> Seq(Nat)]
    BY <1>13, NowReceived DEF SendTo, Arrives, TypeOK
  <2> QED
    BY <1>13, <2>1 DEF SendTo, TypeOK
<1>14. ASSUME NEW c \in taken, ComeAgain(c) PROVE TypeOK'
  <2> DEFINE d == [c EXCEPT !.copy = repeats + 1]
  <2>1. c \in Chats /\ repeats + 1 \in Nat
    BY DEF TypeOK
  <2>2. d \in Chats
    BY <2>1 DEF Chats
  <2>3. topic' = topic \cup {d}
    BY <1>14 DEF ComeAgain
  <2> HIDE DEF d
  <2> QED
    BY <1>14, <2>1, <2>2, <2>3 DEF ComeAgain, TypeOK
<1>15. CASE Restart
  BY <1>15, NowRestarted DEF Restart, TypeOK, HandlersOK
<1>16. CASE UNCHANGED vars
  BY <1>16 DEF vars, TypeOK
<1> QED
  BY <1>1, <1>2, <1>3, <1>4, <1>5, <1>6, <1>7, <1>8, <1>9, <1>10, <1>11, <1>12, <1>13, <1>14, <1>15, <1>16
     DEF Next

-----------------------------------------------------------------------------
(* A step, as the rows, the frames, the tasks, the inboxes and missed see   *)
(* it.                                                                      *)

(* Nothing moves, but tasks may get or lose their connection.               *)
Stays == UNCHANGED <<handler, chatlog, pushes, inbox, missed>> /\ SameTasks

(* A goroutine goes on with its message.                                    *)
Keeps(h) ==
  /\ Holding(h) /\ handler'[h].pc \in Addressed
  /\ handler'[h].msgId = handler[h].msgId /\ handler'[h].chat = handler[h].chat
  /\ \/ handler[h].pc \in Addressed /\ handler'[h].recvIds = handler[h].recvIds
     \/ handler'[h].recvIds = Recipients(handler[h].chat)
  /\ \A k \in Handlers \ {h} : handler'[k] = handler[k]
  /\ UNCHANGED <<chatlog, pushes, tasks, inbox, missed>>

(* The goroutines of a set hold nothing any more, and whoever did is missed.*)
GivesUp(S) ==
  /\ \A k \in S : ~Holding(k)'
  /\ \A k \in Handlers \ S : handler'[k] = handler[k]
  /\ \A m \in Nat, u \in Chatters :
       <<m, u>> \in missed' <=>
         \/ <<m, u>> \in missed
         \/ \E k \in S : Holding(k) /\ handler[k].msgId = m /\ u \in Recipients(handler[k].chat)
  /\ UNCHANGED <<chatlog, pushes, tasks, inbox>>

(* A goroutine leaves its message on the link.                              *)
Sends(h) ==
  /\ handler[h].pc \in Addressed /\ Rests(h) /\ pushes' = Append(pushes, Frame(h))
  /\ UNCHANGED <<chatlog, tasks, inbox, missed>>

(* Frames or tasks are lost, and those they were for are missed.            *)
Loses ==
  /\ tasks' \subseteq tasks /\ DOMAIN pushes' \subseteq DOMAIN pushes
  /\ \A i \in DOMAIN pushes' : pushes'[i] = pushes[i]
  /\ \A m \in Nat, u \in Chatters :
       <<m, u>> \in missed' <=>
         \/ <<m, u>> \in missed
         \/ \E i \in DOMAIN pushes \ DOMAIN pushes' : pushes[i].msgId = m /\ u \in pushes[i].to
         \/ \E t \in tasks \ tasks' : t.msgId = m /\ t.to = u
  /\ UNCHANGED <<handler, chatlog, inbox>>

(* A task ends in the inbox.                                                *)
Delivers(t) ==
  /\ Arrives(t) /\ tasks' = tasks \ {t}
  /\ UNCHANGED <<handler, chatlog, pushes, missed>>

Kind ==
  \/ Stays
  \/ \E h \in Handlers : Keeps(h)
  \/ \E S \in SUBSET Handlers : GivesUp(S)
  \/ \E h \in Handlers : Insert(h)
  \/ \E h \in Handlers : Sends(h)
  \/ Push
  \/ Loses
  \/ \E t \in tasks : Delivers(t)

LEMMA TasksUnchanged == ASSUME TypeOK, UNCHANGED tasks PROVE SameTasks
BY DEF TypeOK, SameTasks

(* A goroutine that holds a message ends.                                   *)
LEMMA GivesUpOne ==
  ASSUME NEW h \in Handlers, Holding(h), Rests(h), missed' = missed \cup Undelivered(h),
         UNCHANGED <<chatlog, pushes, tasks, inbox>>
  PROVE  GivesUp({h})
<1>1. ~Holding(h)'
  BY WaitingHandler DEF Rests, Holding
<1>2. \A m, u : <<m, u>> \in Undelivered(h) <=> m = handler[h].msgId /\ u \in Recipients(handler[h].chat)
  BY DEF Undelivered
<1> QED
  BY <1>1, <1>2 DEF GivesUp, Rests

(* One that holds none does something.                                      *)
LEMMA HoldsNone ==
  ASSUME NEW h \in Handlers, ~Holding(h), ~Holding(h)',
         \A k \in Handlers \ {h} : handler'[k] = handler[k],
         UNCHANGED <<chatlog, pushes, tasks, inbox, missed>>
  PROVE  GivesUp({h})
BY DEF GivesUp

LEMMA KindOfWrite ==
  ASSUME TypeOK, NEW h \in Handlers, Write(h) \/ DialFails(h) \/ Redial(h) PROVE Kind
<1>1. Holding(h) /\ handler[h].pc \in Addressed /\ UNCHANGED <<chatlog, tasks, inbox>>
  BY DEF Write, DialFails, Redial, Holding, Addressed, server
<1>2. ASSUME Unlock(h), pushes' = Append(pushes, Frame(h)), UNCHANGED missed PROVE Kind
  <2>1. Sends(h)
    BY <1>1, <1>2, NowRests DEF Sends, Unlock
  <2> QED
    BY <2>1 DEF Kind
<1>3. ASSUME Unlock(h), UNCHANGED pushes, missed' = missed \cup Undelivered(h) PROVE Kind
  <2>1. GivesUp({h})
    BY <1>1, <1>3, NowRests, GivesUpOne DEF Unlock
  <2> QED
    BY <2>1 DEF Kind
<1>4. ASSUME handler' = [handler EXCEPT ![h].pc = "dial"], UNCHANGED <<pushes, missed>> PROVE Kind
  <2>1. Keeps(h)
    BY <1>1, <1>4, NowGoes DEF Keeps, Goes, Held, Addressed, Holding
  <2> QED
    BY <2>1 DEF Kind
<1>5. CASE Write(h)
  BY <1>2, <1>3, <1>4, <1>5 DEF Write
<1>6. CASE DialFails(h)
  BY <1>3, <1>6 DEF DialFails
<1>7. CASE Redial(h)
  BY <1>2, <1>7 DEF Redial
<1> QED
  BY <1>5, <1>6, <1>7

LEMMA KindOfRestart == ASSUME TypeOK, Restart PROVE Kind
<1>1. \A k \in Handlers : ~Holding(k)'
  BY NowRestarted, WaitingHandler DEF Holding
<1>2. missed' = missed \cup UNION {Undelivered(h) : h \in {k \in Handlers : Holding(k)}}
      /\ UNCHANGED <<chatlog, pushes, tasks, inbox>>
  BY DEF Restart, server
<1>3. \A h \in Handlers : \A m, u :
        <<m, u>> \in Undelivered(h) <=> m = handler[h].msgId /\ u \in Recipients(handler[h].chat)
  BY DEF Undelivered
<1>4. \A m, u : <<m, u>> \in missed' <=>
        \/ <<m, u>> \in missed
        \/ \E k \in Handlers : Holding(k) /\ <<m, u>> \in Undelivered(k)
  BY <1>2
<1>5. GivesUp(Handlers)
  BY <1>1, <1>2, <1>3, <1>4 DEF GivesUp
<1> QED
  BY <1>5 DEF Kind

LEMMA KindOfBreak ==
  ASSUME TypeOK, (\E n \in 0..Len(pushes) : LinkBreaks(n)) \/ ServerDies PROVE Kind
<1>1. \A n, m, u : <<m, u>> \in Unread(n) <=>
        \E i \in DOMAIN pushes \ 1..n : pushes[i].msgId = m /\ u \in pushes[i].to
  BY DEF Unread
<1>2. ASSUME NEW n \in 0..Len(pushes), LinkBreaks(n) PROVE Loses
  <2>1. /\ DOMAIN pushes' = 1..n /\ DOMAIN pushes' \subseteq DOMAIN pushes
        /\ \A i \in DOMAIN pushes' : pushes'[i] = pushes[i]
    BY <1>2, NowCut DEF LinkBreaks
  <2>2. missed' = missed \cup Unread(n) /\ UNCHANGED <<handler, chatlog, tasks, inbox>>
    BY <1>2 DEF LinkBreaks, server
  <2> QED
    BY <1>1, <2>1, <2>2 DEF Loses
<1>3. CASE ServerDies
  <2>1. pushes' = <<>> /\ tasks' = {} /\ missed' = missed \cup Unread(0) \cup Undone
        /\ UNCHANGED <<handler, chatlog, inbox>>
    BY <1>3 DEF ServerDies
  <2>2. DOMAIN pushes' = {} /\ 1..0 = {}
    BY <2>1
  <2>3. \A m, u : <<m, u>> \in Undone <=> \E t \in tasks : t.msgId = m /\ t.to = u
    BY DEF Undone
  <2>4. Loses
    BY <1>1, <2>1, <2>2, <2>3 DEF Loses
  <2> QED
    BY <2>4 DEF Kind
<1> QED
  BY <1>2, <1>3 DEF Kind

LEMMA KindOfTask ==
  ASSUME TypeOK, NEW t \in tasks, GetConn(t) \/ SendTo(t) PROVE Kind
<1>1. \A m, u : <<m, u>> \in {<<t.msgId, t.to>>} <=> m = t.msgId /\ u = t.to
  OBVIOUS
<1>2. ASSUME tasks' = tasks \ {t}, missed' = missed \cup {<<t.msgId, t.to>>},
             UNCHANGED <<handler, chatlog, pushes, inbox>>
      PROVE  Kind
  <2>1. Loses
    BY <1>1, <1>2 DEF Loses
  <2> QED
    BY <2>1 DEF Kind
<1>3. CASE GetConn(t)
  <2>1. CASE tasks' = (tasks \ {t}) \cup {[t EXCEPT !.rconn = "open"]} /\ UNCHANGED missed
    BY <1>3, <2>1, NowFound DEF GetConn, Kind, Stays
  <2> QED
    BY <1>2, <1>3, <2>1 DEF GetConn
<1>4. CASE SendTo(t)
  <2>1. CASE Arrives(t) /\ UNCHANGED missed
    BY <1>4, <2>1 DEF SendTo, Kind, Delivers
  <2> QED
    BY <1>2, <1>4, <2>1 DEF SendTo, Arrives
<1> QED
  BY <1>3, <1>4

LEMMA Kinds == Setting /\ TypeOK /\ [Next]_vars => Kind
<1> SUFFICES ASSUME Setting, TypeOK, [Next]_vars PROVE Kind
  OBVIOUS
<1> USE DEF queue, server
<1>1. ASSUME NEW u \in Chatters, Connect(u) \/ Disconnect(u) PROVE Kind
  BY <1>1, NowClosed DEF Kind, Stays, Connect, Disconnect
<1>2. ASSUME (\E u \in Chatters, to \in Chatters \cup Rooms : Publish(u, to)) \/ (\E c \in taken : ComeAgain(c))
      PROVE  Kind
  BY <1>2, TasksUnchanged DEF Kind, Stays, Publish, ComeAgain
<1>3. ASSUME NEW h \in Handlers, NEW c \in topic, Fetch(h, c) PROVE Kind
  <2>1. c \in Chats
    BY DEF TypeOK
  <2>2. GivesUp({h})
    BY <1>3, <2>1, NowFetched, HoldsNone DEF Fetch, Holding
  <2> QED
    BY <2>2 DEF Kind
<1>4. ASSUME NEW h \in Handlers, Insert(h) PROVE Kind
  BY <1>4 DEF Kind
<1>5. ASSUME NEW h \in Handlers, InsertFails(h) PROVE Kind
  <2>1. Rests(h) /\ ~Holding(h)
    BY <1>5, NowRests DEF InsertFails, Holding
  <2>2. GivesUp({h})
    BY <1>5, <2>1, HoldsNone, WaitingHandler DEF InsertFails, Rests, Holding
  <2> QED
    BY <2>2 DEF Kind
<1>6. ASSUME NEW h \in Handlers, UpdateMsgFails(h) PROVE Kind
  <2>1. GivesUp({h})
    BY <1>6, NowRests, GivesUpOne DEF UpdateMsgFails, Holding
  <2> QED
    BY <2>1 DEF Kind
<1>7. ASSUME NEW h \in Handlers, Members(h) PROVE Kind
  <2>1. CASE Rest(h) /\ missed' = missed \cup Undelivered(h)
    <3>1. GivesUp({h})
      BY <1>7, <2>1, NowRests, GivesUpOne DEF Members, Holding
    <3> QED
      BY <3>1 DEF Kind
  <2>2. CASE handler' = [handler EXCEPT ![h].pc = "lock", ![h].recvIds = Recipients(handler[h].chat)]
             /\ UNCHANGED missed
    <3>1. Keeps(h)
      BY <1>7, <2>2, NowMembers DEF Members, Keeps, Goes, Addressed, Holding
    <3> QED
      BY <3>1 DEF Kind
  <2> QED
    BY <1>7, <2>1, <2>2 DEF Members
<1>8. ASSUME NEW h \in Handlers, Lock(h) PROVE Kind
  <2>1. Keeps(h)
    BY <1>8, NowGoes DEF Lock, Keeps, Goes, Held, Addressed, Holding
  <2> QED
    BY <2>1 DEF Kind
<1>9. CASE Push
  BY <1>9 DEF Kind
<1>10. CASE UNCHANGED vars
  BY <1>10, TasksUnchanged DEF vars, Kind, Stays
<1> QED
  BY <1>1, <1>2, <1>3, <1>4, <1>5, <1>6, <1>7, <1>8, <1>9, <1>10,
     KindOfWrite, KindOfRestart, KindOfBreak, KindOfTask DEF Next

-----------------------------------------------------------------------------
(* What is on its way is in the chat log, and goes to whom it is meant for  *)

For(m, u) == m \in DOMAIN chatlog /\ u \in Recipients(chatlog[m].chat)
Due(h) ==
  /\ handler[h].msgId \in DOMAIN chatlog
  /\ chatlog[handler[h].msgId].chat = handler[h].chat
  /\ handler[h].pc \in Addressed => handler[h].recvIds = Recipients(handler[h].chat)
PlaceInv ==
  /\ \A h \in Handlers : Holding(h) => Due(h)
  /\ \A i \in DOMAIN pushes : \A u \in pushes[i].to : For(pushes[i].msgId, u)
  /\ \A i \in DOMAIN pushes : pushes[i].msgId \in DOMAIN chatlog
  /\ \A t \in tasks : For(t.msgId, t.to)
  /\ \A u \in Chatters : \A k \in DOMAIN inbox[u] : For(inbox[u][k], u)
  /\ \A m \in Nat, u \in Chatters : <<m, u>> \in missed => m \in DOMAIN chatlog

(* A row stays what it is.                                                  *)
LEMMA RowsStay ==
  ASSUME TypeOK, NEW m, NEW u, For(m, u), chatlog' = chatlog \/ \E h \in Handlers : Insert(h)
  PROVE  For(m, u)'
BY NowInserted DEF For

(* What a goroutine holds has a row, and each has its types.                *)
LEMMA RowIds ==
  ASSUME TypeOK, PlaceInv
  PROVE  /\ \A m \in DOMAIN chatlog : m \in Nat
         /\ \A h \in Handlers : handler[h].msgId \in Nat
         /\ \A i \in DOMAIN pushes : pushes[i].msgId \in Nat /\ pushes[i].to \subseteq Chatters
         /\ \A t \in tasks : t.msgId \in Nat /\ t.to \in Chatters
<1>1. \A m \in DOMAIN chatlog : m \in Nat
  BY LenProperties DEF TypeOK
<1>2. \A i \in DOMAIN pushes : pushes[i] \in Frames
  BY ElementOfSeq, LenProperties DEF TypeOK
<1> QED
  BY <1>1, <1>2 DEF TypeOK, Handler, Frames, Tasks

LEMMA StepPlace == Setting /\ TypeOK /\ PlaceInv /\ [Next]_vars => PlaceInv'
<1> SUFFICES ASSUME Setting, TypeOK, PlaceInv, [Next]_vars PROVE PlaceInv'
  OBVIOUS
<1>1. CASE Stays
  <2>1. \A t \in tasks' : For(t.msgId, t.to)
    BY <1>1 DEF Stays, SameTasks, PlaceInv
  <2> QED
    BY <1>1, <2>1 DEF Stays, PlaceInv, Holding, Due, For
<1>2. ASSUME NEW h \in Handlers, Keeps(h) PROVE PlaceInv'
  <2>1. ASSUME NEW k \in Handlers, Holding(k)' PROVE Due(k)'
    BY <1>2, <2>1 DEF PlaceInv, Holding, Due, Keeps
  <2> QED
    BY <1>2, <2>1 DEF Keeps, PlaceInv, For
<1>3. ASSUME NEW S \in SUBSET Handlers, GivesUp(S) PROVE PlaceInv'
  <2>1. ASSUME NEW k \in Handlers, Holding(k)' PROVE Due(k)'
    BY <1>3, <2>1 DEF PlaceInv, Holding, Due, GivesUp
  <2>2. ASSUME NEW m \in Nat, NEW u \in Chatters, <<m, u>> \in missed' PROVE m \in DOMAIN chatlog
    BY <1>3, <2>2 DEF PlaceInv, Due, GivesUp
  <2> QED
    BY <1>3, <2>1, <2>2 DEF GivesUp, PlaceInv, For
<1>4. ASSUME NEW h \in Handlers, Insert(h) PROVE PlaceInv'
  <2>1. ASSUME NEW k \in Handlers, Holding(k)' PROVE Due(k)'
    <3>1. CASE k # h
      BY <1>4, <2>1, <3>1, NowInserted DEF PlaceInv, Holding, Due, Goes
    <3>2. CASE k = h
      BY <1>4, <2>1, <3>2, NowInserted DEF Due, Goes, Addressed
    <3> QED
      BY <3>1, <3>2
  <2>2. UNCHANGED <<pushes, tasks, inbox, missed>>
    BY <1>4 DEF Insert, server
  <2>3. \A m \in DOMAIN chatlog : m \in DOMAIN chatlog'
    BY <1>4, NowInserted
  <2> QED
    BY <1>4, <2>1, <2>2, <2>3, RowsStay DEF PlaceInv
<1>5. ASSUME NEW h \in Handlers, Sends(h) PROVE PlaceInv'
  <2>1. ASSUME NEW k \in Handlers, Holding(k)' PROVE Due(k)'
    <3>1. k # h
      BY <1>5, <2>1, WaitingHandler DEF Sends, Rests, Holding
    <3> QED
      BY <1>5, <2>1, <3>1 DEF PlaceInv, Holding, Due, Sends, Rests
  <2>2. ASSUME NEW i \in DOMAIN pushes'
        PROVE  pushes'[i].msgId \in DOMAIN chatlog /\ \A u \in pushes'[i].to : For(pushes'[i].msgId, u)
    <3>1. CASE i \in DOMAIN pushes
      BY <1>5, <2>2, <3>1, NowPushed DEF PlaceInv, Sends
    <3>2. CASE i = Len(pushes) + 1
      <4>1. pushes'[i].msgId = handler[h].msgId /\ pushes'[i].to = handler[h].recvIds
        BY <1>5, <3>2, NowPushed DEF Sends
      <4>2. Due(h) /\ handler[h].pc \in Addressed
        BY <1>5 DEF PlaceInv, Sends, Holding, Addressed
      <4> QED
        BY <2>2, <4>1, <4>2 DEF Due, For
    <3> QED
      BY <1>5, <2>2, <3>1, <3>2, NowPushed DEF Sends
  <2> QED
    BY <1>5, <2>1, <2>2 DEF Sends, PlaceInv, For
<1>6. CASE Push
  <2>1. UNCHANGED <<handler, chatlog, inbox, missed>>
    BY <1>6 DEF Push
  <2>2. ASSUME NEW i \in DOMAIN pushes'
        PROVE  pushes'[i].msgId \in DOMAIN chatlog /\ \A u \in pushes'[i].to : For(pushes'[i].msgId, u)
    BY <1>6, <2>2, NowTaken DEF PlaceInv
  <2>3. ASSUME NEW t \in tasks' PROVE For(t.msgId, t.to)
    <3>1. CASE t \in tasks
      BY <3>1 DEF PlaceInv
    <3>2. CASE \E u \in pushes[1].to : t = [msgId |-> pushes[1].msgId, to |-> u, rconn |-> "none"]
      BY <1>6, <3>2, NowTaken DEF PlaceInv
    <3> QED
      BY <1>6, <2>3, <3>1, <3>2, NowTaken
  <2> QED
    BY <2>1, <2>2, <2>3 DEF PlaceInv, Holding, Due, For
<1>7. CASE Loses
  <2>1. ASSUME NEW m \in Nat, NEW u \in Chatters, <<m, u>> \in missed' PROVE m \in DOMAIN chatlog
    BY <1>7, <2>1 DEF PlaceInv, Loses, For
  <2> QED
    BY <1>7, <2>1 DEF Loses, PlaceInv, Holding, Due, For
<1>8. ASSUME NEW t \in tasks, Delivers(t) PROVE PlaceInv'
  <2>1. UNCHANGED <<handler, chatlog, pushes, missed>> /\ tasks' \subseteq tasks
    BY <1>8 DEF Delivers
  <2>2. ASSUME NEW u \in Chatters, NEW k \in DOMAIN inbox'[u] PROVE For(inbox'[u][k], u)
    BY <1>8, <2>2, NowReceived DEF Delivers, PlaceInv
  <2> QED
    BY <2>1, <2>2 DEF PlaceInv, Holding, Due, For
<1> QED
  BY <1>1, <1>2, <1>3, <1>4, <1>5, <1>6, <1>7, <1>8, Kinds DEF Kind

-----------------------------------------------------------------------------
(* No user gets a row twice: it is with one goroutine, then in one frame,   *)
(* then in one task of each recipient, then in his inbox.                   *)

Late(m) ==
  \/ \E t \in tasks : t.msgId = m
  \/ \E u \in Chatters : \E k \in DOMAIN inbox[u] : inbox[u][k] = m
OnceInv ==
  /\ \A h, k \in Handlers : Holding(h) /\ Holding(k) /\ handler[h].msgId = handler[k].msgId => h = k
  /\ \A h \in Handlers, i \in DOMAIN pushes : Holding(h) => handler[h].msgId # pushes[i].msgId
  /\ \A i, j \in DOMAIN pushes : pushes[i].msgId = pushes[j].msgId => i = j
  /\ \A h \in Handlers : Holding(h) => ~Late(handler[h].msgId)
  /\ \A i \in DOMAIN pushes : ~Late(pushes[i].msgId)
  /\ \A s, t \in tasks : s.msgId = t.msgId /\ s.to = t.to => s = t
  /\ \A t \in tasks : \A k \in DOMAIN inbox[t.to] : inbox[t.to][k] # t.msgId
  /\ \A u \in Chatters : \A k, l \in DOMAIN inbox[u] : inbox[u][k] = inbox[u][l] => k = l

(* Goroutines, link and tasks are left with no more than they had.          *)
NoneMore ==
  /\ \A k \in Handlers : Holding(k)' => Holding(k) /\ handler'[k].msgId = handler[k].msgId
  /\ DOMAIN pushes' \subseteq DOMAIN pushes /\ \A i \in DOMAIN pushes' : pushes'[i] = pushes[i]
  /\ UNCHANGED inbox

LEMMA OnceLeft ==
  ASSUME OnceInv, NoneMore, tasks' \subseteq tasks PROVE OnceInv'
<1>1. ASSUME NEW n, ~Late(n) PROVE ~Late(n)'
  BY <1>1 DEF Late, NoneMore
<1>2. ASSUME NEW h \in Handlers, Holding(h)', NEW n, n = handler'[h].msgId PROVE ~Late(n)'
  BY <1>1, <1>2 DEF OnceInv, NoneMore
<1>3. ASSUME NEW i \in DOMAIN pushes', NEW n, n = pushes'[i].msgId PROVE ~Late(n)'
  BY <1>1, <1>3 DEF OnceInv, NoneMore
<1>4. /\ \A h, k \in Handlers : Holding(h)' /\ Holding(k)' /\ handler'[h].msgId = handler'[k].msgId => h = k
      /\ \A h \in Handlers, i \in DOMAIN pushes' : Holding(h)' => handler'[h].msgId # pushes'[i].msgId
      /\ \A i, j \in DOMAIN pushes' : pushes'[i].msgId = pushes'[j].msgId => i = j
  BY DEF OnceInv, NoneMore
<1>5. /\ \A s, t \in tasks' : s.msgId = t.msgId /\ s.to = t.to => s = t
      /\ \A t \in tasks' : \A k \in DOMAIN inbox'[t.to] : inbox'[t.to][k] # t.msgId
      /\ \A u \in Chatters : \A k, l \in DOMAIN inbox'[u] : inbox'[u][k] = inbox'[u][l] => k = l
  BY DEF OnceInv, NoneMore
<1> QED
  BY <1>2, <1>3, <1>4, <1>5 DEF OnceInv

LEMMA OnceSame ==
  ASSUME TypeOK, OnceInv, SameTasks, UNCHANGED <<handler, pushes, inbox>> PROVE OnceInv'
<1>1. \A n : ~Late(n) => ~Late(n)'
  BY DEF Late, SameTasks
<1>2. \A s, t \in tasks' : s.msgId = t.msgId /\ s.to = t.to => s = t
  BY DEF OnceInv, SameTasks
<1>3. \A t \in tasks' : \A k \in DOMAIN inbox[t.to] : inbox[t.to][k] # t.msgId
  BY DEF OnceInv, SameTasks
<1> QED
  BY <1>1, <1>2, <1>3 DEF OnceInv, Holding

LEMMA StepOnce == Setting /\ TypeOK /\ PlaceInv /\ OnceInv /\ [Next]_vars => OnceInv'
<1> SUFFICES ASSUME Setting, TypeOK, PlaceInv, OnceInv, [Next]_vars PROVE OnceInv'
  OBVIOUS
<1>1. CASE Stays
  BY <1>1, OnceSame DEF Stays
<1>2. ASSUME (\E h \in Handlers : Keeps(h)) \/ (\E S \in SUBSET Handlers : GivesUp(S)) \/ Loses
      PROVE  OnceInv'
  <2>1. NoneMore /\ tasks' \subseteq tasks
    BY <1>2 DEF NoneMore, Holding, Keeps, GivesUp, Loses
  <2> QED
    BY <2>1, OnceLeft
<1>3. ASSUME NEW h \in Handlers, Insert(h) PROVE OnceInv'
  <2> DEFINE new == Len(chatlog) + 1
  <2>1. UNCHANGED <<pushes, tasks, inbox>> /\ handler'[h].msgId = new /\ new \notin DOMAIN chatlog
    BY <1>3, NowInserted DEF Insert, server
  <2> HIDE DEF new
  <2>2. \A k \in Handlers \ {h} : handler'[k] = handler[k]
    BY <1>3, NowInserted DEF Goes
  <2>3. /\ \A k \in Handlers : Holding(k) => handler[k].msgId # new
        /\ \A i \in DOMAIN pushes : pushes[i].msgId # new
        /\ ~Late(new)
    BY <2>1 DEF PlaceInv, Due, For, Late
  <2>4. \A k, l \in Handlers :
          Holding(k)' /\ Holding(l)' /\ handler'[k].msgId = handler'[l].msgId => k = l
    BY <2>1, <2>2, <2>3 DEF OnceInv, Holding
  <2>5. \A k \in Handlers, i \in DOMAIN pushes : Holding(k)' => handler'[k].msgId # pushes[i].msgId
    BY <2>1, <2>2, <2>3 DEF OnceInv, Holding
  <2>6. ASSUME NEW k \in Handlers, Holding(k)', NEW m, m = handler'[k].msgId PROVE ~Late(m)'
    BY <2>1, <2>2, <2>3, <2>6 DEF OnceInv, Holding, Late
  <2> QED
    BY <2>1, <2>4, <2>5, <2>6 DEF OnceInv, Late
<1>4. ASSUME NEW h \in Handlers, Sends(h) PROVE OnceInv'
  <2> DEFINE new == Len(pushes) + 1
  <2>1. /\ DOMAIN pushes' = DOMAIN pushes \cup {new} /\ new \notin DOMAIN pushes
        /\ \A i \in DOMAIN pushes : pushes'[i] = pushes[i]
        /\ pushes'[new].msgId = handler[h].msgId
        /\ UNCHANGED <<tasks, inbox>>
    BY <1>4, NowPushed DEF Sends
  <2> HIDE DEF new
  <2>2. Holding(h) /\ ~Holding(h)' /\ \A k \in Handlers \ {h} : handler'[k] = handler[k]
    BY <1>4, WaitingHandler DEF Sends, Rests, Holding, Addressed
  <2>3. \A k, l \in Handlers :
          Holding(k)' /\ Holding(l)' /\ handler'[k].msgId = handler'[l].msgId => k = l
    BY <2>2 DEF OnceInv, Holding
  <2>4. ASSUME NEW k \in Handlers, Holding(k)', NEW i \in DOMAIN pushes'
        PROVE  handler'[k].msgId # pushes'[i].msgId
    BY <2>1, <2>2, <2>4 DEF OnceInv, Holding
  <2>5. ASSUME NEW i \in DOMAIN pushes', NEW j \in DOMAIN pushes', pushes'[i].msgId = pushes'[j].msgId
        PROVE  i = j
    BY <2>1, <2>2, <2>5 DEF OnceInv
  <2>6. \A k \in Handlers : Holding(k)' => ~Late(handler'[k].msgId)
    BY <2>2 DEF OnceInv, Holding
  <2>7. \A i \in DOMAIN pushes' : ~Late(pushes'[i].msgId)
    BY <2>1, <2>2 DEF OnceInv
  <2> QED
    BY <2>1, <2>3, <2>4, <2>5, <2>6, <2>7 DEF OnceInv, Late
<1>5. CASE Push
  <2> DEFINE m == pushes[1].msgId
             new == {[msgId |-> pushes[1].msgId, to |-> u, rconn |-> "none"] : u \in pushes[1].to}
  <2>1. UNCHANGED <<handler, inbox>>
    BY <1>5 DEF Push
  <2>2. /\ 1 \in DOMAIN pushes
        /\ \A i \in DOMAIN pushes' : i + 1 \in DOMAIN pushes /\ i + 1 # 1 /\ pushes'[i] = pushes[i + 1]
        /\ tasks' = tasks \cup new
    BY <1>5, NowTaken
  <2>3. /\ \A t \in new : t.msgId = m
        /\ \A s, t \in new : s.to = t.to => s = t
    <3>1. \A t \in new : \E u : t = [msgId |-> m, to |-> u, rconn |-> "none"]
      OBVIOUS
    <3> HIDE DEF m, new
    <3>2. \A t \in new : t = [msgId |-> m, to |-> t.to, rconn |-> "none"]
      BY <3>1
    <3>3. \A t \in new : t.msgId = m
      BY <3>1
    <3>4. ASSUME NEW s \in new, NEW t \in new, s.to = t.to PROVE s = t
      BY <3>2, <3>4, Zenon
    <3> QED
      BY <3>3, <3>4
  <2>4. DOMAIN pushes' \subseteq Nat
    BY <1>5, NowTaken, LenProperties
  <2> HIDE DEF m, new
  <2>5. \A i \in DOMAIN pushes' : pushes'[i].msgId # m
    BY <2>2 DEF OnceInv, m
  <2>6. ~Late(m) /\ \A k \in Handlers : Holding(k) => handler[k].msgId # m
    BY <2>2 DEF OnceInv, m
  <2>7. \A s, t \in tasks' : s.msgId = t.msgId /\ s.to = t.to => s = t
    BY <2>2, <2>3, <2>6 DEF OnceInv, Late
  <2>8. ASSUME NEW t \in tasks', t.to \in Chatters, NEW k \in DOMAIN inbox[t.to]
        PROVE  inbox[t.to][k] # t.msgId
    BY <2>2, <2>3, <2>6, <2>8 DEF OnceInv, Late
  <2>9. ASSUME NEW n, ~Late(n), n # m PROVE ~Late(n)'
    BY <2>1, <2>2, <2>3, <2>9 DEF Late
  <2>10. ASSUME NEW i \in DOMAIN pushes', NEW j \in DOMAIN pushes', pushes'[i].msgId = pushes'[j].msgId
         PROVE  i = j
    <3>1. i + 1 = j + 1
      BY <2>2, <2>10 DEF OnceInv
    <3> QED
      BY <2>4, <3>1
  <2>11. \A k \in Handlers, i \in DOMAIN pushes' : Holding(k) => handler[k].msgId # pushes'[i].msgId
    BY <2>2 DEF OnceInv
  <2>12. ASSUME NEW k \in Handlers, Holding(k), NEW n, n = handler[k].msgId PROVE ~Late(n)'
    BY <2>6, <2>9, <2>12 DEF OnceInv
  <2>13. ASSUME NEW i \in DOMAIN pushes', NEW n, n = pushes'[i].msgId PROVE ~Late(n)'
    BY <2>2, <2>5, <2>9, <2>13 DEF OnceInv
  <2>14. \A t \in tasks' : t.to \in Chatters
    BY <1>5, StepType DEF TypeOK, Tasks
  <2> QED
    BY <2>1, <2>7, <2>8, <2>10, <2>11, <2>12, <2>13, <2>14 DEF OnceInv, Holding, Late
<1>6. ASSUME NEW t \in tasks, Delivers(t) PROVE OnceInv'
  <2>1. UNCHANGED <<handler, pushes>> /\ tasks' = tasks \ {t}
    BY <1>6 DEF Delivers
  <2>2. \A u \in Chatters : \A k \in DOMAIN inbox'[u] :
          \/ k \in DOMAIN inbox[u] /\ inbox'[u][k] = inbox[u][k]
          \/ k \notin DOMAIN inbox[u] /\ k = Len(inbox[u]) + 1 /\ u = t.to /\ inbox'[u][k] = t.msgId
    BY <1>6, NowReceived DEF Delivers
  <2>3. \A s \in tasks : s.to \in Chatters
    BY DEF TypeOK, Tasks
  <2>4. ASSUME NEW n, ~Late(n) PROVE ~Late(n)'
    BY <2>1, <2>2, <2>4 DEF Late
  <2>5. ASSUME NEW s \in tasks', NEW k \in DOMAIN inbox'[s.to] PROVE inbox'[s.to][k] # s.msgId
    BY <2>1, <2>2, <2>3, <2>5 DEF OnceInv
  <2>6. ASSUME NEW u \in Chatters, NEW k \in DOMAIN inbox'[u], NEW l \in DOMAIN inbox'[u],
               inbox'[u][k] = inbox'[u][l]
        PROVE  k = l
    <3>1. /\ \A i \in DOMAIN inbox[t.to] : inbox[t.to][i] # t.msgId
          /\ \A i, j \in DOMAIN inbox[u] : inbox[u][i] = inbox[u][j] => i = j
      BY DEF OnceInv
    <3>2. CASE k \in DOMAIN inbox[u] /\ l \in DOMAIN inbox[u]
      BY <2>2, <2>6, <3>1, <3>2
    <3>3. CASE k \notin DOMAIN inbox[u] \/ l \notin DOMAIN inbox[u]
      BY <2>2, <2>6, <3>1, <3>3
    <3> QED
      BY <3>2, <3>3
  <2>7. \A r, s \in tasks' : r.msgId = s.msgId /\ r.to = s.to => r = s
    BY <2>1 DEF OnceInv
  <2>8. ASSUME NEW k \in Handlers, Holding(k), NEW n, n = handler[k].msgId PROVE ~Late(n)'
    BY <2>4, <2>8 DEF OnceInv
  <2>9. ASSUME NEW i \in DOMAIN pushes, NEW n, n = pushes[i].msgId PROVE ~Late(n)'
    BY <2>4, <2>9 DEF OnceInv
  <2> QED
    BY <2>1, <2>5, <2>6, <2>7, <2>8, <2>9 DEF OnceInv, Holding, Late
<1> QED
  BY <1>1, <1>2, <1>3, <1>4, <1>5, <1>6, Kinds DEF Kind

-----------------------------------------------------------------------------
(* A push has reached its user, or is on its way, until it is missed        *)

At(m, u) == Received(m, u) \/ OnTheWay(m, u)
AccountInv ==
  \A m \in DOMAIN chatlog : \A u \in Recipients(chatlog[m].chat) : At(m, u) <=> <<m, u>> \notin missed

(* What a row is for does not change; it is where it was, or where it went. *)
Accounted(m, u) == At(m, u)' <=> <<m, u>> \notin missed'

LEMMA AccountedAll ==
  ASSUME chatlog' = chatlog,
         \A m \in DOMAIN chatlog : \A u \in Recipients(chatlog[m].chat) : Accounted(m, u)
  PROVE  AccountInv'
BY DEF AccountInv, Accounted

(* Whatever a goroutine holds or the link carries is with nobody else.      *)
LEMMA Only ==
  ASSUME PlaceInv, OnceInv, NEW m, NEW u \in Chatters
  PROVE  /\ \A h \in Handlers : Holding(h) /\ handler[h].msgId = m =>
              /\ ~Received(m, u)
              /\ \A k \in Handlers : Holding(k) /\ handler[k].msgId = m => k = h
              /\ \A i \in DOMAIN pushes : pushes[i].msgId # m
              /\ \A t \in tasks : t.msgId # m
         /\ \A i \in DOMAIN pushes : pushes[i].msgId = m =>
              /\ ~Received(m, u)
              /\ \A k \in Handlers : Holding(k) => handler[k].msgId # m
              /\ \A j \in DOMAIN pushes : pushes[j].msgId = m => j = i
              /\ \A t \in tasks : t.msgId # m
         /\ \A t \in tasks : t.msgId = m /\ t.to = u =>
              /\ ~Received(m, u)
              /\ \A k \in Handlers : Holding(k) => handler[k].msgId # m
              /\ \A i \in DOMAIN pushes : pushes[i].msgId # m
              /\ \A s \in tasks : s.msgId = m /\ s.to = u => s = t
BY DEF OnceInv, Late, Received

LEMMA StepAccount ==
  Setting /\ TypeOK /\ PlaceInv /\ OnceInv /\ AccountInv /\ [Next]_vars => AccountInv'
<1> SUFFICES ASSUME Setting, TypeOK, PlaceInv, OnceInv, AccountInv, [Next]_vars PROVE AccountInv'
  OBVIOUS
<1>0. \A m \in DOMAIN chatlog : m \in Nat /\ Recipients(chatlog[m].chat) \subseteq Chatters
  <2>1. \A m \in DOMAIN chatlog : m \in Nat /\ chatlog[m] \in Rows
    BY RowIds, ElementOfSeq, LenProperties DEF TypeOK
  <2> QED
    BY <2>1, RecipientsAreUsers DEF Rows
<1>1. CASE Stays
  <2>1. ASSUME NEW m \in DOMAIN chatlog, NEW u \in Recipients(chatlog[m].chat) PROVE Accounted(m, u)
    <3>1. OnTheWay(m, u)' <=> OnTheWay(m, u)
      BY <1>1 DEF Stays, SameTasks, OnTheWay, Holding
    <3>2. Received(m, u)' <=> Received(m, u)
      BY <1>1 DEF Stays, Received
    <3> QED
      BY <1>1, <3>1, <3>2 DEF Stays, AccountInv, Accounted, At
  <2> QED
    BY <1>1, <2>1, AccountedAll DEF Stays
<1>2. ASSUME NEW h \in Handlers, Keeps(h) PROVE AccountInv'
  <2>1. ASSUME NEW m \in DOMAIN chatlog, NEW u \in Recipients(chatlog[m].chat) PROVE Accounted(m, u)
    <3>1. \A k \in Handlers : Holding(k)' /\ handler'[k].msgId = m <=> Holding(k) /\ handler[k].msgId = m
      BY <1>2 DEF Keeps, Holding, Addressed
    <3>2. OnTheWay(m, u)' <=> OnTheWay(m, u)
      BY <1>2, <3>1 DEF Keeps, OnTheWay
    <3>3. Received(m, u)' <=> Received(m, u)
      BY <1>2 DEF Keeps, Received
    <3> QED
      BY <1>2, <3>2, <3>3 DEF Keeps, AccountInv, Accounted, At
  <2> QED
    BY <1>2, <2>1, AccountedAll DEF Keeps
<1>3. ASSUME NEW S \in SUBSET Handlers, GivesUp(S) PROVE AccountInv'
  <2>1. ASSUME NEW m \in DOMAIN chatlog, NEW u \in Recipients(chatlog[m].chat) PROVE Accounted(m, u)
    <3>0. m \in Nat /\ u \in Chatters
      BY <1>0
    <3>1. Received(m, u)' <=> Received(m, u)
      BY <1>3 DEF GivesUp, Received
    <3>2. UNCHANGED <<pushes, tasks>>
      BY <1>3 DEF GivesUp
    <3>3. CASE \E k \in S : Holding(k) /\ handler[k].msgId = m
      <4>1. PICK k \in S : Holding(k) /\ handler[k].msgId = m
        BY <3>3
      <4>2. <<m, u>> \in missed'
        BY <1>3, <3>0, <4>1 DEF PlaceInv, Due, GivesUp
      <4>3. ~Received(m, u)
            /\ (\A i \in DOMAIN pushes : pushes[i].msgId # m) /\ (\A t \in tasks : t.msgId # m)
            /\ \A j \in Handlers : Holding(j) /\ handler[j].msgId = m => j = k
        BY <3>0, <4>1, Only
      <4>4. \A j \in Handlers : ~(Holding(j)' /\ handler'[j].msgId = m)
        BY <1>3, <4>3 DEF GivesUp, Holding
      <4>5. ~OnTheWay(m, u)'
        BY <3>2, <4>3, <4>4 DEF OnTheWay
      <4> QED
        BY <3>1, <4>2, <4>3, <4>5 DEF Accounted, At
    <3>4. CASE ~\E k \in S : Holding(k) /\ handler[k].msgId = m
      <4>1. <<m, u>> \in missed' <=> <<m, u>> \in missed
        BY <1>3, <3>0, <3>4 DEF GivesUp
      <4>2. \A j \in Handlers : Holding(j)' /\ handler'[j].msgId = m <=> Holding(j) /\ handler[j].msgId = m
        BY <1>3, <3>4 DEF GivesUp, Holding
      <4>3. OnTheWay(m, u)' <=> OnTheWay(m, u)
        BY <3>2, <4>2 DEF OnTheWay
      <4> QED
        BY <3>1, <4>1, <4>3 DEF AccountInv, Accounted, At
    <3> QED
      BY <3>3, <3>4
  <2> QED
    BY <1>3, <2>1, AccountedAll DEF GivesUp
<1>4. ASSUME NEW h \in Handlers, Insert(h) PROVE AccountInv'
  <2> DEFINE new == Len(chatlog) + 1
  <2>1. /\ DOMAIN chatlog' = DOMAIN chatlog \cup {new} /\ new \notin DOMAIN chatlog
        /\ handler'[h].msgId = new /\ handler'[h].pc = "members" /\ handler[h].pc = "insert"
        /\ chatlog'[new].chat = handler[h].chat
        /\ \A m \in DOMAIN chatlog : chatlog'[m] = chatlog[m]
        /\ \A k \in Handlers \ {h} : handler'[k] = handler[k]
        /\ UNCHANGED <<pushes, tasks, inbox, missed>>
    BY <1>4, NowInserted DEF Goes, Insert, server
  <2>2. new \in Nat /\ handler[h].chat \in Chats
    BY <2>1, LenProperties DEF TypeOK
  <2> HIDE DEF new
  <2>3. ASSUME NEW m \in DOMAIN chatlog, NEW u \in Recipients(chatlog[m].chat) PROVE Accounted(m, u)
    <3>1. \A k \in Handlers : Holding(k)' /\ handler'[k].msgId = m <=> Holding(k) /\ handler[k].msgId = m
      BY <2>1, <2>3 DEF Holding
    <3>2. OnTheWay(m, u)' <=> OnTheWay(m, u)
      BY <2>1, <3>1 DEF OnTheWay
    <3>3. Received(m, u)' <=> Received(m, u)
      BY <2>1 DEF Received
    <3> QED
      BY <2>1, <3>2, <3>3 DEF AccountInv, Accounted, At
  <2>4. ASSUME NEW m, m = new, NEW u \in Recipients(handler[h].chat) PROVE Accounted(m, u)
    <3>1. u \in Chatters
      BY <2>2, RecipientsAreUsers
    <3>2. <<m, u>> \notin missed'
      BY <2>1, <2>2, <2>4, <3>1 DEF PlaceInv
    <3>3. OnTheWay(m, u)'
      BY <2>1, <2>4 DEF OnTheWay, Holding
    <3> QED
      BY <3>2, <3>3 DEF Accounted, At
  <2>5. ASSUME NEW m \in DOMAIN chatlog', NEW u \in Recipients(chatlog'[m].chat) PROVE Accounted(m, u)
    <3>1. CASE m \in DOMAIN chatlog
      BY <2>1, <2>3, <2>5, <3>1
    <3>2. CASE m = new
      BY <2>1, <2>4, <2>5, <3>2
    <3> QED
      BY <2>1, <2>5, <3>1, <3>2
  <2> QED
    BY <2>5 DEF AccountInv, Accounted
<1>5. ASSUME NEW h \in Handlers, Sends(h) PROVE AccountInv'
  <2> DEFINE new == Len(pushes) + 1
  <2>1. /\ DOMAIN pushes' = DOMAIN pushes \cup {new} /\ new \notin DOMAIN pushes
        /\ \A i \in DOMAIN pushes : pushes'[i] = pushes[i]
        /\ pushes'[new].msgId = handler[h].msgId /\ pushes'[new].to = handler[h].recvIds
        /\ UNCHANGED <<chatlog, tasks, inbox, missed>>
    BY <1>5, NowPushed DEF Sends
  <2> HIDE DEF new
  <2>2. Holding(h) /\ ~Holding(h)' /\ \A k \in Handlers \ {h} : handler'[k] = handler[k]
    BY <1>5, WaitingHandler DEF Sends, Rests, Holding, Addressed
  <2>3. chatlog[handler[h].msgId].chat = handler[h].chat /\ handler[h].recvIds = Recipients(handler[h].chat)
    BY <1>5, <2>2 DEF PlaceInv, Due, Sends
  <2>4. ASSUME NEW m \in DOMAIN chatlog, NEW u \in Recipients(chatlog[m].chat) PROVE Accounted(m, u)
    <3>1. Received(m, u)' <=> Received(m, u)
      BY <2>1 DEF Received
    <3>2. OnTheWay(m, u)' <=> OnTheWay(m, u)
      <4>1. CASE handler[h].msgId = m
        <5>1. OnTheWay(m, u)
          BY <2>2, <4>1 DEF OnTheWay
        <5>2. OnTheWay(m, u)'
          BY <2>1, <2>3, <4>1 DEF OnTheWay
        <5> QED
          BY <5>1, <5>2
      <4>2. CASE handler[h].msgId # m
        <5>1. \A k \in Handlers : Holding(k)' /\ handler'[k].msgId = m <=> Holding(k) /\ handler[k].msgId = m
          BY <2>2, <4>2 DEF Holding
        <5>2. (\E i \in DOMAIN pushes' : pushes'[i].msgId = m /\ u \in pushes'[i].to)
                <=> \E i \in DOMAIN pushes : pushes[i].msgId = m /\ u \in pushes[i].to
          BY <2>1, <4>2
        <5> QED
          BY <2>1, <5>1, <5>2 DEF OnTheWay
      <4> QED
        BY <4>1, <4>2
    <3> QED
      BY <2>1, <3>1, <3>2 DEF AccountInv, Accounted, At
  <2> QED
    BY <2>1, <2>4, AccountedAll
<1>6. CASE Push
  <2> DEFINE new == {[msgId |-> pushes[1].msgId, to |-> u, rconn |-> "none"] : u \in pushes[1].to}
  <2>1. /\ 1 \in DOMAIN pushes
        /\ \A i \in DOMAIN pushes' : i + 1 \in DOMAIN pushes /\ i + 1 # 1 /\ pushes'[i] = pushes[i + 1]
        /\ \A j \in DOMAIN pushes : j # 1 => j - 1 \in DOMAIN pushes' /\ pushes'[j - 1] = pushes[j]
        /\ tasks' = tasks \cup new
        /\ UNCHANGED <<handler, chatlog, inbox, missed>>
    BY <1>6, NowTaken DEF Push
  <2>2. \A m, u : (\E t \in new : t.msgId = m /\ t.to = u) <=> pushes[1].msgId = m /\ u \in pushes[1].to
    <3>1. \A t \in new : \E u \in pushes[1].to : t.msgId = pushes[1].msgId /\ t.to = u
      OBVIOUS
    <3>2. ASSUME NEW u \in pushes[1].to PROVE \E t \in new : t.msgId = pushes[1].msgId /\ t.to = u
      <4> DEFINE t == [msgId |-> pushes[1].msgId, to |-> u, rconn |-> "none"]
      <4>1. t \in new /\ t.msgId = pushes[1].msgId /\ t.to = u
        OBVIOUS
      <4> HIDE DEF t, new
      <4> QED
        BY <4>1
    <3> HIDE DEF new
    <3> QED
      BY <3>1, <3>2
  <2> HIDE DEF new
  <2>3. ASSUME NEW m \in DOMAIN chatlog, NEW u \in Recipients(chatlog[m].chat) PROVE Accounted(m, u)
    <3>1. Received(m, u)' <=> Received(m, u)
      BY <2>1 DEF Received
    <3>2. (\E i \in DOMAIN pushes' : pushes'[i].msgId = m /\ u \in pushes'[i].to)
            <=> \E j \in DOMAIN pushes : j # 1 /\ pushes[j].msgId = m /\ u \in pushes[j].to
      <4>1. ASSUME NEW i \in DOMAIN pushes', pushes'[i].msgId = m, u \in pushes'[i].to
            PROVE  \E j \in DOMAIN pushes : j # 1 /\ pushes[j].msgId = m /\ u \in pushes[j].to
        BY <2>1, <4>1
      <4>2. ASSUME NEW j \in DOMAIN pushes, j # 1, pushes[j].msgId = m, u \in pushes[j].to
            PROVE  \E i \in DOMAIN pushes' : pushes'[i].msgId = m /\ u \in pushes'[i].to
        BY <2>1, <4>2
      <4> QED
        BY <4>1, <4>2
    <3>3. (\E t \in tasks' : t.msgId = m /\ t.to = u)
            <=> \/ \E t \in tasks : t.msgId = m /\ t.to = u
                \/ pushes[1].msgId = m /\ u \in pushes[1].to
      <4>1. tasks' = tasks \cup new
        BY <2>1
      <4>2. (\E t \in new : t.msgId = m /\ t.to = u) <=> pushes[1].msgId = m /\ u \in pushes[1].to
        BY <2>2
      <4>3. (\E t \in tasks' : t.msgId = m /\ t.to = u)
              <=> \/ \E t \in tasks : t.msgId = m /\ t.to = u
                  \/ \E t \in new : t.msgId = m /\ t.to = u
        BY <4>1
      <4> QED
        BY <4>2, <4>3
    <3>4. OnTheWay(m, u)' <=> OnTheWay(m, u)
      BY <2>1, <3>2, <3>3 DEF OnTheWay, Holding
    <3> QED
      BY <2>1, <3>1, <3>4 DEF AccountInv, Accounted, At
  <2> QED
    BY <2>1, <2>3, AccountedAll
<1>7. CASE Loses
  <2>1. ASSUME NEW m \in DOMAIN chatlog, NEW u \in Recipients(chatlog[m].chat) PROVE Accounted(m, u)
    <3>0. m \in Nat /\ u \in Chatters
      BY <1>0
    <3>1. Received(m, u)' <=> Received(m, u)
      BY <1>7 DEF Loses, Received
    <3>2. /\ tasks' \subseteq tasks /\ DOMAIN pushes' \subseteq DOMAIN pushes
          /\ \A i \in DOMAIN pushes' : pushes'[i] = pushes[i]
          /\ handler' = handler
      BY <1>7 DEF Loses
    <3>3. CASE \E i \in DOMAIN pushes \ DOMAIN pushes' : pushes[i].msgId = m /\ u \in pushes[i].to
      <4>1. <<m, u>> \in missed'
        BY <1>7, <3>0, <3>3 DEF Loses
      <4>2. PICK i \in DOMAIN pushes \ DOMAIN pushes' : pushes[i].msgId = m
        BY <3>3
      <4>3. /\ ~Received(m, u)
            /\ \A k \in Handlers : Holding(k) => handler[k].msgId # m
            /\ \A j \in DOMAIN pushes : pushes[j].msgId = m => j = i
            /\ \A t \in tasks : t.msgId # m
        BY <3>0, <4>2, Only
      <4>4. ~OnTheWay(m, u)'
        BY <3>2, <4>2, <4>3 DEF OnTheWay, Holding
      <4> QED
        BY <3>1, <4>1, <4>3, <4>4 DEF Accounted, At
    <3>4. CASE \E t \in tasks \ tasks' : t.msgId = m /\ t.to = u
      <4>1. <<m, u>> \in missed'
        BY <1>7, <3>0, <3>4 DEF Loses
      <4>2. PICK t \in tasks \ tasks' : t.msgId = m /\ t.to = u
        BY <3>4
      <4>3. /\ ~Received(m, u)
            /\ \A k \in Handlers : Holding(k) => handler[k].msgId # m
            /\ \A i \in DOMAIN pushes : pushes[i].msgId # m
            /\ \A s \in tasks : s.msgId = m /\ s.to = u => s = t
        BY <3>0, <4>2, Only
      <4>4. ~OnTheWay(m, u)'
        BY <3>2, <4>2, <4>3 DEF OnTheWay, Holding
      <4> QED
        BY <3>1, <4>1, <4>3, <4>4 DEF Accounted, At
    <3>5. CASE /\ ~\E i \in DOMAIN pushes \ DOMAIN pushes' : pushes[i].msgId = m /\ u \in pushes[i].to
               /\ ~\E t \in tasks \ tasks' : t.msgId = m /\ t.to = u
      <4>1. <<m, u>> \in missed' <=> <<m, u>> \in missed
        BY <1>7, <3>0, <3>5 DEF Loses
      <4>2. OnTheWay(m, u)' <=> OnTheWay(m, u)
        BY <3>2, <3>5 DEF OnTheWay, Holding
      <4> QED
        BY <3>1, <4>1, <4>2 DEF AccountInv, Accounted, At
    <3> QED
      BY <3>3, <3>4, <3>5
  <2> QED
    BY <1>7, <2>1, AccountedAll DEF Loses
<1>8. ASSUME NEW t \in tasks, Delivers(t) PROVE AccountInv'
  <2>1. UNCHANGED <<handler, chatlog, pushes, missed>> /\ tasks' = tasks \ {t}
    BY <1>8 DEF Delivers
  <2>2. /\ \A u \in Chatters : \A k \in DOMAIN inbox[u] : k \in DOMAIN inbox'[u] /\ inbox'[u][k] = inbox[u][k]
        /\ \A u \in Chatters : \A k \in DOMAIN inbox'[u] :
             k \in DOMAIN inbox[u] \/ (u = t.to /\ inbox'[u][k] = t.msgId)
        /\ \E k \in DOMAIN inbox'[t.to] : inbox'[t.to][k] = t.msgId
    <3>1. Arrives(t)
      BY <1>8 DEF Delivers
    <3>2. \E k \in DOMAIN inbox'[t.to] : inbox'[t.to][k] = t.msgId
      BY <3>1, NowReceived
    <3>3. /\ \A u \in Chatters : \A k \in DOMAIN inbox[u] : k \in DOMAIN inbox'[u] /\ inbox'[u][k] = inbox[u][k]
          /\ \A u \in Chatters : \A k \in DOMAIN inbox'[u] :
               k \in DOMAIN inbox[u] \/ (u = t.to /\ inbox'[u][k] = t.msgId)
      BY <3>1, NowReceived
    <3> QED
      BY <3>2, <3>3
  <2>3. ASSUME NEW m \in DOMAIN chatlog, NEW u \in Recipients(chatlog[m].chat) PROVE Accounted(m, u)
    <3>0. u \in Chatters
      BY <1>0
    <3>1. Received(m, u)' <=> Received(m, u) \/ (t.msgId = m /\ t.to = u)
      BY <2>2, <3>0 DEF Received
    <3>2. (\E s \in tasks : s.msgId = m /\ s.to = u)
            <=> \/ \E s \in tasks' : s.msgId = m /\ s.to = u
                \/ t.msgId = m /\ t.to = u
      BY <2>1
    <3>3. OnTheWay(m, u) <=> OnTheWay(m, u)' \/ (t.msgId = m /\ t.to = u)
      BY <2>1, <3>2 DEF OnTheWay, Holding
    <3> QED
      BY <2>1, <3>1, <3>3 DEF AccountInv, Accounted, At
  <2> QED
    BY <2>1, <2>3, AccountedAll
<1> QED
  BY <1>1, <1>2, <1>3, <1>4, <1>5, <1>6, <1>7, <1>8, Kinds DEF Kind

-----------------------------------------------------------------------------
(* Each time the queue hands out a message is told apart from the others,   *)
(* and makes one row; a message is in the queue, in hand, stored or known   *)
(* not to be stored.                                                        *)

Repeated(c) == c.id <= published /\ c.copy <= repeats
FreshInv ==
  /\ topic \cap taken = {}
  /\ \A c \in topic \cup taken : Repeated(c)
  /\ \A h \in Handlers : handler[h].pc # "idle" => handler[h].chat \in taken
  /\ \A i \in DOMAIN chatlog : chatlog[i].chat \in taken
  /\ \A h \in Handlers, i \in DOMAIN chatlog : handler[h].pc = "insert" => handler[h].chat # chatlog[i].chat
  /\ \A h, k \in Handlers :
       handler[h].pc = "insert" /\ handler[k].pc = "insert" /\ handler[h].chat = handler[k].chat => h = k
  /\ \A i, j \in DOMAIN chatlog : chatlog[i].chat = chatlog[j].chat => i = j

Known(n) ==
  \/ \E c \in topic : c.id = n
  \/ \E h \in Handlers : handler[h].chat.id = n
  \/ \E i \in DOMAIN chatlog : chatlog[i].chat.id = n
  \/ n \in unstored
KeptInv ==
  /\ \A h \in Handlers : handler[h].pc = "idle" => handler[h].chat = NoChat
  /\ \A n \in 1..published : Known(n)

(* A goroutine goes on past the insert, or ends: what it had is stored, or  *)
(* was not.                                                                 *)
Onward(k) == handler'[k].chat = handler[k].chat /\ handler'[k].pc \in Held
Ended(k) ==
  /\ handler'[k] = Waiting
  /\ \/ Holding(k)
     \/ handler[k].pc = "idle"
     \/ handler[k].pc = "insert" /\ handler[k].chat.id \in unstored'
Quiet ==
  /\ UNCHANGED <<queue, chatlog>> /\ unstored \subseteq unstored'
  /\ \A k \in Handlers : handler'[k] = handler[k] \/ (Holding(k) /\ Onward(k)) \/ Ended(k)

LEMMA FreshQuiet ==
  ASSUME FreshInv, Quiet PROVE FreshInv'
<1>1. UNCHANGED <<published, repeats, topic, taken, chatlog>>
  BY DEF Quiet, queue
<1>2. \A k \in Handlers :
        /\ handler'[k].pc = "insert" => handler[k].pc = "insert" /\ handler'[k].chat = handler[k].chat
        /\ handler'[k].pc # "idle" => handler[k].pc # "idle" /\ handler'[k].chat = handler[k].chat
  BY WaitingHandler DEF Quiet, Onward, Ended, Holding, Held
<1> QED
  BY <1>1, <1>2 DEF FreshInv, Repeated

LEMMA KeptQuiet ==
  ASSUME PlaceInv, KeptInv, Quiet PROVE KeptInv'
<1>1. UNCHANGED <<published, topic, chatlog>> /\ unstored \subseteq unstored'
  BY DEF Quiet, queue
<1>2. \A k \in Handlers : handler'[k].pc = "idle" => handler'[k].chat = NoChat
  BY WaitingHandler DEF KeptInv, Quiet, Onward, Ended, Held
<1>3. ASSUME NEW n \in 1..published PROVE Known(n)'
  <2>1. Known(n)
    BY DEF KeptInv
  <2>2. CASE \E c \in topic : c.id = n
    BY <1>1, <2>2 DEF Known
  <2>3. ASSUME NEW h \in Handlers, handler[h].chat.id = n PROVE Known(n)'
    <3>1. CASE handler'[h].chat = handler[h].chat
      BY <2>3, <3>1 DEF Known
    <3>2. CASE Holding(h)
      BY <1>1, <2>3, <3>2 DEF PlaceInv, Due, Known
    <3>3. CASE handler[h].pc = "insert" /\ handler[h].chat.id \in unstored'
      BY <2>3, <3>3 DEF Known
    <3>4. CASE handler[h].pc = "idle" /\ handler'[h] = Waiting
      BY <3>1, <3>4, WaitingHandler DEF KeptInv
    <3> QED
      BY <3>1, <3>2, <3>3, <3>4 DEF Quiet, Onward, Ended
  <2>4. CASE \E i \in DOMAIN chatlog : chatlog[i].chat.id = n
    BY <1>1, <2>4 DEF Known
  <2>5. CASE n \in unstored
    BY <1>1, <2>5 DEF Known
  <2> QED
    BY <2>1, <2>2, <2>3, <2>4, <2>5 DEF Known
<1> QED
  BY <1>1, <1>2, <1>3 DEF KeptInv

(* What a goroutine does with a message is quiet, but for the insert.       *)
LEMMA QuietOne ==
  ASSUME NEW h \in Handlers, (Holding(h) /\ Onward(h)) \/ Ended(h),
         \A k \in Handlers \ {h} : handler'[k] = handler[k],
         UNCHANGED <<queue, chatlog>>, unstored \subseteq unstored'
  PROVE  Quiet
<1>1. \A k \in Handlers : handler'[k] = handler[k] \/ (Holding(k) /\ Onward(k)) \/ Ended(k)
  OBVIOUS
<1> QED
  BY <1>1 DEF Quiet

Hands ==
  \/ \E h \in Handlers :
       InsertFails(h) \/ UpdateMsgFails(h) \/ Members(h) \/ Lock(h) \/ Write(h) \/ DialFails(h) \/ Redial(h)
  \/ Restart
LEMMA HandsAreQuiet == ASSUME Setting, TypeOK, Hands PROVE Quiet
<1>1. ASSUME NEW h \in Handlers, Holding(h), Rest(h) \/ \E pc \in Held : Goes(h, pc),
             UNCHANGED <<queue, chatlog, unstored>>
      PROVE  Quiet
  <2>1. (Onward(h) \/ Ended(h)) /\ \A k \in Handlers \ {h} : handler'[k] = handler[k]
    BY <1>1, NowRests DEF Rests, Goes, Onward, Ended
  <2> QED
    BY <1>1, <2>1, QuietOne
<1>2. ASSUME NEW h \in Handlers, InsertFails(h) PROVE Quiet
  <2>1. handler[h].pc = "insert" /\ handler[h].chat.id \in unstored' /\ Rests(h)
    BY <1>2, NowRests DEF InsertFails
  <2>2. Ended(h) /\ \A k \in Handlers \ {h} : handler'[k] = handler[k]
    BY <2>1 DEF Ended, Rests
  <2> QED
    BY <1>2, <2>2, QuietOne DEF InsertFails
<1>3. ASSUME NEW h \in Handlers, UpdateMsgFails(h) PROVE Quiet
  BY <1>1, <1>3 DEF UpdateMsgFails, Holding
<1>4. ASSUME NEW h \in Handlers, Members(h) PROVE Quiet
  <2>1. Rest(h) \/ \E pc \in Held : Goes(h, pc)
    BY <1>4, NowMembers DEF Members, Held
  <2> QED
    BY <1>1, <1>4, <2>1 DEF Members, Holding
<1>5. ASSUME NEW h \in Handlers, Lock(h) PROVE Quiet
  <2>1. \E pc \in Held : Goes(h, pc)
    BY <1>5, NowGoes DEF Lock, Held
  <2> QED
    BY <1>1, <1>5, <2>1 DEF Lock, Holding
<1>6. ASSUME NEW h \in Handlers, Write(h) \/ DialFails(h) \/ Redial(h) PROVE Quiet
  <2>1. Unlock(h) \/ handler' = [handler EXCEPT ![h].pc = "dial"]
    BY <1>6 DEF Write, DialFails, Redial
  <2>2. Rest(h) \/ \E pc \in Held : Goes(h, pc)
    BY <1>6, <2>1, NowGoes DEF Write, DialFails, Redial, Unlock, Held
  <2> QED
    BY <1>1, <1>6, <2>2 DEF Write, DialFails, Redial, Holding
<1>7. CASE Restart
  <2>1. /\ UNCHANGED <<queue, chatlog>>
        /\ unstored' = unstored \cup {handler[h].chat.id : h \in {k \in Handlers : handler[k].pc = "insert"}}
    BY <1>7 DEF Restart
  <2>2. \A k \in Handlers : handler[k].pc = "insert" => handler[k].chat.id \in unstored'
    BY <2>1
  <2>3. \A k \in Handlers : Holding(k) \/ handler[k].pc \in {"idle", "insert"}
    BY DEF TypeOK, Handler, Held, Holding
  <2>4. \A k \in Handlers : Ended(k)
    BY <1>7, <2>2, <2>3, NowRestarted DEF Ended
  <2> QED
    BY <2>1, <2>4 DEF Quiet
<1> QED
  BY <1>2, <1>3, <1>4, <1>5, <1>6, <1>7 DEF Hands

(* The others, but Publish, ComeAgain, Fetch and Insert, leave them alone.  *)
LEMMA QuietNext ==
  ASSUME Setting, TypeOK, [Next]_vars
  PROVE  \/ \E u \in Chatters, to \in Chatters \cup Rooms : Publish(u, to)
         \/ \E c \in taken : ComeAgain(c)
         \/ \E h \in Handlers : (\E c \in topic : Fetch(h, c)) \/ Insert(h)
         \/ Quiet
<1>1. ASSUME UNCHANGED <<queue, handler, chatlog, unstored>> PROVE Quiet
  <2>1. unstored \subseteq unstored' /\ handler' = handler /\ UNCHANGED <<queue, chatlog>>
    BY <1>1
  <2> QED
    BY <2>1 DEF Quiet
<1>2. ASSUME NEW u \in Chatters, Connect(u) \/ Disconnect(u) PROVE Quiet
  BY <1>1, <1>2 DEF Connect, Disconnect
<1>3. ASSUME (\E n \in 0..Len(pushes) : LinkBreaks(n)) \/ ServerDies \/ Push PROVE Quiet
  BY <1>1, <1>3 DEF LinkBreaks, ServerDies, Push
<1>4. ASSUME NEW t \in tasks, GetConn(t) \/ SendTo(t) PROVE Quiet
  BY <1>1, <1>4 DEF GetConn, SendTo
<1>5. CASE UNCHANGED vars
  BY <1>1, <1>5 DEF vars
<1>6. CASE Hands
  BY <1>6, HandsAreQuiet
<1> QED
  BY <1>2, <1>3, <1>4, <1>5, <1>6 DEF Next, Hands

LEMMA StepFresh == Setting /\ TypeOK /\ FreshInv /\ [Next]_vars => FreshInv'
<1> SUFFICES ASSUME Setting, TypeOK, FreshInv, [Next]_vars PROVE FreshInv'
  OBVIOUS
<1>1. ASSUME NEW d, topic' = topic \cup {d}, d \notin topic \cup taken, Repeated(d)',
             published' \in Nat, repeats' \in Nat, published <= published', repeats <= repeats',
             UNCHANGED <<taken, handler, chatlog>>
      PROVE  FreshInv'
  <2>1. \A c \in topic \cup taken : Repeated(c)'
    <3>1. \A c \in topic \cup taken : c \in Chats
      BY DEF TypeOK
    <3>2. \A c \in topic \cup taken : c.id \in Nat /\ c.copy \in Nat /\ Repeated(c)
      BY <3>1 DEF Chats, FreshInv
    <3> QED
      BY <1>1, <3>2 DEF Repeated, TypeOK
  <2> QED
    BY <1>1, <2>1 DEF FreshInv
<1>2. ASSUME NEW u \in Chatters, NEW to \in Chatters \cup Rooms, Publish(u, to) PROVE FreshInv'
  <2> DEFINE d == [id |-> published + 1, copy |-> 0, from |-> u, to |-> to]
  <2>1. /\ topic' = topic \cup {d} /\ published' = published + 1
        /\ UNCHANGED <<repeats, taken, handler, chatlog>>
    BY <1>2 DEF Publish
  <2>2. published \in Nat /\ repeats \in Nat
    BY DEF TypeOK
  <2>3. d.id = published + 1 /\ d.copy = 0
    OBVIOUS
  <2> HIDE DEF d
  <2>4. d \notin topic \cup taken
    <3>1. \A c \in topic \cup taken : c.id <= published
      BY DEF FreshInv, Repeated
    <3> QED
      BY <2>2, <2>3, <3>1
  <2>5. ASSUME NEW e, e = d PROVE Repeated(e)'
    BY <2>1, <2>2, <2>3, <2>5 DEF Repeated
  <2>6. ASSUME NEW e, e = d PROVE FreshInv'
    BY <1>1, <2>1, <2>2, <2>4, <2>5, <2>6
  <2> QED
    BY <2>6
<1>3. ASSUME NEW c \in taken, ComeAgain(c) PROVE FreshInv'
  <2> DEFINE d == [c EXCEPT !.copy = repeats + 1]
  <2>0. c \in Chats /\ Repeated(c)
    BY DEF TypeOK, FreshInv
  <2>1. /\ topic' = topic \cup {d} /\ repeats' = repeats + 1
        /\ UNCHANGED <<published, taken, handler, chatlog>>
    BY <1>3 DEF ComeAgain
  <2>2. published \in Nat /\ repeats \in Nat
    BY DEF TypeOK
  <2>3. d.id = c.id /\ d.copy = repeats + 1 /\ c.id <= published
    BY <2>0 DEF Chats, Repeated
  <2> HIDE DEF d
  <2>4. d \notin topic \cup taken
    <3>1. \A e \in topic \cup taken : e.copy <= repeats
      BY DEF FreshInv, Repeated
    <3> QED
      BY <2>2, <2>3, <3>1
  <2>5. ASSUME NEW e, e = d PROVE Repeated(e)'
    BY <2>1, <2>2, <2>3, <2>5 DEF Repeated
  <2>6. ASSUME NEW e, e = d PROVE FreshInv'
    BY <1>1, <2>1, <2>2, <2>4, <2>5, <2>6
  <2> QED
    BY <2>6
<1>4. ASSUME NEW h \in Handlers, NEW c \in topic, Fetch(h, c) PROVE FreshInv'
  <2>1. c \in Chats
    BY DEF TypeOK
  <2>2. /\ handler'[h].pc = "insert" /\ handler'[h].chat = c
        /\ \A k \in Handlers \ {h} : handler'[k] = handler[k]
    BY <1>4, <2>1, NowFetched
  <2>3. topic' = topic \ {c} /\ taken' = taken \cup {c} /\ UNCHANGED <<published, repeats, chatlog>>
    BY <1>4 DEF Fetch
  <2>4. c \notin taken
    BY DEF FreshInv
  <2> QED
    BY <2>2, <2>3, <2>4 DEF FreshInv, Repeated
<1>5. ASSUME NEW h \in Handlers, Insert(h) PROVE FreshInv'
  <2> DEFINE new == Len(chatlog) + 1
  <2>1. /\ handler[h].pc = "insert" /\ UNCHANGED <<published, repeats, topic, taken>>
        /\ handler'[h].pc = "members" /\ handler'[h].chat = handler[h].chat
        /\ \A k \in Handlers \ {h} : handler'[k] = handler[k]
    BY <1>5, NowInserted DEF Insert, Goes, queue
  <2>2. /\ DOMAIN chatlog' = DOMAIN chatlog \cup {new} /\ new \notin DOMAIN chatlog
        /\ chatlog'[new].chat = handler[h].chat
        /\ \A m \in DOMAIN chatlog : chatlog'[m] = chatlog[m]
    BY <1>5, NowInserted
  <2> HIDE DEF new
  <2>3. \A i \in DOMAIN chatlog' :
          \/ i \in DOMAIN chatlog /\ chatlog'[i] = chatlog[i]
          \/ i = new /\ chatlog'[i].chat = handler[h].chat
    BY <2>2
  <2>4. \A k \in Handlers : handler'[k].pc = "insert" =>
          k # h /\ handler[k].pc = "insert" /\ handler'[k].chat = handler[k].chat
    BY <2>1
  <2>5. \A i, j \in DOMAIN chatlog' : chatlog'[i].chat = chatlog'[j].chat => i = j
    BY <2>1, <2>3 DEF FreshInv
  <2>6. \A k \in Handlers, i \in DOMAIN chatlog' :
          handler'[k].pc = "insert" => handler'[k].chat # chatlog'[i].chat
    BY <2>1, <2>3, <2>4 DEF FreshInv
  <2>7. \A i \in DOMAIN chatlog' : chatlog'[i].chat \in taken
    BY <2>1, <2>3 DEF FreshInv
  <2>8. \A k \in Handlers : handler'[k].pc # "idle" => handler'[k].chat \in taken
    BY <2>1 DEF FreshInv
  <2> QED
    BY <2>1, <2>4, <2>5, <2>6, <2>7, <2>8 DEF FreshInv, Repeated
<1>6. CASE Quiet
  BY <1>6, FreshQuiet
<1> QED
  BY <1>2, <1>3, <1>4, <1>5, <1>6, QuietNext

LEMMA StepKept == Setting /\ TypeOK /\ PlaceInv /\ KeptInv /\ [Next]_vars => KeptInv'
<1> SUFFICES ASSUME Setting, TypeOK, PlaceInv, KeptInv, [Next]_vars PROVE KeptInv'
  OBVIOUS
<1>1. ASSUME NEW u \in Chatters, NEW to \in Chatters \cup Rooms, Publish(u, to) PROVE KeptInv'
  <2>1. \A n \in 1..published' : n \in 1..published \/ n = published + 1
    BY <1>1 DEF Publish, TypeOK
  <2>2. ASSUME NEW n \in 1..published PROVE Known(n)'
    BY <1>1 DEF KeptInv, Known, Publish
  <2>3. ASSUME NEW n, n = published + 1 PROVE Known(n)'
    <3> DEFINE c == [id |-> published + 1, copy |-> 0, from |-> u, to |-> to]
    <3>1. c \in topic' /\ c.id = n
      BY <1>1, <2>3 DEF Publish
    <3> HIDE DEF c
    <3> QED
      BY <3>1 DEF Known
  <2>4. handler' = handler
    BY <1>1 DEF Publish
  <2> QED
    BY <2>1, <2>2, <2>3, <2>4 DEF KeptInv
<1>2. ASSUME NEW c \in taken, ComeAgain(c) PROVE KeptInv'
  <2>1. topic \subseteq topic' /\ UNCHANGED <<published, handler, chatlog, unstored>>
    BY <1>2 DEF ComeAgain
  <2> QED
    BY <2>1 DEF KeptInv, Known
<1>3. ASSUME NEW h \in Handlers, NEW c \in topic, Fetch(h, c) PROVE KeptInv'
  <2>1. c \in Chats
    BY DEF TypeOK
  <2>2. /\ handler'[h].pc = "insert" /\ handler'[h].chat = c
        /\ \A k \in Handlers \ {h} : handler'[k] = handler[k]
    BY <1>3, <2>1, NowFetched
  <2>3. handler[h].chat.id = 0 /\ topic' = topic \ {c} /\ UNCHANGED <<published, chatlog, unstored>>
    BY <1>3 DEF Fetch, KeptInv, NoChat
  <2>4. ASSUME NEW n \in 1..published PROVE Known(n)'
    <3>1. n # 0 /\ Known(n)
      BY DEF KeptInv, TypeOK
    <3>2. CASE \E d \in topic : d.id = n
      BY <2>2, <2>3, <3>2 DEF Known
    <3>3. CASE \E k \in Handlers : handler[k].chat.id = n
      BY <2>2, <2>3, <3>1, <3>3 DEF Known
    <3>4. CASE (\E i \in DOMAIN chatlog : chatlog[i].chat.id = n) \/ n \in unstored
      BY <2>3, <3>4 DEF Known
    <3> QED
      BY <3>1, <3>2, <3>3, <3>4 DEF Known
  <2> QED
    BY <2>2, <2>3, <2>4 DEF KeptInv
<1>4. ASSUME NEW h \in Handlers, Insert(h) PROVE KeptInv'
  <2>1. UNCHANGED <<published, topic, unstored>>
    BY <1>4 DEF Insert, queue
  <2>2. \A i \in DOMAIN chatlog : i \in DOMAIN chatlog' /\ chatlog'[i] = chatlog[i]
    BY <1>4, NowInserted
  <2>3. \A k \in Handlers : handler'[k].chat = handler[k].chat /\ (handler'[k].pc = "idle" => handler[k].pc = "idle")
    BY <1>4, NowInserted DEF Goes
  <2>4. ASSUME NEW n \in 1..published PROVE Known(n)'
    BY <2>1, <2>2, <2>3 DEF KeptInv, Known
  <2> QED
    BY <2>1, <2>3, <2>4 DEF KeptInv
<1>5. CASE Quiet
  BY <1>5, KeptQuiet
<1> QED
  BY <1>1, <1>2, <1>3, <1>4, <1>5, QuietNext

-----------------------------------------------------------------------------
DeliveryInv == TypeOK /\ PlaceInv /\ OnceInv /\ AccountInv /\ FreshInv /\ KeptInv

LEMMA Start == Setting /\ Init => DeliveryInv
<1> SUFFICES ASSUME Setting, Init PROVE DeliveryInv
  OBVIOUS
<1>1. \A h \in Handlers : handler[h] = Waiting
  BY DEF Init
<1>2. /\ published = 0 /\ repeats = 0 /\ topic = {} /\ taken = {} /\ missed = {}
      /\ chatlog = <<>> /\ pushes = <<>> /\ tasks = {}
      /\ handler \in [Handlers -> Handler] /\ inbox \in [Chatters -> Seq(Nat)]
      /\ \A u \in Chatters : inbox[u] = <<>>
  BY WaitingHandler DEF Init
<1>3. TypeOK
  BY <1>1, <1>2, WaitingHandler DEF TypeOK
<1>4. \A h \in Handlers : ~Holding(h)
  BY <1>1, WaitingHandler DEF Holding
<1>5. DOMAIN pushes = {} /\ DOMAIN chatlog = {} /\ \A u \in Chatters : DOMAIN inbox[u] = {}
  BY <1>2
<1>6. PlaceInv
  BY <1>2, <1>4, <1>5 DEF PlaceInv
<1>7. OnceInv
  BY <1>2, <1>4, <1>5 DEF OnceInv
<1>8. AccountInv
  BY <1>5 DEF AccountInv
<1>9. FreshInv
  BY <1>1, <1>2, <1>5, WaitingHandler DEF FreshInv
<1>10. KeptInv
  BY <1>1, <1>2, WaitingHandler DEF KeptInv
<1> QED
  BY <1>3, <1>6, <1>7, <1>8, <1>9, <1>10 DEF DeliveryInv

(* PushesAccounted: whatever fails, restarts, comes again, breaks or closes,*)
(* each row of the chat log is made once for each time that the queue       *)
(* handed its message out, is received at most once by those it was meant   *)
(* for, and is received, on its way or given up at one of the known points, *)
(* never two of these; and a message that is not stored is in the queue, in *)
(* hand, or its insert was not reached.                                     *)
THEOREM EveryPushIsAccounted == ASSUME Setting PROVE Spec => []PushesAccounted
<1>1. DeliveryInv => PushesAccounted
  <2> SUFFICES ASSUME DeliveryInv PROVE PushesAccounted
    OBVIOUS
  <2>1. EachRowOnce
    BY DEF DeliveryInv, PlaceInv, OnceInv, FreshInv, For, EachRowOnce
  <2>2. ASSUME NEW m \in DOMAIN chatlog, NEW u \in Recipients(chatlog[m].chat)
        PROVE  /\ Received(m, u) \/ OnTheWay(m, u) \/ <<m, u>> \in missed
               /\ <<m, u>> \in missed => ~Received(m, u) /\ ~OnTheWay(m, u)
    BY DEF DeliveryInv, AccountInv, At
  <2>3. \A n \in 1..published : Known(n)
    BY DEF DeliveryInv, KeptInv
  <2> QED
    BY <2>1, <2>2, <2>3 DEF PushesAccounted, Known
<1>2. Setting
  OBVIOUS
<1>3. Setting /\ DeliveryInv /\ [Next]_vars => DeliveryInv'
  BY StepType, StepPlace, StepOnce, StepAccount, StepFresh, StepKept DEF DeliveryInv
<1> QED
  BY <1>1, <1>2, <1>3, Start, PTL DEF Spec
=============================================================================
