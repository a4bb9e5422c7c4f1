------------------------------- MODULE ReadAck -------------------------------
(***************************************************************************)
(* One websocket connection of the IM server: the goroutines that share a  *)
(* Conn and the acknowledgement queue between them.                        *)
(*                                                                         *)
(*   handlerConn   reads frames; with acknowledgements on it appends them  *)
(*                 to the queue (appendMsgMq), else it sends them on the   *)
(*                 channel conn.message itself;                            *)
(*   readAck       acknowledges the head of the queue, waits for the       *)
(*                 client's confirmation in RigorAck mode, and sends the   *)
(*                 message on conn.message;                                *)
(*   handlerWrite  receives from conn.message, runs the route's handler    *)
(*                 and forgets the id of the message.                      *)
(*                                                                         *)
(* A step that the code runs under messageMu from Lock to Unlock is one    *)
(* action.  Closing the connection, and what the registry of connections   *)
(* makes of it, is the subject of WsServer; here it is the event that      *)
(* closes the channel done.                                                *)
(***************************************************************************)
EXTENDS Integers, Sequences

CONSTANTS
  Ids,        \* the values a client puts in Message.Id
  AckModes,   \* the acknowledgement modes a server may be configured with
  DataSeqs,   \* the AckSeq a client puts in a frame that is not an ack (0 unless it deviates)
  AckSeqs,    \* the AckSeq a client puts in an ack frame
  MaxFrames   \* bound: how many frames the client sends

ASSUME AckModeAssumption == AckModes \subseteq {"NoAck", "OnlyAck", "RigorAck"}
ASSUME SeqAssumption == DataSeqs \subseteq Nat /\ AckSeqs \subseteq Nat
ASSUME MaxFramesAssumption == MaxFrames \in Nat

ChanCap == 1   \* make(chan *Message, 1)

VARIABLES
  AckMode,         \* serverOption.ack, chosen when the server is made
  wire,            \* every frame read so far: a message is named by its place in it
  reader,          \* handlerConn: [pc, msg]
  readMessages,    \* Conn.readMessages: the messages waiting for acknowledgement
  readMessageSeq,  \* Conn.readMessageSeq: id -> latest message seen with that id
  message,         \* Conn.message: the buffered channel
  acker,           \* readAck: [pc, msg]
  writer,          \* handlerWrite: [pc, msg]
  done,            \* Conn.done is closed
  crashed,         \* the runtime stopped the process
  handled,         \* history: the queued messages whose handler ran, in order
  direct,          \* history: the same for those that bypass the queue
  dropped,         \* history: the messages given up after a timeout
  acked            \* history: the messages for which an ack frame was written

connVars == <<reader, readMessages, readMessageSeq, message, acker, writer>>
vars == <<AckMode, wire, connVars, done, crashed, handled, direct, dropped, acked>>

-----------------------------------------------------------------------------
(* A frame as the client sends it.  FrameData, FramePing and the other     *)
(* types that pass the validator are queued alike ("data").                *)
Frame == [id: Ids, kind: {"data"}, seq: DataSeqs]
           \cup [id: Ids, kind: {"ack"}, seq: AckSeqs]
           \cup [id: Ids, kind: {"noack"}, seq: {0}]

(* A Message of the server: the frame, its AckTime, its place on the wire.  *)
Message == [id: Ids, kind: {"data", "ack", "noack"}, seq: Nat,
            time: {"zero", "fresh", "late"}, n: Nat]

(* readMessageSeq maps an id to a *Message.  own says that it still points  *)
(* to the message that is queued, so that both see a change of AckSeq.      *)
SeqEntry == [own: BOOLEAN, seq: Nat]

Put(f, k, v) == [x \in DOMAIN f \cup {k} |-> IF x = k THEN v ELSE f[x]]
Delete(f, k) == [x \in DOMAIN f \ {k} |-> f[x]]

NoMsg == [id |-> "none", kind |-> "none", seq |-> 0, time |-> "zero", n |-> 0]
At(pc, msg) == [pc |-> pc, msg |-> msg]
Loop(pc) == At(pc, NoMsg)

(* Server.isAck: whether the message went through the queue.                *)
isAck(m) == AckMode # "NoAck" /\ m.kind # "noack"

Init ==
  /\ AckMode \in AckModes
  /\ wire = <<>>
  /\ reader = Loop("read")
  /\ readMessages = <<>>
  /\ readMessageSeq = [x \in {} |-> 0]
  /\ message = <<>>
  /\ acker = Loop(IF AckMode = "NoAck" THEN "exit" ELSE "check")
  /\ writer = Loop("select")
  /\ done = FALSE /\ crashed = FALSE
  /\ handled = <<>> /\ direct = <<>> /\ dropped = {} /\ acked = {}

-----------------------------------------------------------------------------
(* conn.message <- m, by the reader or by readAck: blocks while the buffer  *)
(* is full.                                                                 *)
(* Mutants: it never blocks; it gives up when the buffer is full.           *)
SendUnbounded(m) == message' = Append(message, m)
SendOrDrop(m) == message' = IF Len(message) < ChanCap THEN Append(message, m) ELSE message
SendOn(m) ==
  /\ Len(message) < ChanCap
  /\ message' = Append(message, m)

-----------------------------------------------------------------------------
(* handlerConn *)

(* appendMsgMq, first half: an id the connection remembers.  Only a higher  *)
(* AckSeq, seen while something is queued, is recorded.                     *)
(* Mutant: a repeated message is queued again.                              *)
RequeueRepeat(m) ==
  /\ m.id \in DOMAIN readMessageSeq
  /\ readMessages' = Append(readMessages, m)
  /\ UNCHANGED readMessageSeq
RecordRepeat(m) ==
  /\ m.id \in DOMAIN readMessageSeq
  /\ readMessageSeq' =
       IF readMessages # <<>> /\ readMessageSeq[m.id].seq < m.seq
       THEN Put(readMessageSeq, m.id, [own |-> FALSE, seq |-> m.seq])
       ELSE readMessageSeq
  /\ UNCHANGED readMessages

(* appendMsgMq, second half: a new id; a stray ack is filtered.             *)
Enqueue(m) ==
  /\ m.id \notin DOMAIN readMessageSeq
  /\ IF m.kind = "ack"
     THEN UNCHANGED <<readMessages, readMessageSeq>>
     ELSE /\ readMessages' = Append(readMessages, m)
          /\ readMessageSeq' = Put(readMessageSeq, m.id, [own |-> TRUE, seq |-> m.seq])

appendMsgMq(m) == RecordRepeat(m) \/ Enqueue(m)

(* One turn of the read loop: a valid frame is queued, or is about to be    *)
(* sent on the channel.                                                     *)
ReadFrame(f) ==
  LET m == [id |-> f.id, kind |-> f.kind, seq |-> f.seq,
            time |-> "zero", n |-> Len(wire) + 1]
  IN /\ ~crashed /\ ~done
     /\ reader.pc = "read"
     /\ Len(wire) < MaxFrames
     /\ wire' = Append(wire, f)
     /\ IF isAck(m)
        THEN appendMsgMq(m) /\ UNCHANGED reader
        ELSE reader' = At("send", m) /\ UNCHANGED <<readMessages, readMessageSeq>>
     /\ UNCHANGED <<AckMode, message, acker, writer, done, crashed,
                    handled, direct, dropped, acked>>

(* A message that does not wait for an acknowledgement goes to the channel. *)
ReaderSend ==
  /\ ~crashed
  /\ reader.pc = "send"
  /\ SendOn(reader.msg)
  /\ reader' = Loop("read")
  /\ UNCHANGED <<AckMode, wire, readMessages, readMessageSeq, acker, writer,
                 done, crashed, handled, direct, dropped, acked>>

(* The read fails: the loop closes the connection and returns.  Someone     *)
(* else (keepalive, a newer login) may have closed it before.               *)
ReadFail ==
  /\ ~crashed
  /\ reader.pc = "read"
  /\ reader' = Loop("exit")
  /\ done' = TRUE
  /\ UNCHANGED <<AckMode, wire, readMessages, readMessageSeq, message, acker, writer,
                 crashed, handled, direct, dropped, acked>>

(* keepalive, or addConn for the same user, closes the connection.          *)
CloseConn ==
  /\ ~crashed /\ ~done
  /\ done' = TRUE
  /\ UNCHANGED <<AckMode, wire, connVars, crashed, handled, direct, dropped, acked>>

-----------------------------------------------------------------------------
(* readAck *)

(* The select at the top of the loop.                                       *)
AckCheck ==
  /\ ~crashed
  /\ acker.pc = "check"
  /\ acker' = Loop(IF done THEN "exit" ELSE "work")
  /\ UNCHANGED <<AckMode, wire, reader, readMessages, readMessageSeq, message, writer,
                 done, crashed, handled, direct, dropped, acked>>

(* An empty queue: sleep and look again.                                    *)
AckIdle ==
  /\ ~crashed
  /\ acker.pc = "work" /\ readMessages = <<>>
  /\ acker' = Loop("check")
  /\ UNCHANGED <<AckMode, wire, reader, readMessages, readMessageSeq, message, writer,
                 done, crashed, handled, direct, dropped, acked>>

(* The loop body with the lock held and a message at the head.              *)
Working(mode) == /\ ~crashed
                 /\ AckMode = mode
                 /\ acker.pc = "work" /\ readMessages # <<>>

(* OnlyAck: write the ack, then pop the message and pass it on.  When the   *)
(* write fails, send releases the lock and readAck returns for good.        *)
(* Mutant: the result of the write is ignored.                              *)
OnlyAckAnyway(ok) ==
  LET m == Head(readMessages)
  IN /\ Working("OnlyAck")
     /\ readMessages' = Tail(readMessages)
     /\ acker' = At("deliver", m)
     /\ acked' = IF ok THEN acked \cup {m.n} ELSE acked
     /\ UNCHANGED <<AckMode, wire, reader, readMessageSeq, message, writer,
                    done, crashed, handled, direct, dropped>>
OnlyAckSend(ok) ==
  LET m == Head(readMessages)
  IN /\ Working("OnlyAck")
     /\ IF ok
        THEN /\ readMessages' = Tail(readMessages)
             /\ acker' = At("deliver", m)
             /\ acked' = acked \cup {m.n}
        ELSE /\ acker' = Loop("exit")
             /\ UNCHANGED <<readMessages, acked>>
     /\ UNCHANGED <<AckMode, wire, reader, readMessageSeq, message, writer,
                    done, crashed, handled, direct, dropped>>

(* RigorAck, first visit: number and stamp the message (the id's entry is   *)
(* the same object unless a repeat replaced it) and write the ack.          *)
(* Mutant: the result of the write is ignored.                              *)
RigorFirstAnyway(ok) ==
  LET m == Head(readMessages)
      numbered == [m EXCEPT !.seq = 1, !.time = "fresh"]
  IN /\ Working("RigorAck")
     /\ m.seq = 0
     /\ readMessages' = <<numbered>> \o Tail(readMessages)
     /\ readMessageSeq' = IF readMessageSeq[m.id].own
                          THEN [readMessageSeq EXCEPT ![m.id].seq = 1]
                          ELSE readMessageSeq
     /\ acker' = Loop("check")
     /\ acked' = IF ok THEN acked \cup {m.n} ELSE acked
     /\ UNCHANGED <<AckMode, wire, reader, message, writer,
                    done, crashed, handled, direct, dropped>>
RigorFirstAck(ok) ==
  LET m == Head(readMessages)
      numbered == [m EXCEPT !.seq = 1, !.time = "fresh"]
  IN /\ Working("RigorAck")
     /\ m.seq = 0
     /\ readMessages' = <<numbered>> \o Tail(readMessages)
     /\ readMessageSeq' = IF readMessageSeq[m.id].own
                          THEN [readMessageSeq EXCEPT ![m.id].seq = 1]
                          ELSE readMessageSeq
     /\ acker' = Loop(IF ok THEN "check" ELSE "exit")
     /\ acked' = IF ok THEN acked \cup {m.n} ELSE acked
     /\ UNCHANGED <<AckMode, wire, reader, message, writer,
                    done, crashed, handled, direct, dropped>>

(* What the later visits look at.                                           *)
(* Mutants: the client's echo of the server's number is enough; the test    *)
(* for an AckTime never set is inverted.                                    *)
ConfirmedByEcho(m) == readMessageSeq[m.id].seq >= m.seq
TimedOutUnset(m) == /\ m.time = "zero"
                    /\ readMessageSeq[m.id].own => m.time = "late"
Confirmed(m) == readMessageSeq[m.id].seq > m.seq
(* time.Since of the entry's AckTime against actTimeout: the AckTime of an  *)
(* entry that a client frame replaced is the zero time, long past.          *)
TimedOut(m) == /\ m.time # "zero"
               /\ readMessageSeq[m.id].own => m.time = "late"

(* RigorAck: the client has answered with a higher number.                  *)
RigorDeliver ==
  LET m == Head(readMessages)
  IN /\ Working("RigorAck")
     /\ m.seq # 0 /\ Confirmed(m)
     /\ readMessages' = Tail(readMessages)
     /\ acker' = At("deliver", m)
     /\ UNCHANGED <<AckMode, wire, reader, readMessageSeq, message, writer,
                    done, crashed, handled, direct, dropped, acked>>

(* RigorAck: no answer in time; the message is given up.                    *)
RigorTimeout ==
  LET m == Head(readMessages)
  IN /\ Working("RigorAck")
     /\ m.seq # 0 /\ ~Confirmed(m) /\ TimedOut(m)
     /\ readMessages' = Tail(readMessages)
     /\ readMessageSeq' = Delete(readMessageSeq, m.id)
     /\ acker' = Loop("check")
     /\ dropped' = dropped \cup {m.n}
     /\ UNCHANGED <<AckMode, wire, reader, message, writer,
                    done, crashed, handled, direct, acked>>

(* RigorAck: not answered yet; release the lock before writing again.       *)
RigorWait ==
  LET m == Head(readMessages)
  IN /\ Working("RigorAck")
     /\ m.seq # 0 /\ ~Confirmed(m) /\ ~TimedOut(m)
     /\ acker' = At("resend", m)
     /\ UNCHANGED <<AckMode, wire, reader, readMessages, readMessageSeq, message, writer,
                    done, crashed, handled, direct, dropped, acked>>

(* The repeated ack, outside the lock.  When this write fails, send unlocks *)
(* a mutex its goroutine does not hold, which ends the process.             *)
RigorResend(ok) ==
  /\ ~crashed
  /\ acker.pc = "resend"
  /\ acker' = Loop("check")
  /\ acked' = IF ok THEN acked \cup {acker.msg.n} ELSE acked
  /\ crashed' = ~ok
  /\ UNCHANGED <<AckMode, wire, reader, readMessages, readMessageSeq, message, writer,
                 done, handled, direct, dropped>>

(* readAck passes the message on, outside the lock.                         *)
AckDeliver ==
  /\ ~crashed
  /\ acker.pc = "deliver"
  /\ SendOn(acker.msg)
  /\ acker' = Loop("check")
  /\ UNCHANGED <<AckMode, wire, reader, readMessages, readMessageSeq, writer,
                 done, crashed, handled, direct, dropped, acked>>

(* actTimeout passes since the head was stamped.                            *)
AckTimePasses ==
  /\ ~crashed
  /\ readMessages # <<>> /\ Head(readMessages).time = "fresh"
  /\ readMessages' = <<[Head(readMessages) EXCEPT !.time = "late"]>> \o Tail(readMessages)
  /\ UNCHANGED <<AckMode, wire, reader, readMessageSeq, message, acker, writer,
                 done, crashed, handled, direct, dropped, acked>>

-----------------------------------------------------------------------------
(* handlerWrite: a select over done and conn.message, either when both are  *)
(* ready.                                                                   *)
WriterDone ==
  /\ ~crashed
  /\ writer.pc = "select" /\ done
  /\ writer' = Loop("exit")
  /\ UNCHANGED <<AckMode, wire, reader, readMessages, readMessageSeq, message, acker,
                 done, crashed, handled, direct, dropped, acked>>

WriterReceive ==
  /\ ~crashed
  /\ writer.pc = "select" /\ message # <<>>
  /\ writer' = At("handle", Head(message))
  /\ message' = Tail(message)
  /\ UNCHANGED <<AckMode, wire, reader, readMessages, readMessageSeq, acker,
                 done, crashed, handled, direct, dropped, acked>>

(* Run the handler; an ack frame has none.                                  *)
RunHandler(history, m) == IF m.kind = "ack" THEN history ELSE Append(history, m.n)
WriterHandle ==
  /\ ~crashed
  /\ writer.pc = "handle"
  /\ IF isAck(writer.msg)
     THEN /\ handled' = RunHandler(handled, writer.msg)
          /\ writer' = At("forget", writer.msg)
          /\ UNCHANGED direct
     ELSE /\ direct' = RunHandler(direct, writer.msg)
          /\ writer' = Loop("select")
          /\ UNCHANGED handled
  /\ UNCHANGED <<AckMode, wire, reader, readMessages, readMessageSeq, message, acker,
                 done, crashed, dropped, acked>>

(* delete(conn.readMessageSeq, message.Id) under the lock.                  *)
WriterForget ==
  /\ ~crashed
  /\ writer.pc = "forget"
  /\ readMessageSeq' = Delete(readMessageSeq, writer.msg.id)
  /\ writer' = Loop("select")
  /\ UNCHANGED <<AckMode, wire, reader, readMessages, message, acker,
                 done, crashed, handled, direct, dropped, acked>>

-----------------------------------------------------------------------------
Reader == (\E f \in Frame : ReadFrame(f)) \/ ReaderSend \/ ReadFail

Acker ==
  \/ AckCheck \/ AckIdle \/ AckDeliver
  \/ RigorDeliver \/ RigorTimeout \/ RigorWait
  \/ \E ok \in BOOLEAN : OnlyAckSend(ok) \/ RigorFirstAck(ok) \/ RigorResend(ok)

Writer == WriterDone \/ WriterReceive \/ WriterHandle \/ WriterForget

Next == Reader \/ Acker \/ Writer \/ CloseConn \/ AckTimePasses

Spec == Init /\ [][Next]_vars

(* The goroutines run and time passes; nothing obliges the client to send,  *)
(* or anyone to close.                                                      *)
Fairness == /\ WF_vars(ReaderSend)
            /\ WF_vars(Acker)
            /\ WF_vars(Writer)
            /\ WF_vars(AckTimePasses)

FairSpec == Spec /\ Fairness

-----------------------------------------------------------------------------
(* Properties *)

(* TypeOK: the variables keep their shape; in particular the channel never  *)
(* holds more than its buffer of one.                                       *)
TypeOK ==
  /\ AckMode \in AckModes
  /\ wire \in Seq(Frame)
  /\ reader \in [pc: {"read", "send", "exit"}, msg: Message \cup {NoMsg}]
  /\ reader.pc = "send" => reader.msg \in Message
  /\ readMessages \in Seq(Message)
  /\ DOMAIN readMessageSeq \subseteq Ids
  /\ readMessageSeq \in [DOMAIN readMessageSeq -> SeqEntry]
  /\ message \in Seq(Message) /\ Len(message) <= ChanCap
  /\ acker \in [pc: {"check", "work", "deliver", "resend", "exit"},
                msg: Message \cup {NoMsg}]
  /\ acker.pc \in {"deliver", "resend"} => acker.msg \in Message
  /\ writer \in [pc: {"select", "handle", "forget", "exit"},
                 msg: Message \cup {NoMsg}]
  /\ writer.pc \in {"handle", "forget"} => writer.msg \in Message
  /\ done \in BOOLEAN /\ crashed \in BOOLEAN
  /\ handled \in Seq(Nat) /\ direct \in Seq(Nat)
  /\ dropped \subseteq Nat /\ acked \subseteq Nat

(* The places a message passes after it has left the queue: in readAck's    *)
(* hand, in the channel, in handlerWrite's hand.                            *)
Places == {"acker", "chan", "writer"}
Holds(p) == \/ p = "acker" /\ acker.pc = "deliver"
            \/ p = "chan" /\ message # <<>> /\ isAck(message[1])
            \/ p = "writer" /\ writer.pc \in {"handle", "forget"} /\ isAck(writer.msg)
MsgAt(p) == IF p = "acker" THEN acker.msg
            ELSE IF p = "chan" THEN message[1] ELSE writer.msg

(* AckRecorded: readAck reads readMessageSeq of the message at the head     *)
(* (server.go:291-292), which is there only because nothing else deletes    *)
(* the id while the message is queued: not handlerWrite after an earlier    *)
(* message with that id, not the timeout.  A missing id would be a nil      *)
(* dereference.                                                             *)
AckRecorded ==
  \A i \in DOMAIN readMessages : readMessages[i].id \in DOMAIN readMessageSeq

(* OneCopyPerId: however often a client repeats an id, and whatever the     *)
(* goroutines have done with the earlier frame, at most one message with    *)
(* that id is between appendMsgMq and the end of its handling.              *)
OneCopyPerId ==
  /\ \A i, j \in DOMAIN readMessages :
       readMessages[i].id = readMessages[j].id => i = j
  /\ \A p \in Places : Holds(p) =>
       /\ \A i \in DOMAIN readMessages : readMessages[i].id # MsgAt(p).id
       /\ \A q \in Places : Holds(q) /\ MsgAt(q).id = MsgAt(p).id => q = p

(* ConfirmedBeforeHandled: in RigorAck mode a handler runs only after the   *)
(* client has sent, with the same id and after the message itself, a number *)
(* higher than the one the server acknowledged with (im-chat-dataflow 6.1). *)
ConfirmedBeforeHandled ==
  AckMode = "RigorAck" =>
    \A i \in DOMAIN handled :
      LET n == handled[i]
          own == IF wire[n].seq = 0 THEN 1 ELSE wire[n].seq
      IN \E k \in DOMAIN wire :
             k > n /\ wire[k].id = wire[n].id /\ wire[k].seq > own

(* AckedBeforeHandled: a handler never runs before an ack frame for its     *)
(* message went out (unless the client numbered a data frame itself, which  *)
(* RigorAck takes for an ack already sent).                                 *)
AckedBeforeHandled ==
  \A i \in DOMAIN handled :
    LET n == handled[i]
    IN AckMode = "OnlyAck" \/ wire[n].seq = 0 => n \in acked

(* The numbers of the messages accepted by appendMsgMq whose handler has    *)
(* not run, oldest first.                                                   *)
Unhandled ==
  LET At1(p) == IF Holds(p) THEN <<MsgAt(p).n>> ELSE <<>>
      atWriter == IF writer.pc = "handle" THEN At1("writer") ELSE <<>>
  IN atWriter \o At1("chan") \o At1("acker")
       \o [i \in DOMAIN readMessages |-> readMessages[i].n]

(* The same for the messages that bypass the queue: those the reader sends  *)
(* on the channel itself.  An ack frame has no handler.                     *)
Direct ==
  LET IsDirect(m) == ~isAck(m) /\ m.kind # "ack"
      At1(pc, m) == IF pc /\ IsDirect(m) THEN <<m.n>> ELSE <<>>
  IN At1(writer.pc = "handle", writer.msg)
       \o (IF message = <<>> THEN <<>> ELSE At1(TRUE, message[1]))
       \o At1(reader.pc = "send", reader.msg)

Waiting(n) == \/ \E i \in DOMAIN Unhandled : Unhandled[i] = n
              \/ \E i \in DOMAIN Direct : Direct[i] = n
Settled(n) == \/ n \in dropped
              \/ \E i \in DOMAIN handled : handled[i] = n
              \/ \E i \in DOMAIN direct : direct[i] = n

(* InboxSpec: the three goroutines, the queue, the map and the channel      *)
(* implement the in-order, at-most-once inbox; nothing accepted vanishes    *)
(* between two of them.                                                     *)
Inbox == INSTANCE AckInbox WITH
           pending <- Unhandled,
           taken   <- handled,
           givenUp <- dropped
InboxSpec == Inbox!Spec

(* DirectSpec: so do the reader, the channel and handlerWrite for the       *)
(* messages that bypass the queue, which is all of them in the NoAck mode   *)
(* the deployed server runs in; and none of these is ever given up.         *)
DirectInbox == INSTANCE AckInbox WITH
                 pending <- Direct,
                 taken   <- direct,
                 givenUp <- {}
DirectSpec == DirectInbox!Spec

(* EventuallySettled: an accepted message is handled, or given up after     *)
(* actTimeout: the channel of one and the lock never leave reader, readAck  *)
(* and handlerWrite waiting on each other.  It is not when the connection   *)
(* is closed, when readAck has left after a failed write of an ack          *)
(* (server.go:259, 278), and, in RigorAck mode, when the queue stands still *)
(* behind a message the client itself numbered: readAck takes it for        *)
(* acknowledged, so its AckTime stays unset and it never times out.         *)
NumberedByClient == /\ AckMode = "RigorAck" /\ readMessages # <<>>
                    /\ wire[Head(readMessages).n].seq # 0
EventuallySettled ==
  \A n \in 1..MaxFrames :
    Waiting(n) ~> \/ Settled(n) \/ done \/ crashed \/ NumberedByClient
                  \/ AckMode # "NoAck" /\ acker.pc = "exit"
=============================================================================
