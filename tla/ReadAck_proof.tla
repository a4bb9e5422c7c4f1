----------------------------- MODULE ReadAck_proof -----------------------------
(***************************************************************************)
(* Proofs about ReadAck, for every set of ids, every acknowledgement mode  *)
(* and every number of frames.                                             *)
(***************************************************************************)
EXTENDS ReadAck, SequenceTheorems, TLAPS

(* No step changes the mode the server was made with.                       *)
LEMMA ModeKept == [Next]_vars => AckMode' = AckMode
BY DEF Next, Reader, Acker, Writer, ReadFrame, ReaderSend, ReadFail, CloseConn,
       AckCheck, AckIdle, OnlyAckSend, RigorFirstAck, RigorDeliver, RigorTimeout,
       RigorWait, RigorResend, AckDeliver, AckTimePasses, WriterDone,
       WriterReceive, WriterHandle, WriterForget, vars

USE DEF isAck

(* Replacing the head of a queue: what RigorFirstAck and the passing of     *)
(* time do to readMessages.                                                 *)
LEMMA ReplaceHead ==
  ASSUME NEW S, NEW q \in Seq(S), q # <<>>, NEW h \in S
  PROVE  /\ <<h>> \o Tail(q) \in Seq(S)
         /\ Len(<<h>> \o Tail(q)) = Len(q)
         /\ \A i \in 1..Len(q) : (<<h>> \o Tail(q))[i] = IF i = 1 THEN h ELSE q[i]
<1>1. Tail(q) \in Seq(S) /\ Len(Tail(q)) = Len(q) - 1
  BY HeadTailProperties
<1>2. <<h>> \in Seq(S) /\ Len(<<h>>) = 1
  OBVIOUS
<1>3. QED
  BY <1>1, <1>2, HeadTailProperties, ConcatProperties

-----------------------------------------------------------------------------
(* Type correctness *)

(* The two ways readMessageSeq changes keep it a map from ids to entries.    *)
LEMMA PutType ==
  ASSUME NEW f, f \in [DOMAIN f -> SeqEntry], DOMAIN f \subseteq Ids,
         NEW k \in Ids, NEW v \in SeqEntry
  PROVE  /\ DOMAIN Put(f, k, v) \subseteq Ids
         /\ Put(f, k, v) \in [DOMAIN Put(f, k, v) -> SeqEntry]
BY DEF Put

LEMMA DeleteType ==
  ASSUME NEW f, f \in [DOMAIN f -> SeqEntry], DOMAIN f \subseteq Ids, NEW k
  PROVE  /\ DOMAIN Delete(f, k) \subseteq Ids
         /\ Delete(f, k) \in [DOMAIN Delete(f, k) -> SeqEntry]
BY DEF Delete

LEMMA InitType == Init => TypeOK
<1> SUFFICES ASSUME Init PROVE TypeOK
  OBVIOUS
<1>1. /\ DOMAIN readMessageSeq = {}
      /\ readMessageSeq \in [DOMAIN readMessageSeq -> SeqEntry]
  BY DEF Init
<1>2. /\ reader = [pc |-> "read", msg |-> NoMsg]
      /\ writer = [pc |-> "select", msg |-> NoMsg]
      /\ acker \in [pc: {"check", "exit"}, msg: {NoMsg}]
  BY DEF Init, Loop, At
<1>3. /\ wire \in Seq(Frame) /\ readMessages \in Seq(Message)
      /\ message \in Seq(Message) /\ Len(message) <= ChanCap
      /\ handled \in Seq(Nat) /\ direct \in Seq(Nat)
  BY DEF Init, ChanCap
<1>4. done \in BOOLEAN /\ crashed \in BOOLEAN /\ dropped \subseteq Nat /\ acked \subseteq Nat
  BY DEF Init
<1>5. QED
  BY <1>1, <1>2, <1>3, <1>4 DEF TypeOK, Init

LEMMA HeadIsMessage ==
  ASSUME TypeOK, readMessages # <<>>
  PROVE  /\ Head(readMessages) \in Message
         /\ Tail(readMessages) \in Seq(Message)
BY DEF TypeOK

LEMMA StepType == TypeOK /\ [Next]_vars => TypeOK'
<1> SUFFICES ASSUME TypeOK, [Next]_vars PROVE TypeOK'
  OBVIOUS
<1>0. AckMode' = AckMode
  BY ModeKept
<1> USE <1>0
<1>1. ASSUME NEW f \in Frame, ReadFrame(f) PROVE TypeOK'
  <2> DEFINE m == [id |-> f.id, kind |-> f.kind, seq |-> f.seq,
                   time |-> "zero", n |-> Len(wire) + 1]
  <2>1. m \in Message
    BY SeqAssumption DEF Frame, Message, TypeOK
  <2>2. wire' \in Seq(Frame)
    BY <1>1 DEF ReadFrame, TypeOK
  <2>3. CASE isAck(m)
    <3>1. appendMsgMq(m) /\ UNCHANGED reader
      BY <1>1, <2>3 DEF ReadFrame
    <3>2. /\ readMessages' \in Seq(Message)
          /\ DOMAIN readMessageSeq' \subseteq Ids
          /\ readMessageSeq' \in [DOMAIN readMessageSeq' -> SeqEntry]
      <4>1. m.id \in Ids /\ m.seq \in Nat
        BY <2>1 DEF Message
      <4>2. /\ [own |-> FALSE, seq |-> m.seq] \in SeqEntry
            /\ [own |-> TRUE, seq |-> m.seq] \in SeqEntry
        BY <4>1 DEF SeqEntry
      <4> HIDE DEF m
      <4>3. CASE RecordRepeat(m)
        BY <4>1, <4>2, <4>3, PutType DEF RecordRepeat, TypeOK
      <4>4. CASE Enqueue(m)
        <5>1. CASE m.kind = "ack"
          BY <4>4, <5>1 DEF Enqueue, TypeOK
        <5>2. CASE m.kind # "ack"
          <6>1. /\ readMessages' = Append(readMessages, m)
                /\ readMessageSeq' = Put(readMessageSeq, m.id, [own |-> TRUE, seq |-> m.seq])
            BY <4>4, <5>2 DEF Enqueue
          <6>2. readMessages' \in Seq(Message)
            BY <2>1, <6>1 DEF TypeOK
          <6>3. QED
            BY <4>1, <4>2, <6>1, <6>2, PutType DEF TypeOK
        <5>3. QED
          BY <5>1, <5>2
      <4>5. QED
        BY <3>1, <4>3, <4>4 DEF appendMsgMq
    <3>3. QED
      BY <1>1, <2>2, <3>1, <3>2 DEF ReadFrame, TypeOK
  <2>4. CASE ~isAck(m)
    <3>1. reader' = At("send", m) /\ UNCHANGED <<readMessages, readMessageSeq>>
      BY <1>1, <2>4 DEF ReadFrame
    <3>2. QED
      BY <1>1, <2>1, <2>2, <3>1 DEF ReadFrame, TypeOK, At
  <2>5. QED
    BY <2>3, <2>4
<1>2. CASE ReaderSend
  BY <1>2 DEF ReaderSend, SendOn, TypeOK, Loop, At, NoMsg, ChanCap
<1>3. CASE ReadFail
  BY <1>3 DEF ReadFail, TypeOK, Loop, At, NoMsg
<1>4. CASE CloseConn
  BY <1>4 DEF CloseConn, connVars, TypeOK
<1>5. CASE AckCheck
  BY <1>5 DEF AckCheck, TypeOK, Loop, At, NoMsg
<1>6. CASE AckIdle
  BY <1>6 DEF AckIdle, TypeOK, Loop, At, NoMsg
<1>7. ASSUME NEW ok \in BOOLEAN, OnlyAckSend(ok) PROVE TypeOK'
  <2> DEFINE m == Head(readMessages)
  <2>1. m \in Message /\ Tail(readMessages) \in Seq(Message) /\ m.n \in Nat
    BY <1>7, HeadIsMessage DEF OnlyAckSend, Working, Message
  <2>2. CASE ok
    <3>1. /\ readMessages' = Tail(readMessages)
          /\ acker' = [pc |-> "deliver", msg |-> m]
          /\ acked' = acked \cup {m.n}
          /\ UNCHANGED <<wire, reader, readMessageSeq, message, writer,
                         done, crashed, handled, direct, dropped>>
      BY <1>7, <2>2 DEF OnlyAckSend, At
    <3> HIDE DEF m
    <3>2. QED
      BY <2>1, <3>1 DEF TypeOK
  <2>3. CASE ~ok
    BY <1>7, <2>3 DEF OnlyAckSend, TypeOK, Loop, At
  <2>4. QED
    BY <2>2, <2>3
<1>8. ASSUME NEW ok \in BOOLEAN, RigorFirstAck(ok) PROVE TypeOK'
  <2> DEFINE m == Head(readMessages)
             numbered == [m EXCEPT !.seq = 1, !.time = "fresh"]
  <2>1. readMessages # <<>> /\ m \in Message /\ numbered \in Message
    BY <1>8, HeadIsMessage DEF RigorFirstAck, Working, Message
  <2>2. readMessages' \in Seq(Message)
    BY <1>8, <2>1, ReplaceHead DEF RigorFirstAck, TypeOK
  <2>3. /\ DOMAIN readMessageSeq' = DOMAIN readMessageSeq
        /\ readMessageSeq' \in [DOMAIN readMessageSeq' -> SeqEntry]
    BY <1>8 DEF RigorFirstAck, TypeOK, SeqEntry
  <2>4. acker' \in [pc: {"check", "exit"}, msg: {NoMsg}]
    BY <1>8 DEF RigorFirstAck, Loop, At
  <2>5. acked' \subseteq Nat
    BY <1>8, <2>1 DEF RigorFirstAck, TypeOK, Message
  <2>6. QED
    BY <1>8, <2>2, <2>3, <2>4, <2>5 DEF RigorFirstAck, TypeOK
<1>9. CASE RigorDeliver
  BY <1>9, HeadIsMessage DEF RigorDeliver, Working, TypeOK, At
<1>10. CASE RigorTimeout
  <2> DEFINE m == Head(readMessages)
  <2>1. Tail(readMessages) \in Seq(Message) /\ m.n \in Nat
    BY <1>10, HeadIsMessage DEF RigorTimeout, Working, Message
  <2>2. /\ DOMAIN readMessageSeq' \subseteq Ids
        /\ readMessageSeq' \in [DOMAIN readMessageSeq' -> SeqEntry]
    BY <1>10, DeleteType DEF RigorTimeout, TypeOK
  <2>3. QED
    BY <1>10, <2>1, <2>2 DEF RigorTimeout, TypeOK, Loop, At
<1>11. CASE RigorWait
  BY <1>11, HeadIsMessage DEF RigorWait, Working, TypeOK, At
<1>12. ASSUME NEW ok \in BOOLEAN, RigorResend(ok) PROVE TypeOK'
  BY <1>12 DEF RigorResend, TypeOK, Loop, At, NoMsg, Message
<1>13. CASE AckDeliver
  BY <1>13 DEF AckDeliver, SendOn, TypeOK, Loop, At, NoMsg, ChanCap
<1>14. CASE AckTimePasses
  <2> DEFINE late == [Head(readMessages) EXCEPT !.time = "late"]
  <2>1. late \in Message
    BY <1>14, HeadIsMessage DEF AckTimePasses, Message
  <2>2. readMessages' \in Seq(Message)
    BY <1>14, <2>1, ReplaceHead DEF AckTimePasses, TypeOK
  <2>3. QED
    BY <1>14, <2>2 DEF AckTimePasses, TypeOK
<1>15. CASE WriterDone
  BY <1>15 DEF WriterDone, TypeOK, Loop, At, NoMsg
<1>16. CASE WriterReceive
  BY <1>16 DEF WriterReceive, TypeOK, At, ChanCap
<1>17. CASE WriterHandle
  <2>1. writer.msg \in Message
    BY <1>17 DEF WriterHandle, TypeOK
  <2>2. writer.msg.n \in Nat
    BY <2>1 DEF Message
  <2>3. handled' \in Seq(Nat) /\ direct' \in Seq(Nat)
    <3>1. \A h \in Seq(Nat) : RunHandler(h, writer.msg) \in Seq(Nat)
      BY <2>2 DEF RunHandler
    <3>2. QED
      BY <1>17, <3>1 DEF WriterHandle, TypeOK
  <2>4. /\ writer' \in [pc: {"select", "handle", "forget", "exit"}, msg: Message \cup {NoMsg}]
        /\ writer'.pc \in {"handle", "forget"} => writer'.msg \in Message
    BY <1>17, <2>1 DEF WriterHandle, Loop, At
  <2> QED
    BY <1>17, <2>3, <2>4 DEF WriterHandle, TypeOK
<1>18. CASE WriterForget
  BY <1>18 DEF WriterForget, TypeOK, Loop, At, NoMsg, Delete
<1>19. CASE UNCHANGED vars
  BY <1>19 DEF vars, connVars, TypeOK
<1>20. QED
  BY <1>1, <1>2, <1>3, <1>4, <1>5, <1>6, <1>7, <1>8, <1>9, <1>10, <1>11, <1>12,
     <1>13, <1>14, <1>15, <1>16, <1>17, <1>18, <1>19
  DEF Next, Reader, Acker, Writer

(* The variables keep their shape, whatever the goroutines interleave; the  *)
(* channel of one message is never over-full.                               *)
THEOREM TypeCorrect == Spec => []TypeOK
BY InitType, StepType, PTL DEF Spec

-----------------------------------------------------------------------------
(* One copy per id *)

(* A message that has left the queue but not the connection is recorded.    *)
InFlightRecorded ==
  \A p \in Places : Holds(p) => MsgAt(p).id \in DOMAIN readMessageSeq

(* Which messages take which way.                                           *)
Routed == /\ reader.pc = "send" => ~isAck(reader.msg)
          /\ writer.pc = "forget" => isAck(writer.msg)

(* The inductive invariant: OneCopyPerId alone is not, because appendMsgMq  *)
(* looks at the map and not at the places a message may be.                 *)
CopyInv == OneCopyPerId /\ AckRecorded /\ InFlightRecorded /\ Routed

(* The queue keeps its ids, the places keep their messages, and no id is    *)
(* forgotten: such a step preserves the invariant.                          *)
LEMMA CopyFrame ==
  ASSUME CopyInv,
         DOMAIN readMessages' = DOMAIN readMessages,
         \A i \in DOMAIN readMessages : readMessages'[i].id = readMessages[i].id,
         \A p \in Places : Holds(p)' => Holds(p) /\ MsgAt(p)'.id = MsgAt(p).id,
         DOMAIN readMessageSeq \subseteq DOMAIN readMessageSeq',
         Routed'
  PROVE  CopyInv'
<1>1. OneCopyPerId'
  BY DEF CopyInv, OneCopyPerId
<1>2. AckRecorded'
  BY DEF CopyInv, AckRecorded
<1>3. InFlightRecorded'
  BY DEF CopyInv, InFlightRecorded
<1>4. QED
  BY <1>1, <1>2, <1>3 DEF CopyInv

(* The head leaves the queue for readAck's hand.                            *)
LEMMA CopyPop ==
  ASSUME TypeOK, CopyInv, readMessages # <<>>,
         acker.pc # "deliver",
         readMessages' = Tail(readMessages),
         acker' = At("deliver", Head(readMessages)),
         UNCHANGED <<AckMode, reader, readMessageSeq, message, writer>>
  PROVE  CopyInv'
<1>1. /\ Len(readMessages) \in Nat \ {0}
      /\ DOMAIN readMessages = 1..Len(readMessages)
      /\ DOMAIN readMessages' = 1..(Len(readMessages) - 1)
      /\ \A i \in DOMAIN readMessages' : readMessages'[i] = readMessages[i + 1]
      /\ Head(readMessages) = readMessages[1]
  BY DEF TypeOK
<1>2. \A i \in DOMAIN readMessages' : i + 1 \in DOMAIN readMessages /\ i + 1 # 1
  BY <1>1
<1>3. /\ ~Holds("acker")
      /\ Holds("acker")' /\ MsgAt("acker")' = readMessages[1]
      /\ \A p \in {"chan", "writer"} : Holds(p)' = Holds(p) /\ MsgAt(p)' = MsgAt(p)
  BY <1>1 DEF Holds, MsgAt, At
<1>4. OneCopyPerId'
  BY <1>1, <1>2, <1>3 DEF CopyInv, OneCopyPerId, Places
<1>5. AckRecorded' /\ InFlightRecorded'
  BY <1>1, <1>2, <1>3 DEF CopyInv, AckRecorded, InFlightRecorded, Places
<1>6. Routed'
  BY DEF CopyInv, Routed
<1>7. QED
  BY <1>4, <1>5, <1>6 DEF CopyInv

LEMMA InitCopy == Init => CopyInv
BY DEF Init, CopyInv, OneCopyPerId, AckRecorded, InFlightRecorded, Routed,
       Holds, Places, Loop, At

LEMMA StepCopy == TypeOK /\ TypeOK' /\ CopyInv /\ [Next]_vars => CopyInv'
<1> SUFFICES ASSUME TypeOK, TypeOK', CopyInv, [Next]_vars PROVE CopyInv'
  OBVIOUS
<1>0. AckMode' = AckMode
  BY ModeKept
<1> USE <1>0
<1> USE DEF Places
<1>1. ASSUME NEW f \in Frame, ReadFrame(f) PROVE CopyInv'
  <2> DEFINE m == [id |-> f.id, kind |-> f.kind, seq |-> f.seq,
                   time |-> "zero", n |-> Len(wire) + 1]
  <2>1. UNCHANGED <<message, acker, writer>>
    BY <1>1 DEF ReadFrame
  <2>2. \A p \in Places : Holds(p)' = Holds(p) /\ MsgAt(p)' = MsgAt(p)
    BY <2>1 DEF Holds, MsgAt
  <2>3. CASE ~isAck(m)
    <3>1. reader' = At("send", m) /\ UNCHANGED <<readMessages, readMessageSeq>>
      BY <1>1, <2>3 DEF ReadFrame
    <3>2. Routed'
      BY <2>1, <2>3, <3>1 DEF CopyInv, Routed, At
    <3>3. QED
      BY <2>2, <3>1, <3>2, CopyFrame
  <2>4. CASE isAck(m)
    <3>1. appendMsgMq(m) /\ UNCHANGED reader
      BY <1>1, <2>4 DEF ReadFrame
    <3>2. Routed'
      BY <2>1, <3>1 DEF CopyInv, Routed
    <3> HIDE DEF m
    <3>3. CASE RecordRepeat(m)
      BY <2>2, <3>2, <3>3, CopyFrame DEF RecordRepeat, Put
    <3>4. CASE Enqueue(m)
      <4>1. CASE m.kind = "ack"
        BY <2>2, <3>2, <3>4, <4>1, CopyFrame DEF Enqueue
      <4>2. CASE m.kind # "ack"
        <5>1. /\ readMessages' = Append(readMessages, m)
              /\ DOMAIN readMessageSeq' = DOMAIN readMessageSeq \cup {m.id}
              /\ m.id \notin DOMAIN readMessageSeq
          BY <3>4, <4>2 DEF Enqueue, Put
        <5>2. /\ Len(readMessages) \in Nat
              /\ DOMAIN readMessages = 1..Len(readMessages)
              /\ DOMAIN readMessages' = 1..(Len(readMessages) + 1)
              /\ \A i \in DOMAIN readMessages : readMessages'[i] = readMessages[i]
              /\ readMessages'[Len(readMessages) + 1] = m
          BY <5>1 DEF TypeOK
        <5>3. OneCopyPerId'
          BY <2>2, <5>1, <5>2 DEF CopyInv, OneCopyPerId, AckRecorded, InFlightRecorded
        <5>4. AckRecorded' /\ InFlightRecorded'
          BY <2>2, <5>1, <5>2 DEF CopyInv, AckRecorded, InFlightRecorded
        <5>5. QED
          BY <3>2, <5>3, <5>4 DEF CopyInv
      <4>3. QED
        BY <4>1, <4>2
    <3>5. QED
      BY <3>1, <3>3, <3>4 DEF appendMsgMq
  <2>5. QED
    BY <2>3, <2>4
<1>2. CASE ReaderSend
  <2>1. /\ message = <<>> /\ message'[1] = reader.msg
        /\ UNCHANGED <<readMessages, readMessageSeq, acker, writer>>
    BY <1>2 DEF ReaderSend, SendOn, TypeOK, ChanCap
  <2>2. ~isAck(reader.msg)
    BY <1>2 DEF ReaderSend, SendOn, CopyInv, Routed
  <2>3. \A p \in Places : Holds(p)' => Holds(p) /\ MsgAt(p)' = MsgAt(p)
    BY <2>1, <2>2 DEF Holds, MsgAt, isAck
  <2>4. Routed'
    BY <1>2, <2>1 DEF ReaderSend, SendOn, CopyInv, Routed, Loop, At
  <2>5. QED
    BY <2>1, <2>3, <2>4, CopyFrame
<1>3. CASE ReadFail
  BY <1>3, CopyFrame DEF ReadFail, Holds, MsgAt, CopyInv, Routed, Loop, At
<1>4. CASE CloseConn
  BY <1>4, CopyFrame DEF CloseConn, connVars, Holds, MsgAt, CopyInv, Routed
<1>5. CASE AckCheck
  BY <1>5, CopyFrame DEF AckCheck, Holds, MsgAt, CopyInv, Routed, Loop, At
<1>6. CASE AckIdle
  BY <1>6, CopyFrame DEF AckIdle, Holds, MsgAt, CopyInv, Routed, Loop, At
<1>7. ASSUME NEW ok \in BOOLEAN, OnlyAckSend(ok) PROVE CopyInv'
  <2>1. CASE ok
    BY <1>7, <2>1, CopyPop DEF OnlyAckSend, Working
  <2>2. CASE ~ok
    BY <1>7, <2>2, CopyFrame DEF OnlyAckSend, Holds, MsgAt, CopyInv, Routed, Loop, At
  <2>3. QED
    BY <2>1, <2>2
<1>8. ASSUME NEW ok \in BOOLEAN, RigorFirstAck(ok) PROVE CopyInv'
  <2> DEFINE numbered == [Head(readMessages) EXCEPT !.seq = 1, !.time = "fresh"]
  <2>1. readMessages # <<>> /\ readMessages' = <<numbered>> \o Tail(readMessages)
    BY <1>8 DEF RigorFirstAck, Working
  <2>2. /\ numbered \in Message /\ numbered.id = readMessages[1].id
        /\ readMessages \in Seq(Message)
    <3>1. Head(readMessages) \in Message /\ readMessages \in Seq(Message)
      BY <2>1, HeadIsMessage DEF TypeOK
    <3>2. Head(readMessages) = readMessages[1]
      BY <2>1, <3>1
    <3>3. QED
      BY <3>1, <3>2 DEF Message
  <2>3. /\ DOMAIN readMessages' = DOMAIN readMessages
        /\ \A i \in DOMAIN readMessages : readMessages'[i].id = readMessages[i].id
    <3> HIDE DEF numbered
    <3>1. QED
      BY <2>1, <2>2, ReplaceHead
  <2>4. DOMAIN readMessageSeq' = DOMAIN readMessageSeq
    BY <1>8 DEF RigorFirstAck
  <2>5. /\ acker'.pc # "deliver" /\ UNCHANGED <<reader, message, writer>>
    BY <1>8 DEF RigorFirstAck, Loop, At
  <2>6. QED
    BY <2>3, <2>4, <2>5, CopyFrame DEF Holds, MsgAt, CopyInv, Routed
<1>9. CASE RigorDeliver
  BY <1>9, CopyPop DEF RigorDeliver, Working
<1>10. CASE RigorTimeout
  <2>1. /\ readMessages # <<>>
        /\ readMessages' = Tail(readMessages)
        /\ DOMAIN readMessageSeq' = DOMAIN readMessageSeq \ {Head(readMessages).id}
        /\ acker.pc = "work" /\ acker'.pc = "check"
        /\ UNCHANGED <<reader, message, writer>>
    BY <1>10 DEF RigorTimeout, Working, Delete, Loop, At
  <2>2. /\ Len(readMessages) \in Nat \ {0}
        /\ DOMAIN readMessages = 1..Len(readMessages)
        /\ DOMAIN readMessages' = 1..(Len(readMessages) - 1)
        /\ \A i \in DOMAIN readMessages' : readMessages'[i] = readMessages[i + 1]
        /\ Head(readMessages) = readMessages[1]
    BY <2>1 DEF TypeOK
  <2>3. \A i \in DOMAIN readMessages' : i + 1 \in DOMAIN readMessages /\ i + 1 # 1
    BY <2>2
  <2>4. \A p \in Places : Holds(p)' => Holds(p) /\ MsgAt(p)' = MsgAt(p)
    BY <2>1 DEF Holds, MsgAt
  <2>5. OneCopyPerId'
    BY <2>2, <2>3, <2>4 DEF CopyInv, OneCopyPerId
  <2>6. AckRecorded'
    BY <2>1, <2>2, <2>3 DEF CopyInv, OneCopyPerId, AckRecorded
  <2>7. InFlightRecorded'
    BY <2>1, <2>2, <2>4 DEF CopyInv, OneCopyPerId, InFlightRecorded
  <2>8. Routed'
    BY <2>1 DEF CopyInv, Routed
  <2>9. QED
    BY <2>5, <2>6, <2>7, <2>8 DEF CopyInv
<1>11. CASE RigorWait
  BY <1>11, CopyFrame DEF RigorWait, Holds, MsgAt, CopyInv, Routed, At
<1>12. ASSUME NEW ok \in BOOLEAN, RigorResend(ok) PROVE CopyInv'
  BY <1>12, CopyFrame DEF RigorResend, Holds, MsgAt, CopyInv, Routed, Loop, At
<1>13. CASE AckDeliver
  <2>1. /\ acker.pc = "deliver" /\ acker'.pc = "check"
        /\ message = <<>> /\ message'[1] = acker.msg
        /\ UNCHANGED <<reader, readMessages, readMessageSeq, writer>>
    BY <1>13 DEF AckDeliver, SendOn, TypeOK, ChanCap, Loop, At
  <2>2. /\ Holds("acker") /\ ~Holds("acker")'
        /\ ~Holds("chan") /\ MsgAt("chan")' = MsgAt("acker")
        /\ Holds("writer")' = Holds("writer") /\ MsgAt("writer")' = MsgAt("writer")
    BY <2>1 DEF Holds, MsgAt
  <2>3. OneCopyPerId'
    BY <2>1, <2>2 DEF CopyInv, OneCopyPerId
  <2>4. AckRecorded' /\ InFlightRecorded' /\ Routed'
    BY <2>1, <2>2 DEF CopyInv, AckRecorded, InFlightRecorded, Routed
  <2>5. QED
    BY <2>3, <2>4 DEF CopyInv
<1>14. CASE AckTimePasses
  <2> DEFINE late == [Head(readMessages) EXCEPT !.time = "late"]
  <2>1. /\ readMessages # <<>> /\ readMessages' = <<late>> \o Tail(readMessages)
        /\ UNCHANGED <<reader, readMessageSeq, message, acker, writer>>
    BY <1>14 DEF AckTimePasses
  <2>2. /\ late \in Message /\ late.id = readMessages[1].id
        /\ readMessages \in Seq(Message)
    <3>1. Head(readMessages) \in Message /\ readMessages \in Seq(Message)
      BY <2>1, HeadIsMessage DEF TypeOK
    <3>2. Head(readMessages) = readMessages[1]
      BY <2>1, <3>1
    <3>3. QED
      BY <3>1, <3>2 DEF Message
  <2>3. /\ DOMAIN readMessages' = DOMAIN readMessages
        /\ \A i \in DOMAIN readMessages : readMessages'[i].id = readMessages[i].id
    <3> HIDE DEF late
    <3>1. QED
      BY <2>1, <2>2, ReplaceHead
  <2>4. QED
    BY <2>1, <2>3, CopyFrame DEF Holds, MsgAt, CopyInv, Routed
<1>15. CASE WriterDone
  BY <1>15, CopyFrame DEF WriterDone, Holds, MsgAt, CopyInv, Routed, Loop, At
<1>16. CASE WriterReceive
  <2>1. /\ writer.pc = "select" /\ writer'.pc = "handle" /\ writer'.msg = message[1]
        /\ message # <<>> /\ message' = <<>>
        /\ UNCHANGED <<reader, readMessages, readMessageSeq, acker>>
    BY <1>16 DEF WriterReceive, TypeOK, ChanCap, At
  <2>2. /\ ~Holds("writer") /\ ~Holds("chan")'
        /\ Holds("writer")' = Holds("chan") /\ MsgAt("writer")' = MsgAt("chan")
        /\ Holds("acker")' = Holds("acker") /\ MsgAt("acker")' = MsgAt("acker")
    BY <2>1 DEF Holds, MsgAt
  <2>3. OneCopyPerId'
    BY <2>1, <2>2 DEF CopyInv, OneCopyPerId
  <2>4. AckRecorded' /\ InFlightRecorded' /\ Routed'
    BY <2>1, <2>2 DEF CopyInv, AckRecorded, InFlightRecorded, Routed
  <2>5. QED
    BY <2>3, <2>4 DEF CopyInv
<1>17. CASE WriterHandle
  BY <1>17, CopyFrame DEF WriterHandle, Holds, MsgAt, CopyInv, Routed, Loop, At, isAck
<1>18. CASE WriterForget
  <2>1. /\ writer.pc = "forget" /\ writer'.pc = "select"
        /\ DOMAIN readMessageSeq' = DOMAIN readMessageSeq \ {writer.msg.id}
        /\ UNCHANGED <<reader, readMessages, message, acker>>
    BY <1>18 DEF WriterForget, Delete, Loop, At
  <2>2. /\ Holds("writer") /\ MsgAt("writer") = writer.msg /\ ~Holds("writer")'
        /\ \A p \in {"acker", "chan"} : Holds(p)' = Holds(p) /\ MsgAt(p)' = MsgAt(p)
    BY <2>1 DEF Holds, MsgAt, CopyInv, Routed
  <2>3. OneCopyPerId'
    BY <2>1, <2>2 DEF CopyInv, OneCopyPerId
  <2>4. AckRecorded' /\ InFlightRecorded' /\ Routed'
    BY <2>1, <2>2 DEF CopyInv, OneCopyPerId, AckRecorded, InFlightRecorded, Routed
  <2>5. QED
    BY <2>3, <2>4 DEF CopyInv
<1>19. CASE UNCHANGED vars
  BY <1>19, CopyFrame DEF vars, connVars, Holds, MsgAt, CopyInv, Routed
<1>20. QED
  BY <1>1, <1>2, <1>3, <1>4, <1>5, <1>6, <1>7, <1>8, <1>9, <1>10, <1>11, <1>12,
     <1>13, <1>14, <1>15, <1>16, <1>17, <1>18, <1>19
  DEF Next, Reader, Acker, Writer

LEMMA CopyInvariant == Spec => []CopyInv
BY InitCopy, StepCopy, TypeCorrect, PTL DEF Spec

(* No id is ever twice between appendMsgMq and the end of its handling.     *)
THEOREM OneCopy == Spec => []OneCopyPerId
BY CopyInvariant, PTL DEF CopyInv

(* readAck never finds the head of its queue missing in readMessageSeq.     *)
THEOREM HeadIsRecorded == Spec => []AckRecorded
BY CopyInvariant, PTL DEF CopyInv

-----------------------------------------------------------------------------
(* RigorAck handles nothing that the client has not confirmed *)

(* A message still says what the frame it came from said, its number apart, *)
(* which readAck sets from 0 to 1.                                          *)
FaithfulIn(w, m) ==
  /\ m.n \in DOMAIN w /\ w[m.n].id = m.id /\ w[m.n].kind = m.kind
  /\ m.seq = w[m.n].seq \/ (w[m.n].seq = 0 /\ m.seq = 1)

(* A later frame with the message's id carries a given number.              *)
RepeatedIn(w, m, seq) ==
  \E k \in DOMAIN w : k > m.n /\ w[k].id = m.id /\ w[k].seq = seq

(* The client answered the message's number with a higher one.              *)
AnsweredIn(w, m) ==
  m.seq # 0 /\ \E seq \in Nat : seq > m.seq /\ RepeatedIn(w, m, seq)

(* The messages on their way from the reader or from the queue to a handler. *)
Carried ==
  {m \in Message : \/ reader.pc = "send" /\ m = reader.msg
                   \/ message # <<>> /\ m = message[1]
                   \/ acker.pc = "deliver" /\ m = acker.msg
                   \/ writer.pc = "handle" /\ m = writer.msg}

(* The entry of a queued message is the message itself, or tells of a       *)
(* later frame.                                                             *)
EntryTrue(w, m, e) ==
  IF e.own THEN e.seq = m.seq ELSE RepeatedIn(w, m, e.seq)

QueueTrue ==
  \A i \in DOMAIN readMessages :
    /\ FaithfulIn(wire, readMessages[i])
    /\ EntryTrue(wire, readMessages[i], readMessageSeq[readMessages[i].id])
CarriedTrue ==
  \A m \in Carried : FaithfulIn(wire, m) /\ (isAck(m) => AnsweredIn(wire, m))
ConfirmedAt(w, n) ==
  /\ n \in DOMAIN w
  /\ \E k \in DOMAIN w : /\ k > n /\ w[k].id = w[n].id
                         /\ w[k].seq > (IF w[n].seq = 0 THEN 1 ELSE w[n].seq)
HandledTrue == \A i \in DOMAIN handled : ConfirmedAt(wire, handled[i])

(* The inductive invariant behind ConfirmedBeforeHandled.                   *)
ConfInv == QueueTrue /\ CarriedTrue /\ HandledTrue

(* What is true of the wire stays true when a frame is added to it.         *)
LEMMA WireGrows ==
  ASSUME NEW w \in Seq(Frame), NEW f \in Frame, NEW m \in Message
  PROVE  /\ FaithfulIn(w, m) => FaithfulIn(Append(w, f), m)
         /\ \A seq \in Nat : RepeatedIn(w, m, seq) => RepeatedIn(Append(w, f), m, seq)
         /\ AnsweredIn(w, m) => AnsweredIn(Append(w, f), m)
         /\ \A n \in Nat : ConfirmedAt(w, n) => ConfirmedAt(Append(w, f), n)
<1>1. /\ DOMAIN w \subseteq DOMAIN Append(w, f)
      /\ \A k \in DOMAIN w : Append(w, f)[k] = w[k]
  OBVIOUS
<1> DEFINE w2 == Append(w, f)
<1>2. DOMAIN w \subseteq DOMAIN w2 /\ \A k \in DOMAIN w : w2[k] = w[k]
  BY <1>1
<1> HIDE DEF w2
<1>3. FaithfulIn(w, m) => FaithfulIn(w2, m)
  BY <1>2 DEF FaithfulIn
<1>4. \A seq \in Nat : RepeatedIn(w, m, seq) => RepeatedIn(w2, m, seq)
  BY <1>2 DEF RepeatedIn
<1>5. AnsweredIn(w, m) => AnsweredIn(w2, m)
  BY <1>4 DEF AnsweredIn
<1>6. \A n \in Nat : ConfirmedAt(w, n) => ConfirmedAt(w2, n)
  BY <1>2 DEF ConfirmedAt
<1>7. QED
  BY <1>3, <1>4, <1>5, <1>6 DEF w2

(* A step that leaves the queue, the map, the wire and the handled messages *)
(* alone, and carries nothing new.                                          *)
LEMMA ConfFrame ==
  ASSUME ConfInv,
         UNCHANGED <<AckMode, wire, readMessages, readMessageSeq, handled>>,
         Carried' \subseteq Carried
  PROVE  ConfInv'
BY DEF ConfInv, QueueTrue, CarriedTrue, HandledTrue, ConfirmedAt

(* The head moves to readAck's hand, confirmed by its entry.                *)
LEMMA ConfPop ==
  ASSUME AckMode = "RigorAck", AckMode' = AckMode,
         TypeOK, CopyInv, ConfInv, RigorDeliver
  PROVE  ConfInv'
<1> DEFINE h == readMessages[1]
<1>1. /\ readMessages # <<>> /\ readMessages' = Tail(readMessages)
      /\ h = Head(readMessages) /\ h \in Message /\ 1 \in DOMAIN readMessages
      /\ h.seq # 0 /\ readMessageSeq[h.id].seq > h.seq
      /\ acker' = At("deliver", h)
      /\ UNCHANGED <<wire, reader, readMessageSeq, message, writer, handled>>
  BY HeadIsMessage DEF RigorDeliver, Working, TypeOK, Confirmed
<1>2. readMessageSeq[h.id] \in SeqEntry
  BY <1>1 DEF CopyInv, AckRecorded, TypeOK
<1> HIDE DEF h
<1>3. FaithfulIn(wire, h) /\ EntryTrue(wire, h, readMessageSeq[h.id])
  BY <1>1 DEF ConfInv, QueueTrue, h
<1>4. h.seq \in Nat /\ readMessageSeq[h.id].seq \in Nat
  BY <1>1, <1>2 DEF Message, SeqEntry
<1>5. AnsweredIn(wire, h)
  BY <1>1, <1>3, <1>4 DEF EntryTrue, AnsweredIn
<1>6. Carried' \subseteq Carried \cup {h}
  BY <1>1 DEF Carried, At
<1>7. QueueTrue'
  <2>1. /\ DOMAIN readMessages' = 1..(Len(readMessages) - 1)
        /\ DOMAIN readMessages = 1..Len(readMessages)
        /\ \A i \in DOMAIN readMessages' :
             i + 1 \in DOMAIN readMessages /\ readMessages'[i] = readMessages[i + 1]
    BY <1>1 DEF TypeOK
  <2>2. QED
    BY <1>1, <2>1 DEF ConfInv, QueueTrue
<1>8. CarriedTrue' /\ HandledTrue'
  BY <1>1, <1>3, <1>5, <1>6 DEF ConfInv, CarriedTrue, HandledTrue, ConfirmedAt
<1>9. QED
  BY <1>7, <1>8 DEF ConfInv

LEMMA InitConf == Init => ConfInv
BY DEF Init, ConfInv, QueueTrue, CarriedTrue, HandledTrue, Carried, Loop, At

(* Reading a frame: new things are true of the longer wire.                 *)
LEMMA ConfRead ==
  ASSUME AckMode = "RigorAck", AckMode' = AckMode, TypeOK, TypeOK', CopyInv, ConfInv,
         NEW f \in Frame, ReadFrame(f)
  PROVE  ConfInv'
<1> DEFINE m == [id |-> f.id, kind |-> f.kind, seq |-> f.seq,
                 time |-> "zero", n |-> Len(wire) + 1]
<1>1. /\ wire' = Append(wire, f) /\ wire \in Seq(Frame)
      /\ UNCHANGED <<message, acker, writer, handled>>
      /\ reader.pc = "read"
  BY DEF ReadFrame, TypeOK
<1>2. /\ m \in Message /\ m.n = Len(wire) + 1 /\ Len(wire) \in Nat
      /\ m.id = f.id /\ m.kind = f.kind /\ m.seq = f.seq
  BY <1>1, SeqAssumption DEF Frame, Message, TypeOK
<1>3. IF isAck(m) THEN appendMsgMq(m) /\ UNCHANGED reader
      ELSE reader' = At("send", m) /\ UNCHANGED <<readMessages, readMessageSeq>>
  BY DEF ReadFrame
<1> HIDE DEF m
<1>4. FaithfulIn(wire', m)
  BY <1>1, <1>2 DEF FaithfulIn
<1>5. \A x \in Message : x.n \in DOMAIN wire /\ x.id = m.id => RepeatedIn(wire', x, m.seq)
  BY <1>1, <1>2 DEF RepeatedIn
<1>6. HandledTrue'
  <2>1. \A i \in DOMAIN handled : handled[i] \in Nat /\ ConfirmedAt(wire, handled[i])
    BY DEF ConfInv, HandledTrue, TypeOK
  <2>2. \A n \in Nat : ConfirmedAt(wire, n) => ConfirmedAt(wire', n)
    BY <1>1, <1>2, WireGrows
  <2>3. QED
    BY <1>1, <2>1, <2>2 DEF HandledTrue, ConfirmedAt
<1>7. CarriedTrue'
  <2>1. CASE isAck(m)
    <3>1. Carried' \subseteq Carried
      BY <1>1, <1>3, <2>1 DEF Carried
    <3>2. QED
      BY <3>1, <1>1, WireGrows DEF ConfInv, CarriedTrue, Carried
  <2>2. CASE ~isAck(m)
    <3>1. Carried' \subseteq Carried \cup {m}
      BY <1>1, <1>3, <2>2 DEF Carried, At
    <3>2. QED
      BY <3>1, <1>1, <1>4, <2>2, WireGrows DEF ConfInv, CarriedTrue, Carried
  <2>3. QED
    BY <2>1, <2>2
<1>8. \A i \in DOMAIN readMessages :
        /\ readMessages[i] \in Message
        /\ readMessageSeq[readMessages[i].id] \in SeqEntry
        /\ FaithfulIn(wire', readMessages[i])
        /\ EntryTrue(wire', readMessages[i], readMessageSeq[readMessages[i].id])
  <2> TAKE i \in DOMAIN readMessages
  <2>1. /\ readMessages[i] \in Message
        /\ readMessageSeq[readMessages[i].id] \in SeqEntry
    BY DEF TypeOK, CopyInv, AckRecorded
  <2>2. /\ FaithfulIn(wire, readMessages[i])
        /\ EntryTrue(wire, readMessages[i], readMessageSeq[readMessages[i].id])
    BY DEF ConfInv, QueueTrue
  <2>3. readMessageSeq[readMessages[i].id].seq \in Nat
    BY <2>1 DEF SeqEntry
  <2>4. QED
    BY <1>1, <2>1, <2>2, <2>3, WireGrows DEF EntryTrue
<1>9. QueueTrue'
  <2>1. CASE UNCHANGED <<readMessages, readMessageSeq>>
    BY <1>8, <2>1 DEF QueueTrue
  <2>2. CASE RecordRepeat(m) /\ ~UNCHANGED readMessageSeq
    <3>1. /\ readMessages' = readMessages
          /\ readMessageSeq' = Put(readMessageSeq, m.id, [own |-> FALSE, seq |-> m.seq])
      BY <2>2 DEF RecordRepeat
    <3>2. ASSUME NEW i \in DOMAIN readMessages
          PROVE  EntryTrue(wire', readMessages[i], readMessageSeq'[readMessages[i].id])
      <4>1. readMessages[i].id \in DOMAIN readMessageSeq
        BY DEF CopyInv, AckRecorded
      <4>2. CASE readMessages[i].id = m.id
        <5>1. readMessageSeq'[readMessages[i].id] = [own |-> FALSE, seq |-> m.seq]
          BY <3>1, <4>1, <4>2 DEF Put
        <5>2. readMessages[i] \in Message /\ readMessages[i].n \in DOMAIN wire
          BY DEF TypeOK, ConfInv, QueueTrue, FaithfulIn
        <5>3. QED
          BY <1>5, <4>2, <5>1, <5>2 DEF EntryTrue
      <4>3. CASE readMessages[i].id # m.id
        <5>1. readMessageSeq'[readMessages[i].id] = readMessageSeq[readMessages[i].id]
          BY <3>1, <4>1, <4>3 DEF Put
        <5>2. QED
          BY <1>8, <5>1
      <4>4. QED
        BY <4>2, <4>3
    <3>3. QED
      BY <1>8, <3>1, <3>2 DEF QueueTrue
  <2>3. CASE Enqueue(m) /\ ~UNCHANGED readMessages
    <3>1. /\ readMessages' = Append(readMessages, m)
          /\ m.id \notin DOMAIN readMessageSeq
          /\ readMessageSeq' = Put(readMessageSeq, m.id, [own |-> TRUE, seq |-> m.seq])
      BY <2>3 DEF Enqueue
    <3>2. /\ Len(readMessages) \in Nat
          /\ DOMAIN readMessages = 1..Len(readMessages)
          /\ DOMAIN readMessages' = 1..(Len(readMessages) + 1)
          /\ \A i \in DOMAIN readMessages : readMessages'[i] = readMessages[i]
          /\ readMessages'[Len(readMessages) + 1] = m
      BY <1>2, <3>1 DEF TypeOK
    <3>3. readMessageSeq'[m.id] = [own |-> TRUE, seq |-> m.seq]
      BY <3>1 DEF Put
    <3>4. \A i \in DOMAIN readMessages :
            readMessageSeq'[readMessages[i].id] = readMessageSeq[readMessages[i].id]
      BY <3>1 DEF Put, CopyInv, AckRecorded
    <3>5. EntryTrue(wire', m, readMessageSeq'[m.id])
      BY <3>3 DEF EntryTrue
    <3>6. QED
      BY <1>4, <1>8, <3>2, <3>4, <3>5 DEF QueueTrue
  <2>4. RecordRepeat(m) => UNCHANGED readMessages
    BY DEF RecordRepeat
  <2>5. Enqueue(m) /\ UNCHANGED readMessages => UNCHANGED readMessageSeq
    BY <1>2 DEF Enqueue, TypeOK
  <2>6. QED
    BY <1>3, <2>1, <2>2, <2>3, <2>4, <2>5 DEF appendMsgMq
<1>10. QED
  BY <1>6, <1>7, <1>9 DEF ConfInv

LEMMA StepConf ==
  ASSUME AckMode = "RigorAck"
  PROVE  TypeOK /\ TypeOK' /\ CopyInv /\ ConfInv /\ [Next]_vars => ConfInv'
<1> SUFFICES ASSUME TypeOK, TypeOK', CopyInv, ConfInv, [Next]_vars PROVE ConfInv'
  OBVIOUS
<1>0. AckMode' = AckMode
  BY ModeKept
<1> USE <1>0
<1>1. ASSUME NEW f \in Frame, ReadFrame(f) PROVE ConfInv'
  BY <1>1, ConfRead
<1>2. CASE ReaderSend
  BY <1>2, ConfFrame DEF ReaderSend, SendOn, Carried, Loop, At, TypeOK, ChanCap
<1>3. CASE ReadFail
  BY <1>3, ConfFrame DEF ReadFail, Carried, Loop, At
<1>4. CASE CloseConn
  BY <1>4, ConfFrame DEF CloseConn, connVars, Carried
<1>5. CASE AckCheck
  BY <1>5, ConfFrame DEF AckCheck, Carried, Loop, At
<1>6. CASE AckIdle
  BY <1>6, ConfFrame DEF AckIdle, Carried, Loop, At
<1>7. ASSUME NEW ok \in BOOLEAN, OnlyAckSend(ok) PROVE ConfInv'
  BY <1>7 DEF OnlyAckSend, Working
<1>8. ASSUME NEW ok \in BOOLEAN, RigorFirstAck(ok) PROVE ConfInv'
  <2> DEFINE h == readMessages[1]
             numbered == [h EXCEPT !.seq = 1, !.time = "fresh"]
  <2>1. /\ readMessages # <<>> /\ 1 \in DOMAIN readMessages
        /\ h = Head(readMessages) /\ h \in Message /\ h.seq = 0
        /\ readMessages' = <<numbered>> \o Tail(readMessages)
        /\ readMessageSeq' = IF readMessageSeq[h.id].own
                             THEN [readMessageSeq EXCEPT ![h.id].seq = 1]
                             ELSE readMessageSeq
        /\ acker'.pc # "deliver"
        /\ UNCHANGED <<wire, reader, message, writer, handled>>
    <3>1. readMessages # <<>> /\ Head(readMessages).seq = 0
      BY <1>8 DEF RigorFirstAck, Working
    <3>2. 1 \in DOMAIN readMessages /\ h = Head(readMessages) /\ h \in Message
      BY <3>1, HeadIsMessage DEF TypeOK
    <3>3. acker'.pc # "deliver"
      BY <1>8 DEF RigorFirstAck, Loop, At
    <3>4. QED
      BY <1>8, <3>1, <3>2, <3>3 DEF RigorFirstAck
  <2>2. /\ numbered \in Message /\ numbered.id = h.id /\ numbered.n = h.n
        /\ numbered.kind = h.kind /\ numbered.seq = 1
    BY <2>1 DEF Message
  <2>3. /\ h.id \in DOMAIN readMessageSeq /\ readMessageSeq[h.id] \in SeqEntry
        /\ FaithfulIn(wire, h) /\ EntryTrue(wire, h, readMessageSeq[h.id])
    BY <2>1 DEF CopyInv, AckRecorded, TypeOK, ConfInv, QueueTrue
  <2> HIDE DEF h, numbered
  <2>4. /\ DOMAIN readMessages' = DOMAIN readMessages
        /\ readMessages'[1] = numbered
        /\ \A i \in DOMAIN readMessages : i # 1 => readMessages'[i] = readMessages[i]
    BY <2>1, <2>2, ReplaceHead DEF TypeOK
  <2>5. FaithfulIn(wire, numbered)
    BY <2>1, <2>2, <2>3 DEF FaithfulIn
  <2>6. EntryTrue(wire, numbered, readMessageSeq'[h.id])
    <3>1. CASE readMessageSeq[h.id].own
      <4>1. readMessageSeq'[h.id].own /\ readMessageSeq'[h.id].seq = 1
        BY <2>1, <2>3, <3>1 DEF SeqEntry
      <4>2. QED
        BY <2>2, <4>1 DEF EntryTrue
    <3>2. CASE ~readMessageSeq[h.id].own
      BY <2>1, <2>2, <2>3, <3>2 DEF EntryTrue, RepeatedIn
    <3>3. QED
      BY <3>1, <3>2
  <2>7. ASSUME NEW i \in DOMAIN readMessages, i # 1
        PROVE  readMessageSeq'[readMessages[i].id] = readMessageSeq[readMessages[i].id]
    <3>1. readMessages[i].id # h.id
      BY <2>1, <2>7 DEF CopyInv, OneCopyPerId, h
    <3>2. readMessages[i].id \in DOMAIN readMessageSeq
      BY DEF CopyInv, AckRecorded
    <3>3. QED
      BY <2>1, <2>3, <3>1, <3>2
  <2>8. QueueTrue'
    <3> SUFFICES ASSUME NEW i \in DOMAIN readMessages
                 PROVE  /\ FaithfulIn(wire, readMessages'[i])
                        /\ EntryTrue(wire, readMessages'[i],
                                     readMessageSeq'[readMessages'[i].id])
      BY <2>1, <2>4 DEF QueueTrue
    <3>1. CASE i = 1
      BY <2>2, <2>4, <2>5, <2>6, <3>1
    <3>2. CASE i # 1
      BY <2>4, <2>7, <3>2 DEF ConfInv, QueueTrue
    <3>3. QED
      BY <3>1, <3>2
  <2>9. Carried' \subseteq Carried
    BY <2>1 DEF Carried
  <2>10. CarriedTrue' /\ HandledTrue'
    BY <2>1, <2>9 DEF ConfInv, CarriedTrue, HandledTrue, ConfirmedAt
  <2>11. QED
    BY <2>8, <2>10 DEF ConfInv
<1>9. CASE RigorDeliver
  BY <1>9, ConfPop
<1>10. CASE RigorTimeout
  <2>1. /\ readMessages # <<>> /\ readMessages' = Tail(readMessages)
        /\ readMessageSeq' = Delete(readMessageSeq, readMessages[1].id)
        /\ acker'.pc # "deliver"
        /\ UNCHANGED <<wire, reader, message, writer, handled>>
    BY <1>10 DEF RigorTimeout, Working, TypeOK, Loop, At
  <2>2. /\ DOMAIN readMessages' = 1..(Len(readMessages) - 1)
        /\ DOMAIN readMessages = 1..Len(readMessages)
        /\ 1 \in DOMAIN readMessages
        /\ \A i \in DOMAIN readMessages' :
             /\ i + 1 \in DOMAIN readMessages /\ i + 1 # 1
             /\ readMessages'[i] = readMessages[i + 1]
    BY <2>1 DEF TypeOK
  <2>3. \A i \in DOMAIN readMessages :
          i # 1 => readMessageSeq'[readMessages[i].id] = readMessageSeq[readMessages[i].id]
    BY <2>1, <2>2 DEF Delete, CopyInv, OneCopyPerId, AckRecorded
  <2>4. QueueTrue'
    BY <2>1, <2>2, <2>3 DEF ConfInv, QueueTrue
  <2>5. Carried' \subseteq Carried
    BY <2>1 DEF Carried
  <2>6. CarriedTrue' /\ HandledTrue'
    BY <2>1, <2>5 DEF ConfInv, CarriedTrue, HandledTrue, ConfirmedAt
  <2>7. QED
    BY <2>4, <2>6 DEF ConfInv
<1>11. CASE RigorWait
  BY <1>11, ConfFrame DEF RigorWait, Carried, At
<1>12. ASSUME NEW ok \in BOOLEAN, RigorResend(ok) PROVE ConfInv'
  BY <1>12, ConfFrame DEF RigorResend, Carried, Loop, At
<1>13. CASE AckDeliver
  BY <1>13, ConfFrame DEF AckDeliver, SendOn, Carried, Loop, At, TypeOK, ChanCap
<1>14. CASE AckTimePasses
  <2> DEFINE h == readMessages[1]
             late == [h EXCEPT !.time = "late"]
  <2>1. /\ readMessages # <<>> /\ 1 \in DOMAIN readMessages
        /\ h = Head(readMessages) /\ h \in Message
        /\ readMessages' = <<late>> \o Tail(readMessages)
        /\ UNCHANGED <<wire, reader, readMessageSeq, message, acker, writer, handled>>
    BY <1>14, HeadIsMessage DEF AckTimePasses, TypeOK
  <2>2. /\ late \in Message /\ late.id = h.id /\ late.n = h.n
        /\ late.kind = h.kind /\ late.seq = h.seq
    BY <2>1 DEF Message
  <2>3. FaithfulIn(wire, h) /\ EntryTrue(wire, h, readMessageSeq[h.id])
    BY <2>1 DEF ConfInv, QueueTrue
  <2> HIDE DEF h, late
  <2>4. /\ DOMAIN readMessages' = DOMAIN readMessages
        /\ readMessages'[1] = late
        /\ \A i \in DOMAIN readMessages : i # 1 => readMessages'[i] = readMessages[i]
    BY <2>1, <2>2, ReplaceHead DEF TypeOK
  <2>5. FaithfulIn(wire, late) /\ EntryTrue(wire, late, readMessageSeq[h.id])
    BY <2>2, <2>3 DEF FaithfulIn, EntryTrue, RepeatedIn
  <2>6. QueueTrue'
    <3> SUFFICES ASSUME NEW i \in DOMAIN readMessages
                 PROVE  /\ FaithfulIn(wire, readMessages'[i])
                        /\ EntryTrue(wire, readMessages'[i],
                                     readMessageSeq[readMessages'[i].id])
      BY <2>1, <2>4 DEF QueueTrue
    <3>1. CASE i = 1
      BY <2>2, <2>4, <2>5, <3>1
    <3>2. CASE i # 1
      BY <2>4, <3>2 DEF ConfInv, QueueTrue
    <3>3. QED
      BY <3>1, <3>2
  <2>7. CarriedTrue' /\ HandledTrue'
    BY <2>1 DEF ConfInv, CarriedTrue, HandledTrue, Carried, ConfirmedAt
  <2>8. QED
    BY <2>6, <2>7 DEF ConfInv
<1>15. CASE WriterDone
  BY <1>15, ConfFrame DEF WriterDone, Carried, Loop, At
<1>16. CASE WriterReceive
  BY <1>16, ConfFrame DEF WriterReceive, Carried, At, TypeOK, ChanCap
<1>17. CASE WriterHandle
  <2> DEFINE m == writer.msg
  <2>1. /\ writer.pc = "handle" /\ m \in Message
        /\ writer'.pc # "handle"
        /\ isAck(m) => handled' = RunHandler(handled, m)
        /\ ~isAck(m) => handled' = handled
        /\ UNCHANGED <<wire, reader, readMessages, readMessageSeq, message, acker>>
    BY <1>17 DEF WriterHandle, TypeOK, Loop, At
  <2>2. m \in Carried
    BY <2>1 DEF Carried
  <2> HIDE DEF m
  <2>3. FaithfulIn(wire, m) /\ (isAck(m) => AnsweredIn(wire, m))
    BY <2>2 DEF ConfInv, CarriedTrue
  <2>4. /\ m.n \in DOMAIN wire /\ m.n \in Nat /\ m.seq \in Nat
        /\ wire[m.n].id = m.id
        /\ m.seq # 0 => m.seq = IF wire[m.n].seq = 0 THEN 1 ELSE wire[m.n].seq
    BY <2>1, <2>3 DEF FaithfulIn, Message
  <2>5. AnsweredIn(wire, m) =>
          /\ m.seq # 0
          /\ \E k \in DOMAIN wire :
               k > m.n /\ wire[k].id = wire[m.n].id /\ wire[k].seq > m.seq
    BY <2>4 DEF AnsweredIn, RepeatedIn
  <2>6. isAck(m) => ConfirmedAt(wire, m.n)
    BY <2>3, <2>4, <2>5 DEF ConfirmedAt
  <2>7. HandledTrue'
    <3>1. CASE handled' = handled
      BY <2>1, <3>1 DEF ConfInv, HandledTrue, ConfirmedAt
    <3>2. CASE isAck(m) /\ handled' = Append(handled, m.n)
      <4>1. \A i \in DOMAIN handled' :
              handled'[i] = m.n \/ \E j \in DOMAIN handled : handled'[i] = handled[j]
        BY <3>2 DEF TypeOK
      <4>2. QED
        BY <2>1, <2>6, <3>2, <4>1 DEF ConfInv, HandledTrue, ConfirmedAt
    <3>3. QED
      BY <2>1, <3>1, <3>2 DEF RunHandler
  <2>8. QueueTrue' /\ CarriedTrue'
    BY <2>1 DEF ConfInv, QueueTrue, CarriedTrue, Carried
  <2>9. QED
    BY <2>7, <2>8 DEF ConfInv
<1>18. CASE WriterForget
  <2>1. /\ writer.pc = "forget" /\ writer'.pc = "select"
        /\ readMessageSeq' = Delete(readMessageSeq, writer.msg.id)
        /\ UNCHANGED <<wire, reader, readMessages, message, acker, handled>>
    BY <1>18 DEF WriterForget, Loop, At
  <2>2. Holds("writer") /\ MsgAt("writer") = writer.msg
    BY <2>1 DEF Holds, MsgAt, CopyInv, Routed
  <2>3. \A i \in DOMAIN readMessages :
          readMessageSeq'[readMessages[i].id] = readMessageSeq[readMessages[i].id]
    BY <2>1, <2>2 DEF Delete, CopyInv, OneCopyPerId, AckRecorded, Places
  <2>4. QueueTrue'
    BY <2>1, <2>3 DEF ConfInv, QueueTrue
  <2>5. CarriedTrue' /\ HandledTrue'
    BY <2>1 DEF ConfInv, CarriedTrue, HandledTrue, Carried, ConfirmedAt
  <2>6. QED
    BY <2>4, <2>5 DEF ConfInv
<1>19. CASE UNCHANGED vars
  BY <1>19, ConfFrame DEF vars, connVars, Carried
<1>20. QED
  BY <1>1, <1>2, <1>3, <1>4, <1>5, <1>6, <1>7, <1>8, <1>9, <1>10, <1>11, <1>12,
     <1>13, <1>14, <1>15, <1>16, <1>17, <1>18, <1>19
  DEF Next, Reader, Acker, Writer

LEMMA ConfImplies == (AckMode = "RigorAck" => ConfInv) => ConfirmedBeforeHandled
BY DEF ConfInv, HandledTrue, ConfirmedAt, ConfirmedBeforeHandled

(* In RigorAck mode no handler runs before the client has confirmed its     *)
(* message with a higher number (im-chat-dataflow.md 6.1), for every set of *)
(* ids and whatever numbers the client uses.                                *)
THEOREM RigorConfirmed == Spec => []ConfirmedBeforeHandled
<1>1. (AckMode = "RigorAck" => ConfInv) /\ TypeOK /\ TypeOK' /\ CopyInv /\ [Next]_vars
        => (AckMode = "RigorAck" => ConfInv)'
  BY StepConf, ModeKept
<1>2. Init => (AckMode = "RigorAck" => ConfInv)
  BY InitConf
<1>3. QED
  BY <1>1, <1>2, TypeCorrect, CopyInvariant, ConfImplies, PTL DEF Spec

-----------------------------------------------------------------------------
(* No handler runs before the ack is written *)

(* The server owes an ack for the message at place n of the wire.           *)
AckOwed(mode, w, sent, n) == mode = "OnlyAck" \/ w[n].seq = 0 => n \in sent

(* A message in the queue, with readAck at pc, and one on its way to a      *)
(* handler.                                                                 *)
QueuedTrue(mode, w, sent, pc, m) ==
  /\ FaithfulIn(w, m) /\ mode # "NoAck" /\ m.kind = "data"
  /\ mode = "RigorAck" /\ m.seq # 0 => AckOwed(mode, w, sent, m.n) \/ pc = "exit"
MovedTrue(mode, w, sent, m) ==
  /\ FaithfulIn(w, m)
  /\ mode # "NoAck" /\ m.kind # "noack" => m.kind = "data" /\ AckOwed(mode, w, sent, m.n)

(* The inductive invariant behind AckedBeforeHandled and the refinements.   *)
QueuedInv ==
  \A i \in DOMAIN readMessages :
    QueuedTrue(AckMode, wire, acked, acker.pc, readMessages[i])
MovedInv ==
  /\ \A m \in Carried : MovedTrue(AckMode, wire, acked, m)
  /\ acker.pc = "deliver" => isAck(acker.msg)
PastInv ==
  /\ \A i \in DOMAIN handled :
       handled[i] \in DOMAIN wire /\ AckOwed(AckMode, wire, acked, handled[i])
  /\ \A i \in DOMAIN direct : direct[i] \in DOMAIN wire
  /\ dropped \subseteq DOMAIN wire
AckInv == QueuedInv /\ MovedInv /\ PastInv

LEMMA InitAck == Init => AckInv
BY DEF Init, AckInv, QueuedInv, MovedInv, PastInv, Carried, Loop, At

(* More acks and a longer wire break no promise.                            *)
LEMMA OwedGrows ==
  ASSUME AckMode' = AckMode, DOMAIN wire \subseteq DOMAIN wire',
         \A k \in DOMAIN wire : wire'[k] = wire[k],
         acked \subseteq acked',
         acker.pc = "exit" => acker'.pc = "exit"
  PROVE  /\ \A n \in DOMAIN wire : AckOwed(AckMode, wire, acked, n) => AckOwed(AckMode, wire', acked', n)
         /\ \A m \in Message : FaithfulIn(wire, m) => FaithfulIn(wire', m)
         /\ \A m \in Message : QueuedTrue(AckMode, wire, acked, acker.pc, m) => QueuedTrue(AckMode, wire', acked', acker'.pc, m)
         /\ \A m \in Message : MovedTrue(AckMode, wire, acked, m) => MovedTrue(AckMode, wire', acked', m)
         /\ PastInv /\ UNCHANGED <<handled, direct, dropped>> => PastInv'
<1>1. \A n \in DOMAIN wire : AckOwed(AckMode, wire, acked, n) => AckOwed(AckMode, wire', acked', n)
  BY DEF AckOwed
<1>2. \A m \in Message : FaithfulIn(wire, m) => FaithfulIn(wire', m) /\ m.n \in DOMAIN wire
  BY DEF FaithfulIn
<1>3. \A m \in Message : QueuedTrue(AckMode, wire, acked, acker.pc, m) => QueuedTrue(AckMode, wire', acked', acker'.pc, m)
  BY <1>1, <1>2 DEF QueuedTrue
<1>4. \A m \in Message : MovedTrue(AckMode, wire, acked, m) => MovedTrue(AckMode, wire', acked', m)
  BY <1>1, <1>2 DEF MovedTrue
<1>5. PastInv /\ UNCHANGED <<handled, direct, dropped>> => PastInv'
  BY <1>1 DEF PastInv
<1>6. QED
  BY <1>1, <1>2, <1>3, <1>4, <1>5

(* A step that puts nothing new in the queue or past it.                    *)
LEMMA AckFrame ==
  ASSUME TypeOK, AckInv, UNCHANGED <<AckMode, wire, handled, direct>>,
         acked \subseteq acked', dropped' \subseteq dropped \cup DOMAIN wire,
         acker.pc = "exit" => acker'.pc = "exit",
         acker'.pc = "deliver" => acker' = acker,
         \A i \in DOMAIN readMessages' :
           \E j \in DOMAIN readMessages : readMessages'[i] = readMessages[j],
         Carried' \subseteq Carried
  PROVE  AckInv'
<1>1. QueuedInv'
  BY OwedGrows DEF AckInv, QueuedInv, TypeOK
<1>2. MovedInv'
  <2>1. \A m \in Carried' : m \in Carried /\ m \in Message
    BY DEF Carried
  <2>2. QED
    BY <2>1, OwedGrows DEF AckInv, MovedInv
<1>3. PastInv'
  BY OwedGrows DEF AckInv, PastInv
<1>4. QED
  BY <1>1, <1>2, <1>3 DEF AckInv

(* The head of the queue passes to readAck's hand, its ack written.         *)
LEMMA AckPop ==
  ASSUME TypeOK, AckInv, UNCHANGED <<AckMode, wire, handled, direct, dropped, reader,
                                     message, writer>>,
         readMessages # <<>>, readMessages' = Tail(readMessages),
         acker' = At("deliver", Head(readMessages)), acker.pc # "exit",
         acked \subseteq acked',
         AckOwed(AckMode, wire', acked', Head(readMessages).n)
  PROVE  AckInv'
<1> DEFINE h == Head(readMessages)
<1>1. /\ h \in Message /\ h = readMessages[1] /\ 1 \in DOMAIN readMessages
      /\ \A i \in DOMAIN readMessages' :
           i + 1 \in DOMAIN readMessages /\ readMessages'[i] = readMessages[i + 1]
  BY HeadIsMessage DEF TypeOK
<1>2. QueuedTrue(AckMode, wire, acked, acker.pc, h)
  BY <1>1 DEF AckInv, QueuedInv
<1> HIDE DEF h
<1>3. MovedTrue(AckMode, wire', acked', h) /\ isAck(h)
  BY <1>2 DEF QueuedTrue, MovedTrue, h
<1>4. QueuedInv'
  BY <1>1, OwedGrows DEF AckInv, QueuedInv, TypeOK
<1>5. Carried' \subseteq Carried \cup {h} /\ acker'.msg = h
  BY DEF Carried, At, h
<1>6. MovedInv'
  <2>1. \A m \in Carried' : m = h \/ m \in Carried \cap Message
    BY <1>5 DEF Carried
  <2>2. \A m \in Carried' : MovedTrue(AckMode, wire', acked', m)
    BY <2>1, <1>3, OwedGrows DEF AckInv, MovedInv
  <2>3. QED
    BY <2>2, <1>3, <1>5 DEF MovedInv
<1>7. PastInv'
  BY OwedGrows DEF AckInv
<1>8. QED
  BY <1>4, <1>6, <1>7 DEF AckInv

(* The head is replaced by a message that differs in number and time only.  *)
LEMMA AckReplace ==
  ASSUME TypeOK, AckInv, UNCHANGED <<AckMode, wire, handled, direct, dropped, reader,
                                     message, writer>>,
         NEW h \in Message, readMessages # <<>>,
         readMessages' = <<h>> \o Tail(readMessages),
         acked \subseteq acked', QueuedTrue(AckMode, wire', acked', acker'.pc, h),
         acker.pc = "exit" => acker'.pc = "exit",
         acker'.pc = "deliver" => acker' = acker
  PROVE  AckInv'
<1>1. /\ DOMAIN readMessages' = DOMAIN readMessages
      /\ \A i \in DOMAIN readMessages :
           readMessages'[i] = h \/ readMessages'[i] = readMessages[i]
  BY ReplaceHead DEF TypeOK
<1>2. QueuedInv'
  BY <1>1, OwedGrows DEF AckInv, QueuedInv, TypeOK
<1>3. Carried' \subseteq Carried
  BY DEF Carried
<1>4. MovedInv'
  <2>1. \A m \in Carried' : m \in Carried /\ m \in Message
    BY <1>3 DEF Carried
  <2>2. QED
    BY <2>1, OwedGrows DEF AckInv, MovedInv
<1>5. PastInv'
  BY OwedGrows DEF AckInv
<1>6. QED
  BY <1>2, <1>4, <1>5 DEF AckInv

LEMMA StepAck == TypeOK /\ TypeOK' /\ Routed /\ AckInv /\ [Next]_vars => AckInv'
<1> SUFFICES ASSUME TypeOK, TypeOK', Routed, AckInv, [Next]_vars PROVE AckInv'
  OBVIOUS
<1>0. AckMode' = AckMode
  BY ModeKept
<1> USE <1>0
<1>1. ASSUME NEW f \in Frame, ReadFrame(f) PROVE AckInv'
  <2> DEFINE m == [id |-> f.id, kind |-> f.kind, seq |-> f.seq,
                   time |-> "zero", n |-> Len(wire) + 1]
  <2>1. /\ wire' = Append(wire, f) /\ wire \in Seq(Frame)
        /\ UNCHANGED <<message, acker, writer, handled, direct, dropped, acked>>
        /\ reader.pc = "read"
    BY <1>1 DEF ReadFrame, TypeOK
  <2>2. /\ m \in Message /\ m.n = Len(wire) + 1 /\ Len(wire) \in Nat
        /\ m.id = f.id /\ m.kind = f.kind /\ m.seq = f.seq
    BY <2>1, SeqAssumption DEF Frame, Message, TypeOK
  <2>3. IF isAck(m) THEN appendMsgMq(m) /\ UNCHANGED reader
        ELSE reader' = At("send", m) /\ UNCHANGED <<readMessages, readMessageSeq>>
    BY <1>1 DEF ReadFrame
  <2>10. f.kind = "data" => f.seq \in DataSeqs
    BY DEF Frame
  <2> HIDE DEF m
  <2>4. DOMAIN wire \subseteq DOMAIN wire' /\ \A k \in DOMAIN wire : wire'[k] = wire[k]
    BY <2>1
  <2>5. FaithfulIn(wire', m) /\ wire'[m.n].seq = m.seq
    BY <2>1, <2>2 DEF FaithfulIn
  <2>6. isAck(m) /\ m.kind = "data" => QueuedTrue(AckMode, wire', acked', acker'.pc, m)
    BY <2>5 DEF QueuedTrue, AckOwed
  <2>7. QueuedInv'
    <3>1. \A i \in DOMAIN readMessages' :
            \/ readMessages'[i] = m /\ isAck(m) /\ m.kind = "data"
            \/ i \in DOMAIN readMessages /\ readMessages'[i] = readMessages[i]
      <4>1. CASE UNCHANGED readMessages
        BY <4>1
      <4>2. CASE ~UNCHANGED readMessages
        <5>1. isAck(m) /\ m.kind = "data" /\ readMessages' = Append(readMessages, m)
          <6>1. isAck(m) /\ appendMsgMq(m)
            BY <2>3, <4>2
          <6>2. m.kind # "ack" /\ readMessages' = Append(readMessages, m)
            BY <6>1, <4>2 DEF appendMsgMq, RecordRepeat, Enqueue
          <6>3. m.kind \in {"data", "ack", "noack"}
            BY <2>2 DEF Message
          <6>4. QED
            BY <6>1, <6>2, <6>3
        <5>2. QED
          <6>1. readMessages \in Seq(Message)
            BY DEF TypeOK
          <6>2. \A i \in DOMAIN Append(readMessages, m) :
                  \/ Append(readMessages, m)[i] = m
                  \/ i \in DOMAIN readMessages /\ Append(readMessages, m)[i] = readMessages[i]
            BY <2>2, <6>1
          <6>3. QED
            BY <5>1, <6>2
      <4>3. QED
        BY <4>1, <4>2
    <3>2. QED
      BY <3>1, <2>1, <2>4, <2>6, OwedGrows DEF AckInv, QueuedInv, TypeOK
  <2>8. MovedInv'
    <3>1. \A x \in Carried' : x \in Carried \cap Message \/ (x = m /\ ~isAck(m))
      <4>1. CASE isAck(m)
        <5>1. UNCHANGED <<reader, message, acker, writer>>
          BY <2>1, <2>3, <4>1
        <5>2. Carried' = Carried
          BY <5>1 DEF Carried
        <5>3. QED
          BY <5>2 DEF Carried
      <4>2. CASE ~isAck(m)
        <5>1. reader' = [pc |-> "send", msg |-> m]
          BY <2>3, <4>2 DEF At
        <5>2. QED
          BY <2>1, <4>2, <5>1 DEF Carried
      <4>3. QED
        BY <4>1, <4>2
    <3>2. ~isAck(m) => MovedTrue(AckMode, wire', acked', m)
      BY <2>5 DEF MovedTrue
    <3>3. QED
      BY <3>1, <3>2, <2>1, <2>4, OwedGrows DEF AckInv, MovedInv
  <2>9. PastInv'
    BY <2>1, <2>4, OwedGrows DEF AckInv
  <2>11. QED
    BY <2>7, <2>8, <2>9 DEF AckInv
<1>2. CASE ReaderSend
  BY <1>2, AckFrame DEF ReaderSend, SendOn, Carried, Loop, At, TypeOK, ChanCap
<1>3. CASE ReadFail
  BY <1>3, AckFrame DEF ReadFail, Carried, Loop, At
<1>4. CASE CloseConn
  BY <1>4, AckFrame DEF CloseConn, connVars, Carried
<1>5. CASE AckCheck
  BY <1>5, AckFrame DEF AckCheck, Carried, Loop, At
<1>6. CASE AckIdle
  BY <1>6, AckFrame DEF AckIdle, Carried, Loop, At
<1>7. ASSUME NEW ok \in BOOLEAN, OnlyAckSend(ok) PROVE AckInv'
  <2>1. CASE ok
    BY <1>7, <2>1, AckPop DEF OnlyAckSend, Working, AckOwed
  <2>2. CASE ~ok
    BY <1>7, <2>2, AckFrame DEF OnlyAckSend, Working, Carried, Loop, At
  <2>3. QED
    BY <2>1, <2>2
<1>8. ASSUME NEW ok \in BOOLEAN, RigorFirstAck(ok) PROVE AckInv'
  <2> DEFINE h == Head(readMessages)
             numbered == [h EXCEPT !.seq = 1, !.time = "fresh"]
  <2>1. /\ readMessages # <<>> /\ h \in Message /\ h = readMessages[1]
        /\ 1 \in DOMAIN readMessages
    BY <1>8, HeadIsMessage DEF RigorFirstAck, Working, TypeOK
  <2>2. /\ AckMode = "RigorAck" /\ h.seq = 0 /\ acker.pc = "work"
        /\ readMessages' = <<numbered>> \o Tail(readMessages)
        /\ acker' = Loop(IF ok THEN "check" ELSE "exit")
        /\ acked' = IF ok THEN acked \cup {h.n} ELSE acked
        /\ UNCHANGED <<wire, handled, direct, dropped, reader, message, writer>>
    BY <1>8 DEF RigorFirstAck, Working
  <2>3. QueuedTrue(AckMode, wire, acked, acker.pc, h)
    BY <2>1 DEF AckInv, QueuedInv
  <2>4. /\ numbered \in Message /\ numbered.id = h.id /\ numbered.n = h.n
        /\ numbered.kind = h.kind /\ numbered.seq = 1
    BY <2>1 DEF Message
  <2> HIDE DEF h, numbered
  <2>5. FaithfulIn(wire, numbered)
    BY <2>2, <2>3, <2>4 DEF QueuedTrue, FaithfulIn
  <2>6. (ok => AckOwed(AckMode, wire', acked', h.n)) /\ (~ok => acker'.pc = "exit") /\ acker'.pc # "deliver"
    BY <2>2 DEF AckOwed, Loop, At
  <2>7. QueuedTrue(AckMode, wire', acked', acker'.pc, numbered)
    BY <2>2, <2>3, <2>4, <2>5, <2>6 DEF QueuedTrue
  <2>8. QED
    BY <2>1, <2>2, <2>4, <2>6, <2>7, AckReplace
<1>9. CASE RigorDeliver
  <2>1. /\ AckMode = "RigorAck" /\ readMessages # <<>> /\ Head(readMessages).seq # 0
        /\ acker.pc = "work" /\ readMessages' = Tail(readMessages)
        /\ acker' = At("deliver", Head(readMessages))
        /\ UNCHANGED <<wire, handled, direct, dropped, acked, reader, message, writer>>
    BY <1>9 DEF RigorDeliver, Working
  <2>2. QueuedTrue(AckMode, wire, acked, acker.pc, Head(readMessages))
    BY <2>1 DEF AckInv, QueuedInv, TypeOK
  <2>3. AckOwed(AckMode, wire', acked', Head(readMessages).n)
    BY <2>1, <2>2 DEF QueuedTrue, AckOwed
  <2>4. QED
    BY <2>1, <2>3, AckPop
<1>10. CASE RigorTimeout
  <2> DEFINE h == Head(readMessages)
  <2>1. /\ readMessages # <<>> /\ readMessages' = Tail(readMessages)
        /\ acker.pc = "work" /\ acker' = Loop("check")
        /\ dropped' = dropped \cup {h.n}
        /\ UNCHANGED <<wire, handled, direct, acked, reader, message, writer>>
    BY <1>10 DEF RigorTimeout, Working
  <2>2. /\ h = readMessages[1] /\ 1 \in DOMAIN readMessages
        /\ \A i \in DOMAIN readMessages' :
             i + 1 \in DOMAIN readMessages /\ readMessages'[i] = readMessages[i + 1]
    BY <2>1 DEF TypeOK
  <2>3. h.n \in DOMAIN wire
    BY <2>2 DEF AckInv, QueuedInv, QueuedTrue, FaithfulIn
  <2>4. Carried' \subseteq Carried
    BY <2>1 DEF Carried, Loop, At
  <2> HIDE DEF h
  <2>5. QED
    BY <2>1, <2>2, <2>3, <2>4, AckFrame DEF Loop, At
<1>11. CASE RigorWait
  BY <1>11, AckFrame DEF RigorWait, Working, Carried, At
<1>12. ASSUME NEW ok \in BOOLEAN, RigorResend(ok) PROVE AckInv'
  BY <1>12, AckFrame DEF RigorResend, Carried, Loop, At
<1>13. CASE AckDeliver
  BY <1>13, AckFrame DEF AckDeliver, SendOn, Carried, Loop, At, TypeOK, ChanCap
<1>14. CASE AckTimePasses
  <2> DEFINE h == Head(readMessages)
             late == [h EXCEPT !.time = "late"]
  <2>1. /\ readMessages # <<>> /\ h \in Message /\ h = readMessages[1]
        /\ 1 \in DOMAIN readMessages
        /\ readMessages' = <<late>> \o Tail(readMessages)
        /\ UNCHANGED <<wire, reader, message, acker, writer, handled, direct,
                       dropped, acked>>
    BY <1>14, HeadIsMessage DEF AckTimePasses, TypeOK
  <2>2. QueuedTrue(AckMode, wire, acked, acker.pc, h)
    BY <2>1 DEF AckInv, QueuedInv
  <2>3. /\ late \in Message /\ late.id = h.id /\ late.n = h.n
        /\ late.kind = h.kind /\ late.seq = h.seq
    BY <2>1 DEF Message
  <2> HIDE DEF h, late
  <2>4. QueuedTrue(AckMode, wire', acked', acker'.pc, late)
    BY <2>1, <2>2, <2>3 DEF QueuedTrue, FaithfulIn, AckOwed
  <2>5. QED
    BY <2>1, <2>3, <2>4, AckReplace
<1>15. CASE WriterDone
  BY <1>15, AckFrame DEF WriterDone, Carried, Loop, At
<1>16. CASE WriterReceive
  BY <1>16, AckFrame DEF WriterReceive, Carried, At, TypeOK, ChanCap
<1>17. CASE WriterHandle
  <2> DEFINE m == writer.msg
  <2>1. /\ writer.pc = "handle" /\ m \in Message /\ writer'.pc # "handle"
        /\ isAck(m) => handled' = RunHandler(handled, m) /\ direct' = direct
        /\ ~isAck(m) => direct' = RunHandler(direct, m) /\ handled' = handled
        /\ UNCHANGED <<wire, reader, readMessages, message, acker, dropped, acked>>
    BY <1>17 DEF WriterHandle, TypeOK, Loop, At
  <2>2. MovedTrue(AckMode, wire, acked, m)
    BY <2>1 DEF AckInv, MovedInv, Carried
  <2> HIDE DEF m
  <2>3. m.n \in DOMAIN wire /\ m.n \in Nat /\ (isAck(m) => AckOwed(AckMode, wire, acked, m.n))
    BY <2>1, <2>2 DEF MovedTrue, FaithfulIn, Message
  <2>4. \A h \in Seq(Nat) : \A i \in DOMAIN RunHandler(h, m) :
          RunHandler(h, m)[i] = m.n \/ (i \in DOMAIN h /\ RunHandler(h, m)[i] = h[i])
    <3> TAKE h \in Seq(Nat)
    <3>1. \A i \in DOMAIN Append(h, m.n) :
            Append(h, m.n)[i] = m.n \/ (i \in DOMAIN h /\ Append(h, m.n)[i] = h[i])
      <4>1. /\ Len(h) \in Nat /\ DOMAIN h = 1..Len(h)
            /\ DOMAIN Append(h, m.n) = 1..(Len(h) + 1)
        BY <2>3
      <4>2. \A i \in 1..Len(h) : Append(h, m.n)[i] = h[i]
        BY <2>3, AppendProperties
      <4>3. Append(h, m.n)[Len(h) + 1] = m.n
        BY <2>3, AppendProperties
      <4>4. QED
        BY <4>1, <4>2, <4>3
    <3>2. QED
      BY <3>1 DEF RunHandler
  <2>5. handled \in Seq(Nat) /\ direct \in Seq(Nat)
    BY DEF TypeOK
  <2>7. PastInv'
    <3>1. CASE isAck(m)
      BY <2>1, <2>3, <2>4, <2>5, <3>1 DEF AckInv, PastInv
    <3>2. CASE ~isAck(m)
      BY <2>1, <2>3, <2>4, <2>5, <3>2 DEF AckInv, PastInv
    <3>3. QED
      BY <3>1, <3>2
  <2>8. QueuedInv'
    BY <2>1, OwedGrows DEF AckInv, QueuedInv, TypeOK
  <2>9. MovedInv'
    <3>1. \A x \in Carried' : x \in Carried /\ x \in Message
      BY <2>1 DEF Carried
    <3>2. QED
      BY <3>1, <2>1, OwedGrows DEF AckInv, MovedInv
  <2>10. QED
    BY <2>7, <2>8, <2>9 DEF AckInv
<1>18. CASE WriterForget
  BY <1>18, AckFrame DEF WriterForget, Carried, Loop, At
<1>19. CASE UNCHANGED vars
  BY <1>19, AckFrame DEF vars, connVars, Carried
<1>20. QED
  BY <1>1, <1>2, <1>3, <1>4, <1>5, <1>6, <1>7, <1>8, <1>9, <1>10, <1>11, <1>12,
     <1>13, <1>14, <1>15, <1>16, <1>17, <1>18, <1>19
  DEF Next, Reader, Acker, Writer

LEMMA AckInvariant == Spec => []AckInv
<1>1. CopyInv => Routed
  BY DEF CopyInv
<1>2. QED
  BY <1>1, InitAck, StepAck, TypeCorrect, CopyInvariant, PTL DEF Spec

(* No handler of a queued message runs before its ack is written.           *)
THEOREM AckedFirst == Spec => []AckedBeforeHandled
<1>1. AckInv => AckedBeforeHandled
  BY DEF AckInv, PastInv, AckedBeforeHandled, AckOwed
<1>2. QED
  BY <1>1, AckInvariant, PTL

-----------------------------------------------------------------------------
(* Sequences of messages and of their numbers *)

(* The numbers of the messages in a queue.                                  *)
NumbersIn(q) == [i \in DOMAIN q |-> q[i].n]

LEMMA NumbersType ==
  ASSUME NEW S, NEW q \in Seq(Message), \A i \in DOMAIN q : q[i].n \in S
  PROVE  /\ NumbersIn(q) \in Seq(S) /\ Len(NumbersIn(q)) = Len(q)
         /\ \A i \in 1..Len(q) : NumbersIn(q)[i] = q[i].n
<1>1. Len(q) \in Nat /\ DOMAIN q = 1..Len(q)
  OBVIOUS
<1>2. NumbersIn(q) \in [1..Len(q) -> S]
  BY <1>1 DEF NumbersIn
<1>3. NumbersIn(q) \in Seq(S)
  BY <1>1, <1>2, SeqDef
<1>4. QED
  BY <1>1, <1>2, <1>3 DEF NumbersIn

LEMMA NumbersAreNat ==
  ASSUME NEW q \in Seq(Message)
  PROVE  /\ NumbersIn(q) \in Seq(Nat) /\ Len(NumbersIn(q)) = Len(q)
         /\ \A i \in 1..Len(q) : NumbersIn(q)[i] = q[i].n
<1>1. \A i \in DOMAIN q : q[i] \in Message
  OBVIOUS
<1>2. \A i \in DOMAIN q : q[i].n \in Nat
  BY <1>1 DEF Message
<1>3. QED
  BY <1>2, NumbersType

LEMMA NumbersAppend ==
  ASSUME NEW q \in Seq(Message), NEW m \in Message
  PROVE  NumbersIn(Append(q, m)) = Append(NumbersIn(q), m.n)
<1>1. Append(q, m) \in Seq(Message) /\ Len(Append(q, m)) = Len(q) + 1
  OBVIOUS
<1>2. m.n \in Nat
  BY DEF Message
<1>3. /\ NumbersIn(q) \in Seq(Nat) /\ Len(NumbersIn(q)) = Len(q)
      /\ \A i \in 1..Len(q) : NumbersIn(q)[i] = q[i].n
  BY NumbersAreNat
<1>4. /\ Append(NumbersIn(q), m.n) \in Seq(Nat)
      /\ Len(Append(NumbersIn(q), m.n)) = Len(q) + 1
      /\ \A i \in 1..(Len(q) + 1) :
           Append(NumbersIn(q), m.n)[i] = IF i = Len(q) + 1 THEN m.n ELSE q[i].n
  BY <1>2, <1>3, AppendProperties
<1>5. /\ NumbersIn(Append(q, m)) \in Seq(Nat)
      /\ Len(NumbersIn(Append(q, m))) = Len(q) + 1
      /\ \A i \in 1..(Len(q) + 1) : NumbersIn(Append(q, m))[i] = Append(q, m)[i].n
  BY <1>1, NumbersAreNat
<1>6. \A i \in 1..(Len(q) + 1) : Append(q, m)[i] = IF i = Len(q) + 1 THEN m ELSE q[i]
  OBVIOUS
<1>7. \A i \in 1..(Len(q) + 1) :
        NumbersIn(Append(q, m))[i] = Append(NumbersIn(q), m.n)[i]
  BY <1>4, <1>5, <1>6
<1>8. QED
  BY <1>4, <1>5, <1>7, SeqEqual

LEMMA NumbersTail ==
  ASSUME NEW q \in Seq(Message), q # <<>>
  PROVE  /\ NumbersIn(q) # <<>> /\ Head(NumbersIn(q)) = Head(q).n
         /\ Tail(NumbersIn(q)) = NumbersIn(Tail(q))
<1>1. /\ Tail(q) \in Seq(Message) /\ Len(Tail(q)) = Len(q) - 1 /\ Len(q) \in Nat \ {0}
      /\ \A i \in 1..(Len(q) - 1) : Tail(q)[i] = q[i + 1]
  OBVIOUS
<1>2. /\ NumbersIn(q) \in Seq(Nat) /\ Len(NumbersIn(q)) = Len(q)
      /\ \A i \in 1..Len(q) : NumbersIn(q)[i] = q[i].n
  BY NumbersAreNat
<1>3. /\ NumbersIn(Tail(q)) \in Seq(Nat) /\ Len(NumbersIn(Tail(q))) = Len(q) - 1
      /\ \A i \in 1..(Len(q) - 1) : NumbersIn(Tail(q))[i] = Tail(q)[i].n
  BY <1>1, NumbersAreNat
<1>4. NumbersIn(q) # <<>> /\ Head(NumbersIn(q)) = Head(q).n
  BY <1>1, <1>2
<1>5. /\ Tail(NumbersIn(q)) \in Seq(Nat) /\ Len(Tail(NumbersIn(q))) = Len(q) - 1
      /\ \A i \in 1..(Len(q) - 1) : Tail(NumbersIn(q))[i] = NumbersIn(q)[i + 1]
  BY <1>2, <1>4
<1>6. \A i \in 1..(Len(q) - 1) : Tail(NumbersIn(q))[i] = NumbersIn(Tail(q))[i]
  BY <1>1, <1>2, <1>3, <1>5
<1>7. QED
  BY <1>3, <1>4, <1>5, <1>6, SeqEqual

LEMMA NumbersReplace ==
  ASSUME NEW q \in Seq(Message), q # <<>>, NEW h \in Message, h.n = Head(q).n
  PROVE  NumbersIn(<<h>> \o Tail(q)) = NumbersIn(q)
<1> DEFINE r == <<h>> \o Tail(q)
<1>1. /\ r \in Seq(Message) /\ Len(r) = Len(q)
      /\ \A i \in 1..Len(q) : r[i] = IF i = 1 THEN h ELSE q[i]
  BY ReplaceHead
<1>2. Head(q) = q[1]
  OBVIOUS
<1>3. \A i \in 1..Len(q) : r[i].n = q[i].n
  BY <1>1, <1>2
<1> HIDE DEF r
<1>4. \A i \in 1..Len(q) : NumbersIn(r)[i] = NumbersIn(q)[i]
  BY <1>1, <1>3, NumbersAreNat
<1>5. NumbersIn(r) = NumbersIn(q)
  BY <1>1, <1>4, NumbersAreNat, SeqEqual
<1>6. QED
  BY <1>5 DEF r

LEMMA JoinAssociative ==
  ASSUME NEW s \in Seq(Nat), NEW h \in Seq(Nat), NEW t \in Seq(Nat)
  PROVE  (s \o h) \o t = s \o (h \o t)
BY ConcatAssociative

LEMMA SingleType ==
  ASSUME NEW S, NEW n \in S
  PROVE  <<n>> \in Seq(S) /\ <<>> \in Seq(S)
OBVIOUS

(* What is pending in four places, the oldest place first.                  *)
Join(x, y, z, q) == x \o y \o z \o q

LEMMA JoinType ==
  ASSUME NEW S, NEW x \in Seq(S), NEW y \in Seq(S), NEW z \in Seq(S), NEW q \in Seq(S)
  PROVE  Join(x, y, z, q) \in Seq(S)
<1>1. x \o y \in Seq(S)
  BY ConcatProperties
<1>2. x \o y \o z \in Seq(S)
  BY <1>1, ConcatProperties
<1>3. QED
  BY <1>2, ConcatProperties DEF Join

(* Something arrives at the youngest place.                                 *)
Arrive(q, n) == Append(q, n)
LEMMA JoinAppend ==
  ASSUME NEW x \in Seq(Nat), NEW y \in Seq(Nat), NEW z \in Seq(Nat), NEW q \in Seq(Nat),
         NEW n \in Nat
  PROVE  Join(x, y, z, Arrive(q, n)) = Arrive(Join(x, y, z, q), n)
<1>1. x \o y \o z \in Seq(Nat)
  BY ConcatProperties
<1>2. \A s \in Seq(Nat) : s \o Append(q, n) = Append(s \o q, n)
  OBVIOUS
<1>3. QED
  BY <1>1, <1>2 DEF Join, Arrive

(* What is at the oldest place is the head.                                 *)
LEMMA JoinTake ==
  ASSUME NEW n \in Nat, NEW y \in Seq(Nat), NEW z \in Seq(Nat), NEW q \in Seq(Nat)
  PROVE  /\ Join(<<n>>, y, z, q) # <<>>
         /\ Head(Join(<<n>>, y, z, q)) = n
         /\ Tail(Join(<<n>>, y, z, q)) = Join(<<>>, y, z, q)
<1> DEFINE s == y \o z \o q
<1>1. s \in Seq(Nat)
  BY ConcatProperties
<1>2. <<n>> \o y \o z \o q = <<n>> \o s
  <2> DEFINE a == <<n>>
             yz == y \o z
  <2>1. a \in Seq(Nat) /\ yz \in Seq(Nat)
    BY ConcatProperties
  <2> HIDE DEF a
  <2>2. (a \o y) \o z = a \o yz
    BY <2>1, JoinAssociative
  <2> HIDE DEF yz
  <2>3. (a \o yz) \o q = a \o (yz \o q)
    BY <2>1, JoinAssociative
  <2>4. QED
    BY <2>2, <2>3 DEF a, yz
<1>3. <<>> \o y = y
  OBVIOUS
<1> HIDE DEF s
<1>4. <<n>> \o s # <<>> /\ Head(<<n>> \o s) = n /\ Tail(<<n>> \o s) = s
  BY <1>1
<1>5. QED
  BY <1>2, <1>3, <1>4 DEF s, Join

(* What moves on to an empty place keeps its rank.                          *)
LEMMA JoinMove ==
  ASSUME NEW x \in Seq(Nat), NEW y \in Seq(Nat), NEW z \in Seq(Nat), NEW q \in Seq(Nat)
  PROVE  /\ Join(<<>>, y, z, q) = Join(y, <<>>, z, q)
         /\ Join(x, <<>>, z, q) = Join(x, z, <<>>, q)
         /\ Join(x, <<>>, <<>>, q) = Join(x, q, <<>>, <<>>)
<1>1. /\ x \o <<>> = x /\ y \o <<>> = y /\ <<>> \o y = y
      /\ x \o z \in Seq(Nat) /\ x \o q \in Seq(Nat)
  BY ConcatEmptySeq, ConcatProperties
<1>2. (x \o z) \o <<>> = x \o z /\ (x \o q) \o <<>> = x \o q
  BY <1>1, ConcatEmptySeq
<1>3. QED
  BY <1>1, <1>2 DEF Join

LEMMA JoinPass ==
  ASSUME NEW x \in Seq(Nat), NEW y \in Seq(Nat), NEW q \in Seq(Nat), q # <<>>
  PROVE  Join(x, y, <<>>, q) = Join(x, y, <<Head(q)>>, Tail(q))
<1>1. \A s, h, t \in Seq(Nat) : (s \o h) \o t = s \o (h \o t)
  BY JoinAssociative
<1>2. <<Head(q)>> \in Seq(Nat) /\ Tail(q) \in Seq(Nat) /\ <<Head(q)>> \o Tail(q) = q
  OBVIOUS
<1>3. x \o y \in Seq(Nat) /\ (x \o y) \o <<>> = x \o y
  BY ConcatProperties, ConcatEmptySeq
<1>4. ((x \o y) \o <<Head(q)>>) \o Tail(q) = (x \o y) \o (<<Head(q)>> \o Tail(q))
  BY <1>1, <1>2, <1>3
<1>5. QED
  BY <1>2, <1>3, <1>4 DEF Join

(* The head of the youngest place is taken out of the middle.               *)
LEMMA JoinDrop ==
  ASSUME NEW x \in Seq(Nat), NEW q \in Seq(Nat), q # <<>>
  PROVE  LET p == x \o q
             i == Len(x) + 1
         IN /\ i \in DOMAIN p /\ p[i] = Head(q)
            /\ SubSeq(p, 1, i - 1) \o SubSeq(p, i + 1, Len(p)) = x \o Tail(q)
<1> DEFINE p == x \o q
           i == Len(x) + 1
<1>1. /\ p \in Seq(Nat) /\ Len(p) = Len(x) + Len(q)
      /\ Len(q) \in Nat \ {0} /\ Len(x) \in Nat
  BY ConcatProperties
<1>2. i \in DOMAIN p /\ p[i] = Head(q)
  BY <1>1
<1>3. SubSeq(p, 1, i - 1) = x
  <2>1. SubSeq(p, 1, i - 1) \in Seq(Nat) /\ Len(SubSeq(p, 1, i - 1)) = Len(x)
    BY <1>1, SubSeqProperties
  <2>2. \A j \in 1..Len(x) : SubSeq(p, 1, i - 1)[j] = x[j]
    BY <1>1, SubSeqProperties
  <2>3. QED
    BY <2>1, <2>2, SeqEqual
<1>4. SubSeq(p, i + 1, Len(p)) = Tail(q)
  <2>1. \A k \in (i + 1)..Len(p) : p[k] \in Nat
    BY <1>1
  <2>2. /\ i + 1 \in Int /\ Len(p) \in Int /\ Len(p) - (i + 1) + 1 = Len(q) - 1
        /\ i + 1 > Len(p) => Len(q) - 1 = 0
    <3>1. Len(p) = Len(x) + Len(q) /\ Len(q) \in Nat /\ Len(q) # 0 /\ Len(x) \in Nat
      BY <1>1
    <3> HIDE DEF p
    <3>2. i + 1 \in Int /\ Len(p) \in Int /\ Len(p) - (i + 1) + 1 = Len(q) - 1
      BY <3>1
    <3>3. ASSUME i + 1 > Len(p) PROVE Len(q) - 1 = 0
      <4>1. Len(x) + 1 + 1 > Len(x) + Len(q)
        BY <3>1, <3>3
      <4>2. \A a, b \in Nat : b # 0 /\ a + 1 + 1 > a + b => b = 1
        OBVIOUS
      <4>3. Len(q) = 1
        BY <3>1, <4>1, <4>2
      <4>4. QED
        BY <4>3
    <3>4. QED
      BY <3>2, <3>3
  <2>3. ASSUME NEW k \in 1..(Len(q) - 1) PROVE p[i + 1 + k - 1] = q[k + 1]
    <3>1. Len(x) + k + 1 \in 1..(Len(x) + Len(q)) /\ i + 1 + k - 1 = Len(x) + k + 1
      BY <1>1
    <3>2. p[Len(x) + k + 1] = q[k + 1]
      BY <1>1, <3>1
    <3>3. QED
      BY <3>1, <3>2
  <2>4. /\ Tail(q) \in Seq(Nat) /\ Len(Tail(q)) = Len(q) - 1
        /\ \A k \in 1..(Len(q) - 1) : Tail(q)[k] = q[k + 1]
    BY <1>1
  <2> HIDE DEF p, i
  <2>5. /\ SubSeq(p, i + 1, Len(p)) \in Seq(Nat)
        /\ Len(SubSeq(p, i + 1, Len(p))) = Len(q) - 1
        /\ \A k \in 1..(Len(q) - 1) : SubSeq(p, i + 1, Len(p))[k] = p[i + 1 + k - 1]
    <3> DEFINE a == i + 1
               b == Len(p)
    <3>1. /\ a \in Int /\ b \in Int /\ b - a + 1 = Len(q) - 1
          /\ \A k \in a..b : p[k] \in Nat
          /\ a <= b \/ Len(q) - 1 = 0
      BY <2>1, <2>2
    <3> HIDE DEF a, b
    <3>2. /\ SubSeq(p, a, b) \in Seq(Nat)
          /\ Len(SubSeq(p, a, b)) = IF a <= b THEN b - a + 1 ELSE 0
          /\ \A k \in 1..(b - a + 1) : SubSeq(p, a, b)[k] = p[a + k - 1]
      BY <3>1, SubSeqProperties
    <3>3. QED
      BY <3>1, <3>2 DEF a, b
  <2>6. QED
    BY <2>3, <2>4, <2>5, SeqEqual
<1>5. QED
  BY <1>2, <1>3, <1>4

(* Three places are four of which one is empty.                             *)
LEMMA JoinThree ==
  ASSUME NEW S, NEW x \in Seq(S), NEW y \in Seq(S), NEW z \in Seq(S)
  PROVE  x \o y \o z = Join(x, y, <<>>, z)
<1>1. x \o y \in Seq(S)
  BY ConcatProperties
<1>2. (x \o y) \o <<>> = x \o y
  BY <1>1, ConcatEmptySeq
<1>3. QED
  BY <1>2 DEF Join

-----------------------------------------------------------------------------
(* Unhandled, place by place, from the oldest message to the youngest.      *)
InWriter == IF writer.pc = "handle" /\ isAck(writer.msg) THEN <<writer.msg.n>> ELSE <<>>
InChan == IF message # <<>> /\ isAck(message[1]) THEN <<message[1].n>> ELSE <<>>
InAcker == IF acker.pc = "deliver" THEN <<acker.msg.n>> ELSE <<>>

(* Unhandled is the four places' messages, oldest first.                    *)
LEMMA UnhandledIs ==
  /\ Unhandled = Join(InWriter, InChan, InAcker, NumbersIn(readMessages))
  /\ Unhandled' = Join(InWriter', InChan', InAcker', NumbersIn(readMessages'))
BY DEF Unhandled, Join, InWriter, InChan, InAcker, NumbersIn, Holds, MsgAt

(* Every number there is the place of a frame on the wire.                  *)
LEMMA UnhandledType ==
  ASSUME TypeOK, AckInv
  PROVE  /\ \A s \in {InWriter, InChan, InAcker, NumbersIn(readMessages)} : s \in Seq(Nat)
         /\ Unhandled \in Seq(DOMAIN wire) /\ Unhandled \in Seq(Nat)
<1>1. DOMAIN wire \subseteq Nat
  BY DEF TypeOK
<1>2. \A m \in Carried : m.n \in DOMAIN wire
  BY DEF AckInv, MovedInv, MovedTrue, FaithfulIn
<1>3. InWriter \in Seq(DOMAIN wire)
  <2>1. writer.pc = "handle" => writer.msg \in Carried
    BY DEF Carried, TypeOK
  <2>2. QED
    BY <1>2, <2>1, SingleType, EmptySeq DEF InWriter
<1>4. InChan \in Seq(DOMAIN wire)
  <2>1. message # <<>> => message[1] \in Carried
    BY DEF Carried, TypeOK
  <2>2. QED
    BY <1>2, <2>1, SingleType, EmptySeq DEF InChan
<1>5. InAcker \in Seq(DOMAIN wire)
  <2>1. acker.pc = "deliver" => acker.msg \in Carried
    BY DEF Carried, TypeOK
  <2>2. QED
    BY <1>2, <2>1, SingleType, EmptySeq DEF InAcker
<1>6. NumbersIn(readMessages) \in Seq(DOMAIN wire)
  <2>1. \A i \in DOMAIN readMessages : readMessages[i].n \in DOMAIN wire
    BY DEF AckInv, QueuedInv, QueuedTrue, FaithfulIn
  <2>2. QED
    BY <2>1, NumbersType DEF TypeOK
<1>7. Unhandled \in Seq(DOMAIN wire)
  BY <1>3, <1>4, <1>5, <1>6, UnhandledIs, JoinType
<1>8. QED
  BY <1>1, <1>3, <1>4, <1>5, <1>6, <1>7, SeqMonotonic

LEMMA InboxStutter ==
  ASSUME UNCHANGED <<InWriter, InChan, InAcker, handled, dropped>>,
         NumbersIn(readMessages') = NumbersIn(readMessages)
  PROVE  UNCHANGED Inbox!inboxVars
BY UnhandledIs DEF Inbox!inboxVars

(* The head passes from the queue to readAck's hand: nothing happened.      *)
LEMMA InboxPass ==
  ASSUME TypeOK, AckInv, UNCHANGED <<AckMode, message, writer, handled, dropped>>,
         readMessages # <<>>, readMessages' = Tail(readMessages),
         acker.pc = "work", acker' = At("deliver", Head(readMessages))
  PROVE  UNCHANGED Inbox!inboxVars
<1>1. InWriter' = InWriter /\ InChan' = InChan
  BY DEF InWriter, InChan
<1>2. InAcker = <<>> /\ InAcker' = <<Head(readMessages).n>>
  BY DEF InAcker, At
<1>3. readMessages \in Seq(Message)
  BY DEF TypeOK
<1>4. /\ NumbersIn(readMessages) # <<>>
      /\ Head(NumbersIn(readMessages)) = Head(readMessages).n
      /\ NumbersIn(readMessages') = Tail(NumbersIn(readMessages))
  BY <1>3, NumbersTail
<1>5. InWriter \in Seq(Nat) /\ InChan \in Seq(Nat) /\ NumbersIn(readMessages) \in Seq(Nat)
  BY UnhandledType
<1>6. Unhandled' = Unhandled
  <2>1. Unhandled = Join(InWriter, InChan, <<>>, NumbersIn(readMessages))
    BY <1>2, UnhandledIs
  <2>2. Unhandled' = Join(InWriter, InChan, <<Head(NumbersIn(readMessages))>>,
                          Tail(NumbersIn(readMessages)))
    BY <1>1, <1>2, <1>4, UnhandledIs
  <2>3. QED
    BY <1>4, <1>5, <2>1, <2>2, JoinPass
<1>7. QED
  BY <1>6 DEF Inbox!inboxVars

(* Reading a new message is Accept, running its handler Take and the        *)
(* timeout GiveUp; every other step leaves the joined list as it is.        *)
LEMMA InboxStep ==
  TypeOK /\ TypeOK' /\ Routed /\ AckInv /\ [Next]_vars => [Inbox!Next]_(Inbox!inboxVars)
<1> SUFFICES ASSUME TypeOK, TypeOK', Routed, AckInv, [Next]_vars
             PROVE  [Inbox!Next]_(Inbox!inboxVars)
  OBVIOUS
<1>0. AckMode' = AckMode
  BY ModeKept
<1> USE <1>0
<1>1. ASSUME NEW f \in Frame, ReadFrame(f) PROVE [Inbox!Next]_(Inbox!inboxVars)
  <2> DEFINE m == [id |-> f.id, kind |-> f.kind, seq |-> f.seq,
                   time |-> "zero", n |-> Len(wire) + 1]
  <2>1. UNCHANGED <<message, acker, writer, handled, dropped>>
    BY <1>1 DEF ReadFrame
  <2>2. m \in Message /\ m.n = Len(wire) + 1 /\ Len(wire) \in Nat
    BY SeqAssumption DEF Frame, Message, TypeOK
  <2>3. UNCHANGED <<InWriter, InChan, InAcker>>
    BY <2>1 DEF InWriter, InChan, InAcker
  <2>4. UNCHANGED readMessages \/ readMessages' = Append(readMessages, m)
    <3>1. IF isAck(m) THEN appendMsgMq(m) ELSE UNCHANGED readMessages
      BY <1>1 DEF ReadFrame
    <3> HIDE DEF m
    <3>2. QED
      BY <3>1 DEF appendMsgMq, RecordRepeat, Enqueue
  <2> HIDE DEF m
  <2>5. CASE UNCHANGED readMessages
    BY <2>1, <2>3, <2>5, InboxStutter
  <2>6. CASE readMessages' = Append(readMessages, m)
    <3>1. NumbersIn(readMessages') = Append(NumbersIn(readMessages), m.n)
      BY <2>2, <2>6, NumbersAppend DEF TypeOK
    <3>2. Unhandled' = Append(Unhandled, m.n)
      <4>1. /\ InWriter \in Seq(Nat) /\ InChan \in Seq(Nat) /\ InAcker \in Seq(Nat)
            /\ NumbersIn(readMessages) \in Seq(Nat) /\ m.n \in Nat
        BY <2>2, UnhandledType
      <4>2. QED
        <5>1. Unhandled' = Join(InWriter, InChan, InAcker,
                                Arrive(NumbersIn(readMessages), m.n))
          BY <2>3, <3>1, UnhandledIs DEF Arrive
        <5>2. Unhandled = Join(InWriter, InChan, InAcker, NumbersIn(readMessages))
          BY UnhandledIs
        <5>3. Unhandled' = Arrive(Unhandled, m.n)
          BY <4>1, <5>1, <5>2, JoinAppend
        <5>4. QED
          BY <5>3 DEF Arrive
    <3>3. /\ Unhandled \in Seq(Nat) /\ Unhandled' # <<>>
          /\ Unhandled'[Len(Unhandled')] = m.n
      <4>1. Unhandled \in Seq(Nat) /\ m.n \in Nat
        BY <2>2, UnhandledType
      <4>2. QED
        BY <3>2, <4>1, AppendProperties
    <3>4. \A n \in Inbox!Numbers(Unhandled) \cup Inbox!Numbers(handled) \cup dropped : n < m.n
      <4>1. \A n \in DOMAIN wire : n < m.n
        BY <2>2 DEF TypeOK
      <4>2. \A i \in DOMAIN Unhandled : Unhandled[i] \in DOMAIN wire
        BY UnhandledType
      <4>3. \A i \in DOMAIN handled : handled[i] \in DOMAIN wire
        BY DEF AckInv, PastInv
      <4>4. dropped \subseteq DOMAIN wire
        BY DEF AckInv, PastInv
      <4>5. QED
        BY <4>1, <4>2, <4>3, <4>4 DEF Inbox!Numbers
    <3>5. Inbox!Accept
      BY <2>1, <3>2, <3>3, <3>4 DEF Inbox!Accept
    <3>6. QED
      BY <3>5 DEF Inbox!Next
  <2>7. QED
    BY <2>4, <2>5, <2>6
<1>2. CASE ReaderSend
  <2>1. /\ message = <<>> /\ message' = <<reader.msg>> /\ ~isAck(reader.msg)
        /\ UNCHANGED <<readMessages, acker, writer, handled, dropped>>
    <3>1. message = <<>> /\ message' = Append(message, reader.msg) /\ reader.pc = "send"
      BY <1>2 DEF ReaderSend, SendOn, TypeOK, ChanCap
    <3>2. QED
      BY <1>2, <3>1 DEF ReaderSend, Routed
  <2>2. UNCHANGED <<InWriter, InChan, InAcker>>
    BY <2>1 DEF InWriter, InChan, InAcker
  <2>3. QED
    BY <2>1, <2>2, InboxStutter
<1>3. CASE ReadFail
  BY <1>3, InboxStutter DEF ReadFail, InWriter, InChan, InAcker
<1>4. CASE CloseConn
  BY <1>4, InboxStutter DEF CloseConn, connVars, InWriter, InChan, InAcker
<1>5. CASE AckCheck
  BY <1>5, InboxStutter DEF AckCheck, InWriter, InChan, InAcker, Loop, At
<1>6. CASE AckIdle
  BY <1>6, InboxStutter DEF AckIdle, InWriter, InChan, InAcker, Loop, At
<1>7. ASSUME NEW ok \in BOOLEAN, OnlyAckSend(ok) PROVE [Inbox!Next]_(Inbox!inboxVars)
  <2>1. CASE ok
    BY <1>7, <2>1, InboxPass DEF OnlyAckSend, Working
  <2>2. CASE ~ok
    BY <1>7, <2>2, InboxStutter DEF OnlyAckSend, Working, InWriter, InChan, InAcker, Loop, At
  <2>3. QED
    BY <2>1, <2>2
<1>8. ASSUME NEW ok \in BOOLEAN, RigorFirstAck(ok) PROVE [Inbox!Next]_(Inbox!inboxVars)
  <2> DEFINE h == [Head(readMessages) EXCEPT !.seq = 1, !.time = "fresh"]
  <2>1. /\ readMessages # <<>> /\ readMessages' = <<h>> \o Tail(readMessages)
        /\ acker.pc = "work" /\ acker'.pc # "deliver"
        /\ UNCHANGED <<message, writer, handled, dropped>>
    BY <1>8 DEF RigorFirstAck, Working, Loop, At
  <2>2. h \in Message /\ h.n = Head(readMessages).n
    BY <2>1, HeadIsMessage DEF Message
  <2> HIDE DEF h
  <2>3. NumbersIn(readMessages') = NumbersIn(readMessages)
    BY <2>1, <2>2, NumbersReplace DEF TypeOK
  <2>4. UNCHANGED <<InWriter, InChan, InAcker>>
    BY <2>1 DEF InWriter, InChan, InAcker
  <2>5. QED
    BY <2>1, <2>3, <2>4, InboxStutter
<1>9. CASE RigorDeliver
  BY <1>9, InboxPass DEF RigorDeliver, Working
<1>10. CASE RigorTimeout
  <2> DEFINE x == InWriter \o InChan \o InAcker
             q == NumbersIn(readMessages)
             i == Len(x) + 1
  <2>1. /\ readMessages # <<>> /\ readMessages' = Tail(readMessages)
        /\ acker.pc = "work" /\ acker'.pc = "check"
        /\ dropped' = dropped \cup {Head(readMessages).n}
        /\ UNCHANGED <<message, writer, handled>>
    BY <1>10 DEF RigorTimeout, Working, Loop, At
  <2>2. UNCHANGED <<InWriter, InChan, InAcker>>
    BY <2>1 DEF InWriter, InChan, InAcker
  <2>3. /\ q # <<>> /\ Head(q) = Head(readMessages).n
        /\ NumbersIn(readMessages') = Tail(q)
    BY <2>1, NumbersTail DEF TypeOK
  <2>4. x \in Seq(Nat) /\ q \in Seq(Nat)
    BY UnhandledType, ConcatProperties
  <2>5. Unhandled = x \o q /\ Unhandled' = x \o Tail(q)
    BY <2>2, <2>3, UnhandledIs DEF Join
  <2> HIDE DEF x, q
  <2>6. /\ i \in DOMAIN Unhandled /\ Unhandled[i] = Head(q)
        /\ Unhandled' = SubSeq(Unhandled, 1, i - 1)
                          \o SubSeq(Unhandled, i + 1, Len(Unhandled))
    BY <2>3, <2>4, <2>5, JoinDrop
  <2> HIDE DEF i
  <2>7. Inbox!GiveUp
    BY <2>1, <2>3, <2>6 DEF Inbox!GiveUp
  <2>8. QED
    BY <2>7 DEF Inbox!Next
<1>11. CASE RigorWait
  BY <1>11, InboxStutter DEF RigorWait, Working, InWriter, InChan, InAcker, At
<1>12. ASSUME NEW ok \in BOOLEAN, RigorResend(ok) PROVE [Inbox!Next]_(Inbox!inboxVars)
  BY <1>12, InboxStutter DEF RigorResend, InWriter, InChan, InAcker, Loop, At
<1>13. CASE AckDeliver
  <2>1. /\ message = <<>> /\ message' = <<acker.msg>> /\ isAck(acker.msg)
        /\ acker.pc = "deliver" /\ acker'.pc = "check"
        /\ UNCHANGED <<readMessages, writer, handled, dropped>>
    <3>1. message = <<>> /\ message' = Append(message, acker.msg) /\ acker.pc = "deliver"
      BY <1>13 DEF AckDeliver, SendOn, TypeOK, ChanCap
    <3>2. QED
      BY <1>13, <3>1 DEF AckDeliver, Loop, At, AckInv, MovedInv
  <2>2. /\ InWriter' = InWriter /\ InChan = <<>> /\ InChan' = InAcker /\ InAcker' = <<>>
    BY <2>1 DEF InWriter, InChan, InAcker
  <2>3. InWriter \in Seq(Nat) /\ InAcker \in Seq(Nat)
    BY UnhandledType
  <2>4. NumbersIn(readMessages) \in Seq(Nat)
    BY UnhandledType
  <2>5. Unhandled' = Unhandled
    BY <2>1, <2>2, <2>3, <2>4, UnhandledIs, JoinMove
  <2>6. QED
    BY <2>1, <2>5 DEF Inbox!inboxVars
<1>14. CASE AckTimePasses
  <2> DEFINE h == [Head(readMessages) EXCEPT !.time = "late"]
  <2>1. /\ readMessages # <<>> /\ readMessages' = <<h>> \o Tail(readMessages)
        /\ UNCHANGED <<message, acker, writer, handled, dropped>>
    BY <1>14 DEF AckTimePasses
  <2>2. h \in Message /\ h.n = Head(readMessages).n
    BY <2>1, HeadIsMessage DEF Message
  <2> HIDE DEF h
  <2>3. NumbersIn(readMessages') = NumbersIn(readMessages)
    BY <2>1, <2>2, NumbersReplace DEF TypeOK
  <2>4. UNCHANGED <<InWriter, InChan, InAcker>>
    BY <2>1 DEF InWriter, InChan, InAcker
  <2>5. QED
    BY <2>1, <2>3, <2>4, InboxStutter
<1>15. CASE WriterDone
  BY <1>15, InboxStutter DEF WriterDone, InWriter, InChan, InAcker, Loop, At
<1>16. CASE WriterReceive
  <2>1. /\ message # <<>> /\ message' = <<>> /\ writer' = At("handle", message[1])
        /\ writer.pc = "select"
        /\ UNCHANGED <<readMessages, acker, handled, dropped>>
    BY <1>16 DEF WriterReceive, TypeOK, ChanCap
  <2>2. /\ InWriter = <<>> /\ InWriter' = InChan /\ InChan' = <<>> /\ InAcker' = InAcker
    BY <2>1 DEF InWriter, InChan, InAcker, At
  <2>3. /\ InChan \in Seq(Nat) /\ InAcker \in Seq(Nat)
        /\ NumbersIn(readMessages) \in Seq(Nat)
    BY UnhandledType
  <2>4. Unhandled' = Unhandled
    BY <2>1, <2>2, <2>3, UnhandledIs, JoinMove
  <2>6. QED
    BY <2>1, <2>4 DEF Inbox!inboxVars
<1>17. CASE WriterHandle
  <2> DEFINE m == writer.msg
  <2>1. /\ writer.pc = "handle" /\ m \in Message /\ writer'.pc # "handle"
        /\ isAck(m) => handled' = RunHandler(handled, m)
        /\ ~isAck(m) => handled' = handled
        /\ UNCHANGED <<readMessages, message, acker, dropped>>
    BY <1>17 DEF WriterHandle, TypeOK, Loop, At
  <2>2. InChan' = InChan /\ InAcker' = InAcker /\ InWriter' = <<>>
    BY <2>1 DEF InWriter, InChan, InAcker
  <2>3. CASE isAck(m)
    <3>1. InWriter = <<m.n>>
      BY <2>1, <2>3 DEF InWriter
    <3>2. handled' = Append(handled, m.n) /\ m.n \in Nat
      BY <2>1, <2>3 DEF AckInv, MovedInv, Carried, MovedTrue, RunHandler, Message
    <3> HIDE DEF m
    <3>3. /\ Unhandled # <<>> /\ Head(Unhandled) = m.n
          /\ Unhandled' = Tail(Unhandled)
      <4>1. /\ InChan \in Seq(Nat) /\ InAcker \in Seq(Nat)
            /\ NumbersIn(readMessages) \in Seq(Nat)
        BY UnhandledType
      <4>2. QED
        <5> DEFINE n == m.n
        <5>1. n \in Nat
          BY <3>2
        <5>2. /\ Unhandled = Join(<<n>>, InChan, InAcker, NumbersIn(readMessages))
              /\ Unhandled' = Join(<<>>, InChan, InAcker, NumbersIn(readMessages))
          BY <2>1, <2>2, <3>1, UnhandledIs
        <5> HIDE DEF n
        <5>3. QED
          BY <4>1, <5>1, <5>2, JoinTake DEF n
    <3>4. Inbox!Take
      BY <2>1, <3>2, <3>3 DEF Inbox!Take
    <3>5. QED
      BY <3>4 DEF Inbox!Next
  <2>4. CASE ~isAck(m)
    <3>1. InWriter = <<>>
      BY <2>4 DEF InWriter
    <3>2. QED
      BY <2>1, <2>2, <2>4, <3>1, InboxStutter
  <2>5. QED
    BY <2>3, <2>4
<1>18. CASE WriterForget
  BY <1>18, InboxStutter DEF WriterForget, InWriter, InChan, InAcker, Loop, At
<1>19. CASE UNCHANGED vars
  BY <1>19, InboxStutter DEF vars, connVars, InWriter, InChan, InAcker
<1>20. QED
  BY <1>1, <1>2, <1>3, <1>4, <1>5, <1>6, <1>7, <1>8, <1>9, <1>10, <1>11, <1>12,
     <1>13, <1>14, <1>15, <1>16, <1>17, <1>18, <1>19
  DEF Next, Reader, Acker, Writer

(* The refinement: with the queue, readAck's hand, the channel of one and   *)
(* handlerWrite's hand read as one list, the connection is the in-order,    *)
(* at-most-once inbox of AckInbox, for every set of ids and any number of   *)
(* frames.                                                                  *)
THEOREM QueueIsInbox == Spec => InboxSpec
<1>1. Init => Inbox!Init
  <2> SUFFICES ASSUME Init PROVE Inbox!Init
    OBVIOUS
  <2>1. InWriter = <<>> /\ InChan = <<>> /\ InAcker = <<>> /\ NumbersIn(readMessages) = <<>>
    BY DEF Init, InWriter, InChan, InAcker, NumbersIn, Loop, At
  <2>2. Unhandled = <<>>
    BY <2>1, UnhandledIs DEF Join
  <2>3. QED
    BY <2>2 DEF Init, Inbox!Init
<1>2. CopyInv => Routed
  BY DEF CopyInv
<1>3. QED
  BY <1>1, <1>2, InboxStep, TypeCorrect, CopyInvariant, AckInvariant, PTL
  DEF Spec, InboxSpec, Inbox!Spec

-----------------------------------------------------------------------------
(* Direct, place by place.                                                  *)
Bypasses(mode, m) == ~(mode # "NoAck" /\ m.kind # "noack") /\ m.kind # "ack"
FromWriter ==
  IF writer.pc = "handle" /\ Bypasses(AckMode, writer.msg) THEN <<writer.msg.n>> ELSE <<>>
FromChan ==
  IF message # <<>> /\ Bypasses(AckMode, message[1]) THEN <<message[1].n>> ELSE <<>>
FromReader ==
  IF reader.pc = "send" /\ Bypasses(AckMode, reader.msg) THEN <<reader.msg.n>> ELSE <<>>

(* Direct is the three places' messages, oldest first.                      *)
LEMMA DirectIs ==
  /\ Direct = Join(FromWriter, FromChan, <<>>, FromReader)
  /\ Direct' = Join(FromWriter', FromChan', <<>>, FromReader')
<1> DEFINE S == {writer.msg.n, message[1].n, reader.msg.n}
<1>1. /\ Direct = FromWriter \o FromChan \o FromReader
      /\ Direct' = FromWriter' \o FromChan' \o FromReader'
  BY DEF Direct, FromWriter, FromChan, FromReader, Bypasses
<1>2. FromWriter \in Seq(S) /\ FromChan \in Seq(S) /\ FromReader \in Seq(S)
  BY SingleType DEF FromWriter, FromChan, FromReader
<1>3. FromWriter' \in Seq(S') /\ FromChan' \in Seq(S') /\ FromReader' \in Seq(S')
  BY SingleType DEF FromWriter, FromChan, FromReader
<1> HIDE DEF S
<1>4. QED
  BY <1>1, <1>2, <1>3, JoinThree

LEMMA DirectType ==
  ASSUME TypeOK, AckInv
  PROVE  /\ FromWriter \in Seq(Nat) /\ FromChan \in Seq(Nat) /\ FromReader \in Seq(Nat)
         /\ Direct \in Seq(DOMAIN wire) /\ Direct \in Seq(Nat)
<1>1. DOMAIN wire \subseteq Nat
  BY DEF TypeOK
<1>2. \A m \in Carried : m.n \in DOMAIN wire
  BY DEF AckInv, MovedInv, MovedTrue, FaithfulIn
<1>3. FromWriter \in Seq(DOMAIN wire)
  <2>1. writer.pc = "handle" => writer.msg \in Carried
    BY DEF Carried, TypeOK
  <2>2. QED
    BY <1>2, <2>1, SingleType, EmptySeq DEF FromWriter
<1>4. FromChan \in Seq(DOMAIN wire)
  <2>1. message # <<>> => message[1] \in Carried
    BY DEF Carried, TypeOK
  <2>2. QED
    BY <1>2, <2>1, SingleType, EmptySeq DEF FromChan
<1>5. FromReader \in Seq(DOMAIN wire)
  <2>1. reader.pc = "send" => reader.msg \in Carried
    BY DEF Carried, TypeOK
  <2>2. QED
    BY <1>2, <2>1, SingleType, EmptySeq DEF FromReader
<1>6. Direct \in Seq(DOMAIN wire)
  BY <1>3, <1>4, <1>5, EmptySeq, DirectIs, JoinType
<1>7. QED
  BY <1>1, <1>3, <1>4, <1>5, <1>6, SeqMonotonic

LEMMA DirectStutter ==
  ASSUME UNCHANGED <<FromWriter, FromChan, FromReader, direct>>
  PROVE  UNCHANGED DirectInbox!inboxVars
BY DirectIs DEF DirectInbox!inboxVars

(* Reading a message that bypasses the queue is Accept, its handler Take.   *)
LEMMA DirectStep ==
  TypeOK /\ TypeOK' /\ AckInv /\ [Next]_vars => [DirectInbox!Next]_(DirectInbox!inboxVars)
<1> SUFFICES ASSUME TypeOK, TypeOK', AckInv, [Next]_vars
             PROVE  [DirectInbox!Next]_(DirectInbox!inboxVars)
  OBVIOUS
<1>0. AckMode' = AckMode
  BY ModeKept
<1> USE <1>0
<1>1. ASSUME NEW f \in Frame, ReadFrame(f)
      PROVE  [DirectInbox!Next]_(DirectInbox!inboxVars)
  <2> DEFINE m == [id |-> f.id, kind |-> f.kind, seq |-> f.seq,
                   time |-> "zero", n |-> Len(wire) + 1]
  <2>1. UNCHANGED <<message, writer, direct>> /\ reader.pc = "read"
    BY <1>1 DEF ReadFrame
  <2>2. m \in Message /\ m.n = Len(wire) + 1 /\ Len(wire) \in Nat
    BY SeqAssumption DEF Frame, Message, TypeOK
  <2>3. FromWriter' = FromWriter /\ FromChan' = FromChan /\ FromReader = <<>>
    BY <2>1 DEF FromWriter, FromChan, FromReader
  <2>4. /\ isAck(m) => reader' = reader
        /\ ~isAck(m) => reader' = At("send", m)
    BY <1>1 DEF ReadFrame
  <2> HIDE DEF m
  <2>5. CASE ~Bypasses(AckMode, m)
    <3>1. FromReader' = <<>>
      BY <2>1, <2>4, <2>5 DEF FromReader, At, Bypasses
    <3>2. QED
      BY <2>1, <2>3, <3>1, DirectStutter
  <2>6. CASE Bypasses(AckMode, m)
    <3>1. FromReader' = <<m.n>>
      BY <2>4, <2>6 DEF FromReader, At, Bypasses
    <3>2. Direct' = Append(Direct, m.n)
      <4>1. FromWriter \in Seq(Nat) /\ FromChan \in Seq(Nat) /\ <<>> \in Seq(Nat)
            /\ m.n \in Nat
        BY <2>2, DirectType, EmptySeq
      <4>2. Direct' = Join(FromWriter, FromChan, <<>>, Arrive(<<>>, m.n))
        BY <2>3, <3>1, DirectIs DEF Arrive
      <4>3. Direct = Join(FromWriter, FromChan, <<>>, <<>>)
        BY <2>3, DirectIs
      <4>4. Direct' = Arrive(Direct, m.n)
        <5> DEFINE n == m.n
                   e == <<>>
        <5>1. n \in Nat /\ e \in Seq(Nat)
          BY <4>1
        <5> HIDE DEF n, e
        <5>2. Join(FromWriter, FromChan, e, Arrive(e, n))
                = Arrive(Join(FromWriter, FromChan, e, e), n)
          BY <4>1, <5>1, JoinAppend
        <5>3. QED
          BY <4>2, <4>3, <5>2 DEF n, e
      <4>5. QED
        BY <4>4 DEF Arrive
    <3>3. /\ Direct \in Seq(Nat) /\ Direct' # <<>>
          /\ Direct'[Len(Direct')] = m.n
      <4>1. Direct \in Seq(Nat) /\ m.n \in Nat
        BY <2>2, DirectType
      <4>2. QED
        BY <3>2, <4>1, AppendProperties
    <3>4. \A n \in DirectInbox!Numbers(Direct) \cup DirectInbox!Numbers(direct) \cup {} :
            n < m.n
      <4>1. \A n \in DOMAIN wire : n < m.n
        BY <2>2 DEF TypeOK
      <4>2. \A i \in DOMAIN Direct : Direct[i] \in DOMAIN wire
        BY DirectType
      <4>3. \A i \in DOMAIN direct : direct[i] \in DOMAIN wire
        BY DEF AckInv, PastInv
      <4>4. QED
        BY <4>1, <4>2, <4>3 DEF DirectInbox!Numbers
    <3>5. DirectInbox!Accept
      BY <2>1, <3>2, <3>3, <3>4 DEF DirectInbox!Accept
    <3>6. QED
      BY <3>5 DEF DirectInbox!Next
  <2>7. QED
    BY <2>5, <2>6
<1>2. CASE ReaderSend
  <2>1. /\ message = <<>> /\ message' = <<reader.msg>>
        /\ reader.pc = "send" /\ reader'.pc = "read"
        /\ UNCHANGED <<writer, direct>>
    <3>1. message = <<>> /\ message' = Append(message, reader.msg)
      BY <1>2 DEF ReaderSend, SendOn, TypeOK, ChanCap
    <3>2. QED
      BY <1>2, <3>1 DEF ReaderSend, Loop, At
  <2>2. /\ FromWriter' = FromWriter /\ FromChan = <<>>
        /\ FromChan' = FromReader /\ FromReader' = <<>>
    BY <2>1 DEF FromWriter, FromChan, FromReader
  <2>3. FromWriter \in Seq(Nat) /\ FromReader \in Seq(Nat) /\ <<>> \in Seq(Nat)
    BY DirectType, EmptySeq
  <2>4. Direct' = Direct
    BY <2>2, <2>3, DirectIs, JoinMove
  <2>5. QED
    BY <2>1, <2>4 DEF DirectInbox!inboxVars
<1>3. CASE ReadFail
  BY <1>3, DirectStutter DEF ReadFail, FromWriter, FromChan, FromReader, Loop, At
<1>4. CASE CloseConn
  BY <1>4, DirectStutter DEF CloseConn, connVars, FromWriter, FromChan, FromReader
<1>5. CASE AckCheck
  BY <1>5, DirectStutter DEF AckCheck, FromWriter, FromChan, FromReader
<1>6. CASE AckIdle
  BY <1>6, DirectStutter DEF AckIdle, FromWriter, FromChan, FromReader
<1>7. ASSUME NEW ok \in BOOLEAN, OnlyAckSend(ok)
      PROVE  [DirectInbox!Next]_(DirectInbox!inboxVars)
  BY <1>7, DirectStutter DEF OnlyAckSend, FromWriter, FromChan, FromReader
<1>8. ASSUME NEW ok \in BOOLEAN, RigorFirstAck(ok)
      PROVE  [DirectInbox!Next]_(DirectInbox!inboxVars)
  BY <1>8, DirectStutter DEF RigorFirstAck, FromWriter, FromChan, FromReader
<1>9. CASE RigorDeliver
  BY <1>9, DirectStutter DEF RigorDeliver, FromWriter, FromChan, FromReader
<1>10. CASE RigorTimeout
  BY <1>10, DirectStutter DEF RigorTimeout, FromWriter, FromChan, FromReader
<1>11. CASE RigorWait
  BY <1>11, DirectStutter DEF RigorWait, FromWriter, FromChan, FromReader
<1>12. ASSUME NEW ok \in BOOLEAN, RigorResend(ok)
       PROVE  [DirectInbox!Next]_(DirectInbox!inboxVars)
  BY <1>12, DirectStutter DEF RigorResend, FromWriter, FromChan, FromReader
<1>13. CASE AckDeliver
  <2>1. /\ message = <<>> /\ message' = <<acker.msg>> /\ isAck(acker.msg)
        /\ UNCHANGED <<reader, writer, direct>>
    <3>1. message = <<>> /\ message' = Append(message, acker.msg)
      BY <1>13 DEF AckDeliver, SendOn, TypeOK, ChanCap
    <3>2. QED
      BY <1>13, <3>1 DEF AckDeliver, AckInv, MovedInv
  <2>2. UNCHANGED <<FromWriter, FromChan, FromReader>>
    BY <2>1 DEF FromWriter, FromChan, FromReader, Bypasses
  <2>3. QED
    BY <2>1, <2>2, DirectStutter
<1>14. CASE AckTimePasses
  BY <1>14, DirectStutter DEF AckTimePasses, FromWriter, FromChan, FromReader
<1>15. CASE WriterDone
  BY <1>15, DirectStutter DEF WriterDone, FromWriter, FromChan, FromReader, Loop, At
<1>16. CASE WriterReceive
  <2>1. /\ message # <<>> /\ message' = <<>> /\ writer' = At("handle", message[1])
        /\ writer.pc = "select"
        /\ UNCHANGED <<reader, direct>>
    BY <1>16 DEF WriterReceive, TypeOK, ChanCap
  <2>2. /\ FromWriter = <<>> /\ FromWriter' = FromChan /\ FromChan' = <<>>
        /\ FromReader' = FromReader
    BY <2>1 DEF FromWriter, FromChan, FromReader, At
  <2>3. FromChan \in Seq(Nat) /\ FromReader \in Seq(Nat) /\ <<>> \in Seq(Nat)
    BY DirectType, EmptySeq
  <2>4. Direct' = Direct
    BY <2>2, <2>3, DirectIs, JoinMove
  <2>5. QED
    BY <2>1, <2>4 DEF DirectInbox!inboxVars
<1>17. CASE WriterHandle
  <2> DEFINE m == writer.msg
  <2>1. /\ writer.pc = "handle" /\ m \in Message /\ writer'.pc # "handle"
        /\ isAck(m) => direct' = direct
        /\ ~isAck(m) => direct' = RunHandler(direct, m)
        /\ UNCHANGED <<message, reader>>
    BY <1>17 DEF WriterHandle, TypeOK, Loop, At
  <2>2. FromChan' = FromChan /\ FromReader' = FromReader /\ FromWriter' = <<>>
    BY <2>1 DEF FromWriter, FromChan, FromReader
  <2>3. CASE Bypasses(AckMode, m)
    <3>1. FromWriter = <<m.n>>
      BY <2>1, <2>3 DEF FromWriter
    <3>2. direct' = Append(direct, m.n) /\ m.n \in Nat
      BY <2>1, <2>3 DEF Bypasses, RunHandler, Message
    <3>3. /\ Direct # <<>> /\ Head(Direct) = m.n /\ Direct' = Tail(Direct)
      <4> DEFINE n == m.n
      <4>1. n \in Nat
        BY <3>2
      <4>2. /\ Direct = Join(<<n>>, FromChan, <<>>, FromReader)
            /\ Direct' = Join(<<>>, FromChan, <<>>, FromReader)
        BY <2>2, <3>1, DirectIs
      <4>3. FromChan \in Seq(Nat) /\ FromReader \in Seq(Nat) /\ <<>> \in Seq(Nat)
        BY DirectType, EmptySeq
      <4> HIDE DEF n
      <4>4. QED
        BY <4>1, <4>2, <4>3, JoinTake DEF n
    <3>4. DirectInbox!Take
      BY <3>2, <3>3 DEF DirectInbox!Take
    <3>5. QED
      BY <3>4 DEF DirectInbox!Next
  <2>4. CASE ~Bypasses(AckMode, m)
    <3>1. FromWriter = <<>> /\ direct' = direct
      BY <2>1, <2>4 DEF FromWriter, Bypasses, RunHandler
    <3>2. QED
      BY <2>2, <3>1, DirectStutter
  <2>5. QED
    BY <2>3, <2>4
<1>18. CASE WriterForget
  BY <1>18, DirectStutter DEF WriterForget, FromWriter, FromChan, FromReader, Loop, At
<1>19. CASE UNCHANGED vars
  BY <1>19, DirectStutter DEF vars, connVars, FromWriter, FromChan, FromReader
<1>20. QED
  BY <1>1, <1>2, <1>3, <1>4, <1>5, <1>6, <1>7, <1>8, <1>9, <1>10, <1>11, <1>12,
     <1>13, <1>14, <1>15, <1>16, <1>17, <1>18, <1>19
  DEF Next, Reader, Acker, Writer

(* The same for the messages that bypass the queue, all of them in the      *)
(* NoAck mode: and none of these is ever given up.                          *)
THEOREM BypassIsInbox == Spec => DirectSpec
<1>1. Init => DirectInbox!Init
  <2> SUFFICES ASSUME Init PROVE DirectInbox!Init
    OBVIOUS
  <2>1. FromWriter = <<>> /\ FromChan = <<>> /\ FromReader = <<>>
    BY DEF Init, FromWriter, FromChan, FromReader, Loop, At
  <2>2. Direct = <<>>
    BY <2>1, DirectIs DEF Join
  <2>3. QED
    BY <2>2 DEF Init, DirectInbox!Init
<1>2. QED
  BY <1>1, DirectStep, TypeCorrect, AckInvariant, PTL
  DEF Spec, DirectSpec, DirectInbox!Spec
=============================================================================
