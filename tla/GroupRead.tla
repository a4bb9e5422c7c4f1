------------------------------ MODULE GroupRead ------------------------------
(***************************************************************************)
(* Read receipts in the task MQ, from the point where Consume has updated  *)
(* the chat logs: a receipt of a single chat goes to the channel push at   *)
(* once, those of a group conversation are merged by a groupMsgRead, whose *)
(* goroutine sends the merged push when it holds enough of them or waited  *)
(* long enough.  One goroutine, MsgReadTransfer.transfer, takes the pushes *)
(* from the channel, forwards them to the websocket server, and releases   *)
(* the groupMsgRead of a conversation that has become idle.                *)
(*                                                                         *)
(* Two kinds of mutex matter: MsgReadTransfer.mu (mu below) and the one of *)
(* each groupMsgRead, which Consume takes while it holds the first, and    *)
(* which isIdle and clear, called by MsgReadTransfer.transfer, do not take. *)
(* The model is of GroupMsgReadHandlerDelayTransfer, the deployed mode.    *)
(***************************************************************************)
EXTENDS Integers, Sequences, FiniteSets

CONSTANTS
  Procs,       \* the goroutines of the queue that call Consume
  Convs,       \* ids of conversations
  NoConv,      \* the empty id
  DelayCount,  \* GroupMsgReadRecordDelayCount
  MaxJobs      \* bound: how many read marks are consumed

ASSUME NoConvAssumption == NoConv \notin Convs
ASSUME BoundsAssumption == DelayCount \in Nat \ {0} /\ MaxJobs \in Nat

VARIABLES
  consumed,   \* how many read marks were consumed; each is named by its number
  proc,       \* Consume in each goroutine: [pc, push]
  mu,         \* the goroutine that holds MsgReadTransfer.mu, or {} if none
  groupMses,  \* conversation -> its groupMsgRead, as a place in groups, or 0
  groups,     \* every groupMsgRead ever made, with the state of its goroutine
  push,       \* the channel MsgReadTransfer.push
  sender,     \* MsgReadTransfer.transfer: [pc, push]
  crashed,    \* a panic that nobody recovers ended the process
  delivered,  \* history: how often each receipt was forwarded
  failed      \* history: receipts whose forwarding failed

vars == <<consumed, proc, mu, groupMses, groups, push, sender, crashed, delivered, failed>>

Jobs == 1..MaxJobs
ChanCap == 1   \* make(chan *ws.Push, 1)

(* A ws.Push; its ReadRecords are the receipts it stands for, none when the *)
(* read mark named no message that exists.                                  *)
Push == [chat: {"single", "group"}, conv: Convs \cup {NoConv}, receipts: SUBSET Jobs]
NoPush == [chat |-> "none", conv |-> NoConv, receipts |-> {}]
(* What an idle groupMsgRead sends: its ConversationId is left empty.       *)
Sentinel == [chat |-> "group", conv |-> NoConv, receipts |-> {}]

(* A groupMsgRead.  age is time.Since(pushTime) against the delay and twice *)
(* the delay.  Its goroutine holds the mutex across steps in two places.    *)
Group == [conv: Convs, push: Push \cup {NoPush}, count: Nat,
          age: {"young", "delay", "idle"}, done: BOOLEAN,
          pc: {"select", "flushing", "send", "exitSend", "exit"},
          out: Push \cup {NoPush}]
Locked(g) == groups[g].pc \in {"flushing", "exitSend"}

Init ==
  /\ consumed = 0
  /\ proc = [p \in Procs |-> [pc |-> "idle", push |-> NoPush]]
  /\ mu = {}
  /\ groupMses = [c \in Convs |-> 0]
  /\ groups = <<>>
  /\ push = <<>>
  /\ sender = [pc |-> "recv", push |-> NoPush]
  /\ crashed = FALSE
  /\ delivered = [n \in Jobs |-> 0] /\ failed = {}

(* Sending on the channel blocks while it is full.                          *)
(* Mutant: it never blocks.                                                 *)
SendUnbounded(p) == push' = Append(push, p)
SendOn(p) == Len(push) < ChanCap /\ push' = Append(push, p)

-----------------------------------------------------------------------------
(* Consume *)

(* A read mark is taken from the queue and its push is built.               *)
Consume(p, chat, conv, found) ==
  /\ ~crashed /\ proc[p].pc = "idle" /\ consumed < MaxJobs
  /\ consumed' = consumed + 1
  /\ proc' = [proc EXCEPT ![p] =
       [pc |-> IF chat = "single" THEN "send" ELSE "lock",
        push |-> [chat |-> chat, conv |-> conv,
                  receipts |-> IF found THEN {consumed + 1} ELSE {}]]]
  /\ UNCHANGED <<mu, groupMses, groups, push, sender, crashed, delivered, failed>>

Return(p) == proc' = [proc EXCEPT ![p] = [pc |-> "idle", push |-> NoPush]]

(* Single chat: m.push <- push.                                             *)
ConsumeSend(p) ==
  /\ ~crashed /\ proc[p].pc = "send"
  /\ SendOn(proc[p].push)
  /\ Return(p)
  /\ UNCHANGED <<consumed, mu, groupMses, groups, sender, crashed, delivered, failed>>

(* Group chat: m.mu.Lock().                                                 *)
ConsumeLock(p) ==
  /\ ~crashed /\ proc[p].pc = "lock" /\ mu = {}
  /\ mu' = {p}
  /\ proc' = [proc EXCEPT ![p].pc = "merge"]
  /\ UNCHANGED <<consumed, groupMses, groups, push, sender, crashed, delivered, failed>>

(* mergePush under its own lock.  After a flush m.push is nil, and writing  *)
(* into its ReadRecords panics, unless there is nothing to write.           *)
(* Mutant: the count is raised and the records are left behind.             *)
CountOnly(grp, in) == [grp EXCEPT !.count = @ + 1]
Merged(grp, in) ==
  IF grp.push = NoPush THEN [grp EXCEPT !.count = @ + 1]
  ELSE [grp EXCEPT !.count = @ + 1, !.push.receipts = @ \cup in.receipts]

MergePush(p) ==
  LET in == proc[p].push
      g == groupMses[in.conv]
  IN /\ ~crashed /\ proc[p].pc = "merge" /\ g # 0
     /\ ~Locked(g)
     /\ IF groups[g].push = NoPush /\ in.receipts # {}
        THEN /\ crashed' = TRUE
             /\ UNCHANGED <<proc, mu, groups>>
        ELSE /\ groups' = [groups EXCEPT ![g] = Merged(@, in)]
             /\ mu' = {}
             /\ Return(p)
             /\ UNCHANGED crashed
     /\ UNCHANGED <<consumed, groupMses, push, sender, delivered, failed>>

(* newGroupMsgRead: the first receipt of a conversation.                    *)
(* Mutant: the conversation is not looked up.                               *)
NewGroupAlways(p) ==
  LET in == proc[p].push
  IN /\ ~crashed /\ proc[p].pc = "merge"
     /\ groups' = Append(groups,
          [conv |-> in.conv, push |-> in, count |-> 1, age |-> "young",
           done |-> FALSE, pc |-> "select", out |-> NoPush])
     /\ groupMses' = [groupMses EXCEPT ![in.conv] = Len(groups) + 1]
     /\ mu' = {}
     /\ Return(p)
     /\ UNCHANGED <<consumed, push, sender, crashed, delivered, failed>>
NewGroup(p) ==
  LET in == proc[p].push
  IN /\ ~crashed /\ proc[p].pc = "merge" /\ groupMses[in.conv] = 0
     /\ groups' = Append(groups,
          [conv |-> in.conv, push |-> in, count |-> 1, age |-> "young",
           done |-> FALSE, pc |-> "select", out |-> NoPush])
     /\ groupMses' = [groupMses EXCEPT ![in.conv] = Len(groups) + 1]
     /\ mu' = {}
     /\ Return(p)
     /\ UNCHANGED <<consumed, push, sender, crashed, delivered, failed>>

-----------------------------------------------------------------------------
(* groupMsgRead.transfer *)

(* A tick with enough receipts, or late enough: the push is taken out under *)
(* the lock; pushTime is set two assignments later.                         *)
(* Mutants: only the number of receipts counts; the push is not taken out.  *)
FlushOnCount(g) ==
  LET grp == groups[g]
  IN /\ ~crashed /\ grp.pc = "select" /\ grp.push # NoPush
     /\ grp.count >= DelayCount
     /\ groups' = [groups EXCEPT ![g] = [grp EXCEPT !.pc = "flushing", !.out = grp.push,
                                           !.push = NoPush, !.count = 0]]
     /\ UNCHANGED <<consumed, proc, mu, groupMses, push, sender, crashed, delivered, failed>>
FlushKeep(g) ==
  LET grp == groups[g]
  IN /\ ~crashed /\ grp.pc = "select" /\ grp.push # NoPush
     /\ grp.count >= DelayCount \/ grp.age # "young"
     /\ groups' = [groups EXCEPT ![g] = [grp EXCEPT !.pc = "flushing", !.out = grp.push,
                                           !.count = 0]]
     /\ UNCHANGED <<consumed, proc, mu, groupMses, push, sender, crashed, delivered, failed>>
Flush(g) ==
  LET grp == groups[g]
  IN /\ ~crashed /\ grp.pc = "select" /\ grp.push # NoPush
     /\ grp.count >= DelayCount \/ grp.age # "young"
     /\ groups' = [groups EXCEPT ![g] = [grp EXCEPT !.pc = "flushing", !.out = grp.push,
                                           !.push = NoPush, !.count = 0]]
     /\ UNCHANGED <<consumed, proc, mu, groupMses, push, sender, crashed, delivered, failed>>

FlushStamp(g) ==
  /\ ~crashed /\ groups[g].pc = "flushing"
  /\ groups' = [groups EXCEPT ![g].age = "young", ![g].pc = "send"]
  /\ UNCHANGED <<consumed, proc, mu, groupMses, push, sender, crashed, delivered, failed>>

isIdle(grp) == grp.age = "idle" /\ grp.push = NoPush /\ grp.count = 0

(* A tick of an idle groupMsgRead, meant to have it released.               *)
IdleTick(g) ==
  /\ ~crashed /\ groups[g].pc = "select" /\ isIdle(groups[g])
  /\ groups' = [groups EXCEPT ![g].pc = "send", ![g].out = Sentinel]
  /\ UNCHANGED <<consumed, proc, mu, groupMses, push, sender, crashed, delivered, failed>>

(* done is closed: what is left would be sent with the lock held.  Nothing  *)
(* is left, since only an idle groupMsgRead is released.                    *)
GroupExit(g) ==
  LET grp == groups[g]
  IN /\ ~crashed /\ grp.pc = "select" /\ grp.done
     /\ groups' = [groups EXCEPT ![g] =
          [grp EXCEPT !.pc = IF grp.push # NoPush THEN "exitSend" ELSE "exit",
                      !.out = grp.push, !.push = NoPush]]
     /\ UNCHANGED <<consumed, proc, mu, groupMses, push, sender, crashed, delivered, failed>>

(* m.pushCh <- push.                                                        *)
GroupSend(g) ==
  LET grp == groups[g]
  IN /\ ~crashed /\ grp.pc \in {"send", "exitSend"}
     /\ SendOn(grp.out)
     /\ groups' = [groups EXCEPT ![g] =
          [grp EXCEPT !.pc = IF grp.pc = "send" THEN "select" ELSE "exit", !.out = NoPush]]
     /\ UNCHANGED <<consumed, proc, mu, groupMses, sender, crashed, delivered, failed>>

(* The delay, then twice the delay, passes since pushTime.                  *)
TimePasses(g) ==
  LET grp == groups[g]
  IN /\ ~crashed /\ grp.pc # "exit" /\ grp.age # "idle"
     /\ groups' = [groups EXCEPT ![g].age = IF grp.age = "young" THEN "delay" ELSE "idle"]
     /\ UNCHANGED <<consumed, proc, mu, groupMses, push, sender, crashed, delivered, failed>>

-----------------------------------------------------------------------------
(* MsgReadTransfer.transfer *)

Receive ==
  /\ ~crashed /\ sender.pc = "recv" /\ push # <<>>
  /\ sender' = [pc |-> "transfer", push |-> Head(push)]
  /\ push' = Tail(push)
  /\ UNCHANGED <<consumed, proc, mu, groupMses, groups, crashed, delivered, failed>>

(* Transfer: an error is logged, nothing is tried again.  A single chat     *)
(* needs no release.                                                        *)
Transfer(ok) ==
  LET out == sender.push
  IN /\ ~crashed /\ sender.pc = "transfer"
     /\ delivered' = [n \in Jobs |-> IF ok /\ n \in out.receipts
                                     THEN delivered[n] + 1 ELSE delivered[n]]
     /\ failed' = IF ok THEN failed ELSE failed \cup out.receipts
     /\ sender' = IF out.chat = "single" THEN [pc |-> "recv", push |-> NoPush]
                  ELSE [pc |-> "release", push |-> [out EXCEPT !.receipts = {}]]
     /\ UNCHANGED <<consumed, proc, mu, groupMses, groups, push, crashed>>

(* Under m.mu, without the lock of the groupMsgRead: release it if idle.    *)
Release ==
  LET conv == sender.push.conv
  IN /\ ~crashed /\ sender.pc = "release" /\ mu = {}
     /\ IF conv \in Convs /\ groupMses[conv] # 0 /\ isIdle(groups[groupMses[conv]])
        THEN /\ groups' = [groups EXCEPT ![groupMses[conv]].done = TRUE,
                                         ![groupMses[conv]].push = NoPush]
             /\ groupMses' = [groupMses EXCEPT ![conv] = 0]
        ELSE UNCHANGED <<groups, groupMses>>
     /\ sender' = [pc |-> "recv", push |-> NoPush]
     /\ UNCHANGED <<consumed, proc, mu, push, crashed, delivered, failed>>

-----------------------------------------------------------------------------
Consumer(p) ==
  \/ \E chat \in {"single", "group"}, conv \in Convs, found \in BOOLEAN :
       Consume(p, chat, conv, found)
  \/ ConsumeSend(p) \/ ConsumeLock(p) \/ MergePush(p) \/ NewGroup(p)

Merger(g) == \/ Flush(g) \/ FlushStamp(g) \/ IdleTick(g) \/ GroupExit(g)
             \/ GroupSend(g)

Sender == Receive \/ (\E ok \in BOOLEAN : Transfer(ok)) \/ Release

Next == \/ \E p \in Procs : Consumer(p)
        \/ \E g \in DOMAIN groups : Merger(g) \/ TimePasses(g)
        \/ Sender

Spec == Init /\ [][Next]_vars

(* The goroutines run, tickers tick and time passes.  A Go channel serves   *)
(* its blocked senders, and a mutex those who wait for it, in turn: a send  *)
(* or a lock that is possible again and again happens.                      *)
Fairness ==
  /\ \A p \in Procs : /\ SF_vars(ConsumeSend(p)) /\ SF_vars(ConsumeLock(p))
                      /\ SF_vars(MergePush(p)) /\ WF_vars(NewGroup(p))
  /\ \A g \in Jobs : LET Here(A) == g \in DOMAIN groups /\ A
                     IN /\ WF_vars(Here(Flush(g))) /\ WF_vars(Here(FlushStamp(g)))
                        /\ WF_vars(Here(IdleTick(g))) /\ WF_vars(Here(GroupExit(g)))
                        /\ SF_vars(Here(GroupSend(g))) /\ WF_vars(Here(TimePasses(g)))
  /\ WF_vars(Sender) /\ SF_vars(Release)

FairSpec == Spec /\ Fairness

-----------------------------------------------------------------------------
(* Properties *)

(* TypeOK: the variables keep their shape; the channel holds one push.      *)
TypeOK ==
  /\ consumed \in 0..MaxJobs
  /\ proc \in [Procs -> [pc: {"idle", "send", "lock", "merge"}, push: Push \cup {NoPush}]]
  /\ mu \subseteq Procs
  /\ groups \in Seq(Group)
  /\ groupMses \in [Convs -> 0..Len(groups)]
  /\ push \in Seq(Push) /\ Len(push) <= ChanCap
  /\ sender \in [pc: {"recv", "transfer", "release"}, push: Push \cup {NoPush}]
  /\ crashed \in BOOLEAN
  /\ delivered \in [Jobs -> Nat] /\ failed \subseteq Jobs

(* Every place that can hold a push.                                        *)
Holders == [at: {"proc"}, i: Procs] \cup [at: {"group", "out"}, i: DOMAIN groups]
             \cup [at: {"chan"}, i: DOMAIN push] \cup [at: {"sender"}, i: {0}]
PushIn(h) == CASE h.at = "proc"   -> proc[h.i].push
               [] h.at = "group"  -> groups[h.i].push
               [] h.at = "out"    -> groups[h.i].out
               [] h.at = "chan"   -> push[h.i]
               [] h.at = "sender" -> sender.push
Holding(n) == {h \in Holders : n \in PushIn(h).receipts}

(* InOnePlace: a receipt is in one place only, from Consume to the          *)
(* forwarding of the push that carries it, and forwarded at most once:      *)
(* merging, flushing at the same time as a release, and the exit of a       *)
(* released goroutine neither lose nor double it.  Only a read mark whose   *)
(* messages do not exist has no receipt.                                    *)
InOnePlace ==
  \A n \in Jobs :
    Cardinality(Holding(n)) + delivered[n] + (IF n \in failed THEN 1 ELSE 0) <= 1

(* NothingLost: a receipt somebody holds stays held until it was forwarded, *)
(* or its forwarding failed, or the process died.                           *)
NothingLost ==
  [][\A n \in Jobs : Holding(n) # {} =>
       \/ Holding(n)' # {} \/ delivered'[n] > delivered[n] \/ n \in failed']_vars

(* OrphansAreEmpty: a groupMsgRead that the map no longer knows holds no    *)
(* receipts to merge, so that none waits in a goroutine nobody adds to; a   *)
(* conversation has at most one that does.                                  *)
OrphansAreEmpty ==
  \A g \in DOMAIN groups :
    groups[g].push # NoPush => groupMses[groups[g].conv] = g /\ ~groups[g].done

(* EventuallyForwarded: a receipt is forwarded, fails to be, or the process *)
(* dies; the two mutexes and the channel of one never leave Consume, the    *)
(* merging goroutine and transfer waiting for each other.                   *)
EventuallyForwarded ==
  \A n \in Jobs : Holding(n) # {} ~> delivered[n] > 0 \/ n \in failed \/ crashed

-----------------------------------------------------------------------------
(* What comments and documents say of this code, and the code does not do.  *)

(* PushIsNotFatal: "pushing the read receipt: not a fatal error, a failure  *)
(* does not affect ..." (msgReadTransfer.go:86).                            *)
PushIsNotFatal == ~crashed

=============================================================================
