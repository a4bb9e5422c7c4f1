--------------------------- MODULE GroupRead_proof ---------------------------
(***************************************************************************)
(* Proofs about GroupRead, for any consumers, conversations, delays and    *)
(* number of read marks, and, at the end, about JobRetry.                  *)
(***************************************************************************)
EXTENDS MCGroupRead, SequenceTheorems, FiniteSetTheorems, TLAPS

(* A goroutine has a push in hand exactly while it is about to hand it on.  *)
ProcOK(x) ==
  /\ x.pc = "idle" => x.push = NoPush
  /\ x.pc # "idle" => x.push \in Push
  /\ x.pc \in {"lock", "merge"} => x.push.conv \in Convs
GroupOK(x) ==
  /\ x.pc \in {"select", "exit"} => x.out = NoPush
  /\ x.pc \in {"flushing", "send", "exitSend"} => x.out \in Push
SenderOK ==
  /\ sender.pc = "recv" => sender.push = NoPush
  /\ sender.pc # "recv" => sender.push \in Push
  /\ sender.pc = "release" => sender.push.receipts = {}

ProcRec == [pc: {"idle", "send", "lock", "merge"}, push: Push \cup {NoPush}]

TypeInv ==
  /\ TypeOK /\ SenderOK
  /\ \A p \in Procs : ProcOK(proc[p])
  /\ \A g \in DOMAIN groups : GroupOK(groups[g])

(* Two pushes that are not in hand: none and the sentinel.                  *)
LEMMA Pushes ==
  /\ NoPush \notin Push /\ NoPush.receipts = {}
  /\ Sentinel \in Push /\ Sentinel.receipts = {} /\ Sentinel.conv = NoConv
  /\ \A x \in Push : x.receipts \subseteq Jobs
BY DEF NoPush, Push, Sentinel, Jobs

(* The groupMsgReads are at the places 1 to Len(groups).                    *)
LEMMA GroupsAt ==
  ASSUME TypeOK
  PROVE  /\ Len(groups) \in Nat /\ DOMAIN groups = 1..Len(groups)
         /\ \A g \in DOMAIN groups : groups[g] \in Group /\ g \in Nat \ {0}
         /\ \A c \in Convs : groupMses[c] = 0 \/ groupMses[c] \in DOMAIN groups
<1>1. Len(groups) \in Nat /\ DOMAIN groups = 1..Len(groups) /\ \A g \in DOMAIN groups : groups[g] \in Group
  BY DEF TypeOK
<1>2. \A c \in Convs : groupMses[c] \in 0..Len(groups)
  BY DEF TypeOK
<1> QED
  BY <1>1, <1>2

(* One groupMsgRead changes.                                                *)
LEMMA GroupStep ==
  ASSUME TypeInv, NEW g \in DOMAIN groups, NEW x \in Group, GroupOK(x),
         groups' = [groups EXCEPT ![g] = x]
  PROVE  /\ groups' \in Seq(Group) /\ Len(groups') = Len(groups) /\ DOMAIN groups' = DOMAIN groups
         /\ \A h \in DOMAIN groups : groups'[h] = IF h = g THEN x ELSE groups[h]
         /\ \A h \in DOMAIN groups' : GroupOK(groups'[h])
<1>1. groups \in Seq(Group)
  BY DEF TypeInv, TypeOK
<1>2. groups' \in Seq(Group) /\ Len(groups') = Len(groups) /\ DOMAIN groups' = DOMAIN groups
  BY <1>1, ExceptSeq
<1>3. \A h \in DOMAIN groups : groups'[h] = IF h = g THEN x ELSE groups[h]
  BY <1>1
<1> QED
  BY <1>2, <1>3 DEF TypeInv

(* One groupMsgRead is added.                                               *)
LEMMA GroupAdded ==
  ASSUME TypeInv, NEW x \in Group, GroupOK(x), groups' = Append(groups, x)
  PROVE  /\ groups' \in Seq(Group) /\ Len(groups') = Len(groups) + 1
         /\ DOMAIN groups' = DOMAIN groups \cup {Len(groups) + 1}
         /\ Len(groups) + 1 \notin DOMAIN groups
         /\ groups'[Len(groups) + 1] = x
         /\ \A h \in DOMAIN groups : groups'[h] = groups[h]
         /\ \A h \in DOMAIN groups' : GroupOK(groups'[h])
<1>1. groups \in Seq(Group)
  BY DEF TypeInv, TypeOK
<1>2. /\ groups' \in Seq(Group) /\ Len(groups') = Len(groups) + 1
      /\ \A i \in 1..Len(groups) : groups'[i] = groups[i]
      /\ groups'[Len(groups) + 1] = x
  BY <1>1, AppendProperties
<1>3. /\ Len(groups) \in Nat /\ DOMAIN groups = 1..Len(groups)
      /\ DOMAIN groups' = 1..(Len(groups) + 1)
  BY <1>1, <1>2, LenProperties
<1> QED
  BY <1>2, <1>3 DEF TypeInv

(* One consumer changes.                                                    *)
LEMMA ProcStep ==
  ASSUME TypeInv, NEW p \in Procs, NEW x \in ProcRec, ProcOK(x), proc' = [proc EXCEPT ![p] = x]
  PROVE  /\ proc' \in [Procs -> ProcRec]
         /\ \A q \in Procs : proc'[q] = IF q = p THEN x ELSE proc[q]
         /\ \A q \in Procs : ProcOK(proc'[q])
BY DEF TypeInv, TypeOK, ProcRec

(* A consumer that returns has no push.                                     *)
LEMMA ReturnStep ==
  ASSUME TypeInv, NEW p \in Procs, Return(p)
  PROVE  /\ proc' \in [Procs -> ProcRec] /\ proc'[p].push = NoPush
         /\ \A q \in Procs \ {p} : proc'[q] = proc[q]
         /\ \A q \in Procs : ProcOK(proc'[q])
<1> DEFINE x == [pc |-> "idle", push |-> NoPush]
<1>1. x \in ProcRec /\ ProcOK(x) /\ x.push = NoPush
  BY DEF ProcRec, ProcOK
<1>2. proc' = [proc EXCEPT ![p] = x]
  BY DEF Return
<1> HIDE DEF x
<1> QED
  BY <1>1, <1>2, ProcStep

(* What is sent is the only push in the channel.                            *)
LEMMA SendStep ==
  ASSUME TypeInv, NEW x \in Push, SendOn(x)
  PROVE  push = <<>> /\ push' = <<x>> /\ push' \in Seq(Push) /\ Len(push') <= ChanCap
<1>1. push \in Seq(Push) /\ Len(push) \in Nat /\ Len(push) < 1
  BY DEF TypeInv, TypeOK, SendOn, ChanCap
<1>2. push = <<>>
  BY <1>1, EmptySeq
<1>3. push' = <<x>>
  BY <1>2 DEF SendOn
<1> QED
  BY <1>2, <1>3 DEF ChanCap

-----------------------------------------------------------------------------

(* The variables that a step of a consumer or a merger leaves alone.        *)
LEMMA TypeStep == TypeInv /\ [Next]_vars => TypeInv'
<1> SUFFICES ASSUME TypeInv, [Next]_vars PROVE TypeInv'
  OBVIOUS
<1> USE BoundsAssumption
<1> DEFINE ProcsOK == proc \in [Procs -> ProcRec] /\ \A q \in Procs : ProcOK(proc[q])
           GroupsOK == groups \in Seq(Group) /\ \A h \in DOMAIN groups : GroupOK(groups[h])
           MapOK == groupMses \in [Convs -> 0..Len(groups)]
           ChanOK == push \in Seq(Push) /\ Len(push) <= ChanCap
           SendingOK == sender \in [pc: {"recv", "transfer", "release"}, push: Push \cup {NoPush}] /\ SenderOK
           RestOK == /\ consumed \in 0..MaxJobs /\ mu \subseteq Procs /\ crashed \in BOOLEAN
                     /\ delivered \in [Jobs -> Nat] /\ failed \subseteq Jobs
<1>a. ProcsOK /\ GroupsOK /\ MapOK /\ ChanOK /\ SendingOK /\ RestOK
  BY DEF TypeInv, TypeOK, ProcRec
<1>b. ProcsOK' /\ GroupsOK' /\ MapOK' /\ ChanOK' /\ SendingOK' /\ RestOK' => TypeInv'
  BY DEF TypeInv, TypeOK, ProcRec
<1>c. UNCHANGED proc => ProcsOK'
  BY <1>a
<1>d. UNCHANGED groups => GroupsOK'
  BY <1>a
<1>e. UNCHANGED <<groups, groupMses>> => MapOK'
  BY <1>a
<1>f. UNCHANGED push => ChanOK'
  BY <1>a
<1>g. UNCHANGED sender => SendingOK'
  BY <1>a DEF SenderOK
<1>h. UNCHANGED <<consumed, mu, crashed, delivered, failed>> => RestOK'
  BY <1>a
<1>i. ASSUME NEW g \in DOMAIN groups, NEW x \in Group, GroupOK(x), groups' = [groups EXCEPT ![g] = x]
      PROVE  GroupsOK' /\ Len(groups') = Len(groups)
  BY <1>i, GroupStep
<1> HIDE DEF ProcsOK, GroupsOK, MapOK, ChanOK, SendingOK, RestOK
<1>1. ASSUME NEW p \in Procs, NEW chat \in {"single", "group"}, NEW conv \in Convs, NEW found \in BOOLEAN,
             Consume(p, chat, conv, found) PROVE TypeInv'
  <2> DEFINE in == [chat |-> chat, conv |-> conv, receipts |-> IF found THEN {consumed + 1} ELSE {}]
             x == [pc |-> IF chat = "single" THEN "send" ELSE "lock", push |-> in]
  <2>1. consumed + 1 \in Jobs /\ consumed' \in 0..MaxJobs
    BY <1>1, <1>a DEF Consume, Jobs, RestOK
  <2>2. in \in Push /\ in.conv \in Convs
    BY <2>1 DEF Push
  <2> HIDE DEF in
  <2>3. x \in ProcRec /\ ProcOK(x)
    BY <2>2 DEF ProcRec, ProcOK
  <2>4. proc' = [proc EXCEPT ![p] = x]
    BY <1>1 DEF Consume, in
  <2> HIDE DEF x
  <2>5. ProcsOK'
    BY <2>3, <2>4, ProcStep DEF ProcsOK
  <2>6. RestOK'
    BY <1>1, <1>a, <2>1 DEF RestOK, Consume
  <2> QED
    BY <1>1, <1>b, <1>d, <1>e, <1>f, <1>g, <2>5, <2>6 DEF Consume
<1>2. ASSUME NEW p \in Procs, ConsumeSend(p) PROVE TypeInv'
  <2>1. proc[p].push \in Push
    BY <1>2 DEF ConsumeSend, TypeInv, ProcOK
  <2>2. ProcsOK' /\ ChanOK'
    BY <1>2, <2>1, ReturnStep, SendStep DEF ConsumeSend, ProcsOK, ChanOK
  <2> QED
    BY <1>2, <1>b, <1>d, <1>e, <1>g, <1>h, <2>2 DEF ConsumeSend
<1>3. ASSUME NEW p \in Procs, ConsumeLock(p) PROVE TypeInv'
  <2> DEFINE x == [proc[p] EXCEPT !.pc = "merge"]
  <2>1. x \in ProcRec /\ ProcOK(x)
    BY <1>3 DEF ConsumeLock, TypeInv, TypeOK, ProcRec, ProcOK
  <2>2. proc' = [proc EXCEPT ![p] = x]
    BY <1>3 DEF ConsumeLock
  <2> HIDE DEF x
  <2>3. ProcsOK'
    BY <2>1, <2>2, ProcStep DEF ProcsOK
  <2>4. RestOK'
    BY <1>3, <1>a DEF RestOK, ConsumeLock
  <2> QED
    BY <1>3, <1>b, <1>d, <1>e, <1>f, <1>g, <2>3, <2>4 DEF ConsumeLock
<1>4. ASSUME NEW p \in Procs, MergePush(p) PROVE TypeInv'
  <2> DEFINE in == proc[p].push
             g == groupMses[in.conv]
  <2>1. in \in Push /\ in.conv \in Convs
    BY <1>4 DEF MergePush, TypeInv, ProcOK
  <2>2. g \in DOMAIN groups /\ groups[g] \in Group
    BY <1>4, <2>1, GroupsAt DEF MergePush, TypeInv
  <2>3. CASE UNCHANGED <<proc, mu, groups>> /\ crashed' = TRUE
    <3>1. RestOK'
      BY <1>4, <1>a, <2>3 DEF RestOK, MergePush
    <3> QED
      BY <1>4, <1>b, <1>c, <1>d, <1>e, <1>f, <1>g, <2>3, <3>1 DEF MergePush
  <2>4. CASE groups' = [groups EXCEPT ![g] = Merged(@, in)] /\ mu' = {} /\ Return(p) /\ UNCHANGED crashed
    <3> DEFINE x == Merged(groups[g], in)
    <3>1. x \in Group /\ GroupOK(x)
      <4>1. GroupOK(groups[g])
        BY <2>2 DEF TypeInv
      <4>2. CASE groups[g].push = NoPush
        BY <2>2, <4>1, <4>2 DEF Merged, Group, GroupOK
      <4>3. CASE groups[g].push # NoPush
        <5>1. groups[g].push \in Push
          BY <2>2, <4>3 DEF Group
        <5>2. [groups[g].push EXCEPT !.receipts = @ \cup in.receipts] \in Push
          BY <2>1, <5>1 DEF Push
        <5>3. x = [groups[g] EXCEPT !.count = @ + 1,
                     !.push = [groups[g].push EXCEPT !.receipts = @ \cup in.receipts]]
          BY <2>2, <4>3 DEF Merged, Group
        <5> DEFINE both == [groups[g].push EXCEPT !.receipts = @ \cup in.receipts]
        <5>4. both \in Push /\ x = [groups[g] EXCEPT !.count = groups[g].count + 1, !.push = both]
          BY <5>2, <5>3
        <5> HIDE DEF both
        <5>5. /\ [groups[g] EXCEPT !.count = groups[g].count + 1, !.push = both] \in Group
              /\ [groups[g] EXCEPT !.count = groups[g].count + 1, !.push = both].pc = groups[g].pc
              /\ [groups[g] EXCEPT !.count = groups[g].count + 1, !.push = both].out = groups[g].out
          <6> HIDE DEF g
          <6>1. groups[g].count \in Nat
            BY <2>2 DEF Group
          <6>2. groups[g].count + 1 \in Nat
            BY <6>1
          <6> QED
            BY <2>2, <5>4, <6>2 DEF Group
        <5> HIDE DEF x
        <5> QED
          BY <4>1, <5>4, <5>5 DEF GroupOK
      <4> QED
        BY <4>2, <4>3
    <3>2. groups' = [groups EXCEPT ![g] = x]
      BY <2>4
    <3> HIDE DEF x
    <3>3. GroupsOK' /\ Len(groups') = Len(groups)
      BY <1>i, <2>2, <3>1, <3>2
    <3>4. MapOK' /\ RestOK'
      BY <1>4, <1>a, <2>4, <3>3 DEF MapOK, RestOK, MergePush
    <3>5. ProcsOK'
      BY <2>4, ReturnStep DEF ProcsOK
    <3> QED
      BY <1>4, <1>b, <1>f, <1>g, <3>3, <3>4, <3>5 DEF MergePush
  <2> QED
    BY <1>4, <2>3, <2>4 DEF MergePush
<1>5. ASSUME NEW p \in Procs, NewGroup(p) PROVE TypeInv'
  <2> DEFINE in == proc[p].push
             x == [conv |-> in.conv, push |-> in, count |-> 1, age |-> "young",
                   done |-> FALSE, pc |-> "select", out |-> NoPush]
  <2>1. in \in Push /\ in.conv \in Convs
    BY <1>5 DEF NewGroup, TypeInv, ProcOK
  <2>2. x \in Group /\ GroupOK(x)
    BY <2>1 DEF Group, GroupOK
  <2>3. groups' = Append(groups, x)
    BY <1>5 DEF NewGroup
  <2> HIDE DEF x
  <2>4. GroupsOK' /\ Len(groups') = Len(groups) + 1
    BY <2>2, <2>3, GroupAdded DEF GroupsOK
  <2>5. MapOK'
    <3>1. groupMses' = [groupMses EXCEPT ![in.conv] = Len(groups) + 1] /\ Len(groups) \in Nat
      BY <1>5, GroupsAt DEF NewGroup, TypeInv
    <3> QED
      BY <1>a, <2>1, <2>4, <3>1 DEF MapOK
  <2>6. ProcsOK' /\ RestOK'
    BY <1>5, <1>a, ReturnStep DEF ProcsOK, RestOK, NewGroup
  <2> QED
    BY <1>5, <1>b, <1>f, <1>g, <2>4, <2>5, <2>6 DEF NewGroup
<1>6. ASSUME NEW g \in DOMAIN groups, NEW x \in Group, GroupOK(x), groups' = [groups EXCEPT ![g] = x],
             UNCHANGED <<consumed, proc, mu, groupMses, sender, crashed, delivered, failed>>, ChanOK'
      PROVE  TypeInv'
  <2>1. GroupsOK' /\ MapOK'
    BY <1>i, <1>6, <1>a DEF MapOK
  <2> QED
    BY <1>6, <1>b, <1>c, <1>g, <1>h, <2>1
<1>7. ASSUME NEW g \in DOMAIN groups, Flush(g) PROVE TypeInv'
  <2> DEFINE x == [groups[g] EXCEPT !.pc = "flushing", !.out = groups[g].push, !.push = NoPush, !.count = 0]
  <2>1. x \in Group /\ GroupOK(x) /\ groups' = [groups EXCEPT ![g] = x]
    BY <1>7, GroupsAt DEF TypeInv, Flush, Group, GroupOK
  <2> HIDE DEF x
  <2> QED
    BY <1>7, <1>f, <1>6, <2>1 DEF Flush
<1>8. ASSUME NEW g \in DOMAIN groups, FlushStamp(g) PROVE TypeInv'
  <2> DEFINE x == [groups[g] EXCEPT !.age = "young", !.pc = "send"]
  <2>1. x \in Group /\ GroupOK(x) /\ groups' = [groups EXCEPT ![g] = x]
    BY <1>8, GroupsAt DEF TypeInv, FlushStamp, Group, GroupOK
  <2> HIDE DEF x
  <2> QED
    BY <1>8, <1>f, <1>6, <2>1 DEF FlushStamp
<1>9. ASSUME NEW g \in DOMAIN groups, IdleTick(g) PROVE TypeInv'
  <2> DEFINE x == [groups[g] EXCEPT !.pc = "send", !.out = Sentinel]
  <2>1. groups[g] \in Group /\ Sentinel \in Push
    BY GroupsAt, Pushes DEF TypeInv
  <2>2. x \in Group /\ x.pc = "send" /\ x.out = Sentinel
    BY <2>1 DEF Group
  <2>3. groups' = [groups EXCEPT ![g] = x]
    BY <1>9 DEF IdleTick
  <2>4. GroupOK(x)
    BY <2>1, <2>2 DEF GroupOK
  <2> HIDE DEF x
  <2> QED
    BY <1>9, <1>f, <1>6, <2>2, <2>3, <2>4 DEF IdleTick
<1>10. ASSUME NEW g \in DOMAIN groups, GroupExit(g) PROVE TypeInv'
  <2> DEFINE x == [groups[g] EXCEPT !.pc = IF groups[g].push # NoPush THEN "exitSend" ELSE "exit",
                                    !.out = groups[g].push, !.push = NoPush]
  <2>1. groups[g] \in Group
    BY GroupsAt DEF TypeInv
  <2>2. x \in Group /\ x.out = groups[g].push /\ x.pc = IF groups[g].push # NoPush THEN "exitSend" ELSE "exit"
    BY <2>1 DEF Group
  <2>3. groups[g].push = NoPush \/ groups[g].push \in Push
    BY <2>1 DEF Group
  <2>4. GroupOK(x) /\ groups' = [groups EXCEPT ![g] = x]
    BY <1>10, <2>2, <2>3 DEF GroupExit, GroupOK
  <2> HIDE DEF x
  <2> QED
    BY <1>10, <1>f, <1>6, <2>2, <2>4 DEF GroupExit
<1>11. ASSUME NEW g \in DOMAIN groups, GroupSend(g) PROVE TypeInv'
  <2> DEFINE x == [groups[g] EXCEPT !.pc = IF groups[g].pc = "send" THEN "select" ELSE "exit", !.out = NoPush]
  <2>1. x \in Group /\ GroupOK(x) /\ groups' = [groups EXCEPT ![g] = x]
    BY <1>11, GroupsAt DEF TypeInv, GroupSend, Group, GroupOK
  <2>2. groups[g].out \in Push /\ SendOn(groups[g].out)
    BY <1>11 DEF TypeInv, GroupSend, GroupOK
  <2>3. ChanOK'
    BY <2>2, SendStep DEF ChanOK
  <2> HIDE DEF x
  <2> QED
    BY <1>11, <1>6, <2>1, <2>3 DEF GroupSend
<1>12. ASSUME NEW g \in DOMAIN groups, TimePasses(g) PROVE TypeInv'
  <2> DEFINE x == [groups[g] EXCEPT !.age = IF groups[g].age = "young" THEN "delay" ELSE "idle"]
  <2>1. x \in Group /\ GroupOK(x) /\ groups' = [groups EXCEPT ![g] = x]
    BY <1>12, GroupsAt DEF TypeInv, TimePasses, Group, GroupOK
  <2> HIDE DEF x
  <2> QED
    BY <1>12, <1>f, <1>6, <2>1 DEF TimePasses
<1>13. CASE Receive
  <2>1. push \in Seq(Push) /\ push # <<>> /\ Len(push) <= 1
    BY <1>13, <1>a DEF Receive, ChanOK, ChanCap
  <2>2. Head(push) \in Push /\ Tail(push) \in Seq(Push) /\ Len(Tail(push)) <= ChanCap
    BY <2>1, HeadTailProperties DEF ChanCap
  <2>3. ChanOK' /\ SendingOK'
    BY <1>13, <2>2 DEF Receive, ChanOK, SendingOK, SenderOK
  <2> QED
    BY <1>13, <1>b, <1>c, <1>d, <1>e, <1>h, <2>3 DEF Receive
<1>14. ASSUME NEW ok \in BOOLEAN, Transfer(ok) PROVE TypeInv'
  <2>1. sender.push \in Push
    BY <1>14, <1>a DEF Transfer, SendingOK, SenderOK
  <2>2. [sender.push EXCEPT !.receipts = {}] \in Push
    BY <2>1 DEF Push
  <2>3. SendingOK'
    BY <1>14, <2>1, <2>2 DEF Transfer, SendingOK, SenderOK
  <2>4. RestOK'
    BY <1>14, <1>a, <2>1, Pushes DEF Transfer, RestOK
  <2> QED
    BY <1>14, <1>b, <1>c, <1>d, <1>e, <1>f, <2>3, <2>4 DEF Transfer
<1>15. CASE Release
  <2> DEFINE conv == sender.push.conv
             g == groupMses[conv]
  <2>1. SendingOK'
    BY <1>15, <1>a DEF Release, SendingOK, SenderOK
  <2>2. CASE UNCHANGED <<groups, groupMses>>
    BY <1>15, <1>b, <1>c, <1>d, <1>e, <1>f, <1>h, <2>1, <2>2 DEF Release
  <2>3. CASE /\ conv \in Convs /\ g # 0
             /\ groups' = [groups EXCEPT ![g].done = TRUE, ![g].push = NoPush]
             /\ groupMses' = [groupMses EXCEPT ![conv] = 0]
    <3> DEFINE x == [groups[g] EXCEPT !.done = TRUE, !.push = NoPush]
    <3>1. g \in DOMAIN groups /\ groups[g] \in Group /\ GroupOK(groups[g])
      BY <2>3, GroupsAt DEF TypeInv
    <3>2. x \in Group /\ GroupOK(x) /\ groups' = [groups EXCEPT ![g] = x]
      BY <2>3, <3>1 DEF Group, GroupOK
    <3> HIDE DEF x
    <3>3. GroupsOK' /\ Len(groups') = Len(groups)
      BY <1>i, <3>1, <3>2
    <3>4. MapOK'
      BY <1>a, <2>3, <3>3, GroupsAt DEF MapOK, TypeInv
    <3> QED
      BY <1>15, <1>b, <1>c, <1>f, <1>h, <2>1, <3>3, <3>4 DEF Release
  <2> QED
    BY <1>15, <2>2, <2>3 DEF Release
<1>16. CASE UNCHANGED vars
  BY <1>16, <1>b, <1>c, <1>d, <1>e, <1>f, <1>g, <1>h DEF vars
<1> QED
  BY <1>1, <1>2, <1>3, <1>4, <1>5, <1>7, <1>8, <1>9, <1>10, <1>11, <1>12, <1>13, <1>14, <1>15, <1>16
     DEF Next, Consumer, Merger, Sender

LEMMA TypeInvariant == Spec => []TypeInv
<1>1. Init => TypeInv
  <2> SUFFICES ASSUME Init PROVE TypeInv
    OBVIOUS
  <2>1. groups \in Seq(Group) /\ DOMAIN groups = {} /\ Len(groups) = 0 /\ push \in Seq(Push) /\ Len(push) <= ChanCap
    BY DEF Init, ChanCap
  <2>2. groupMses \in [Convs -> 0..Len(groups)] /\ consumed \in 0..MaxJobs
    BY <2>1, BoundsAssumption DEF Init
  <2>3. proc \in [Procs -> [pc: {"idle", "send", "lock", "merge"}, push: Push \cup {NoPush}]]
    BY DEF Init
  <2>4. /\ sender \in [pc: {"recv", "transfer", "release"}, push: Push \cup {NoPush}]
        /\ mu \subseteq Procs /\ crashed \in BOOLEAN /\ delivered \in [Jobs -> Nat] /\ failed \subseteq Jobs
    BY DEF Init
  <2>5. SenderOK /\ \A p \in Procs : ProcOK(proc[p])
    BY DEF Init, SenderOK, ProcOK
  <2> QED
    BY <2>1, <2>2, <2>3, <2>4, <2>5 DEF TypeInv, TypeOK
<1> QED
  BY <1>1, TypeStep, PTL DEF Spec

(* TypeCorrect: the variables keep their shape; the channel holds one push. *)
THEOREM TypeCorrect == Spec => []TypeOK
BY TypeInvariant, PTL DEF TypeInv

-----------------------------------------------------------------------------

(* A groupMsgRead that changes keeps its place in the map, if it takes no   *)
(* push where it had none.                                                  *)
MapInv ==
  /\ \A c \in Convs : groupMses[c] # 0 => groups[groupMses[c]].conv = c /\ ~groups[groupMses[c]].done
  /\ OrphansAreEmpty

LEMMA MapKept ==
  ASSUME TypeInv, MapInv, NEW g \in DOMAIN groups, NEW x,
         groups' = [groups EXCEPT ![g] = x], UNCHANGED groupMses,
         x.conv = groups[g].conv, x.done = groups[g].done,
         x.push # NoPush => groups[g].push # NoPush
  PROVE  MapInv'
<1>1. DOMAIN groups' = DOMAIN groups
  OBVIOUS
<1>2. \A h \in DOMAIN groups : /\ groups'[h].conv = groups[h].conv /\ groups'[h].done = groups[h].done
                               /\ groups'[h].push # NoPush => groups[h].push # NoPush
  OBVIOUS
<1>3. \A c \in Convs : groupMses[c] # 0 => groupMses[c] \in DOMAIN groups
  BY GroupsAt DEF TypeInv
<1> QED
  BY <1>1, <1>2, <1>3 DEF MapInv, OrphansAreEmpty

LEMMA MapStep == TypeInv /\ MapInv /\ [Next]_vars => MapInv'
<1> SUFFICES ASSUME TypeInv, MapInv, [Next]_vars PROVE MapInv'
  OBVIOUS
<1>0. ASSUME UNCHANGED <<groups, groupMses>> PROVE MapInv'
  BY <1>0 DEF MapInv, OrphansAreEmpty
<1>1. ASSUME NEW p \in Procs, MergePush(p) PROVE MapInv'
  <2> DEFINE in == proc[p].push
             g == groupMses[in.conv]
             x == Merged(groups[g], in)
  <2>1. CASE UNCHANGED groups
    BY <1>0, <1>1, <2>1 DEF MergePush
  <2>2. CASE groups' = [groups EXCEPT ![g] = x]
    <3>1. in.conv \in Convs
      BY <1>1 DEF MergePush, TypeInv, ProcOK
    <3>2. g \in DOMAIN groups /\ groups[g] \in Group
      BY <1>1, <3>1, GroupsAt DEF MergePush, TypeInv
    <3>3. x.conv = groups[g].conv /\ x.done = groups[g].done /\ (x.push # NoPush => groups[g].push # NoPush)
      BY <3>2 DEF Merged, Group
    <3> HIDE DEF x
    <3> QED
      BY <1>1, <2>2, <3>2, <3>3, MapKept DEF MergePush
  <2> QED
    BY <1>1, <2>1, <2>2 DEF MergePush
<1>2. ASSUME NEW p \in Procs, NewGroup(p) PROVE MapInv'
  <2> DEFINE in == proc[p].push
             new == Len(groups) + 1
             x == [conv |-> in.conv, push |-> in, count |-> 1, age |-> "young",
                   done |-> FALSE, pc |-> "select", out |-> NoPush]
  <2>1. in \in Push /\ in.conv \in Convs
    BY <1>2 DEF NewGroup, TypeInv, ProcOK
  <2>2. x \in Group /\ GroupOK(x) /\ x.conv = in.conv /\ ~x.done
    BY <2>1 DEF Group, GroupOK
  <2>3. groups' = Append(groups, x)
    BY <1>2 DEF NewGroup
  <2> HIDE DEF x
  <2>4. /\ DOMAIN groups' = DOMAIN groups \cup {new} /\ new \notin DOMAIN groups /\ groups'[new] = x
        /\ \A h \in DOMAIN groups : groups'[h] = groups[h]
    BY <2>2, <2>3, GroupAdded
  <2>5. /\ groupMses' = [groupMses EXCEPT ![in.conv] = new] /\ groupMses[in.conv] = 0
        /\ groupMses \in [Convs -> 0..Len(groups)] /\ new # 0
    BY <1>2, GroupsAt DEF NewGroup, TypeInv, TypeOK
  <2>6. groupMses'[in.conv] = new /\ \A c \in Convs \ {in.conv} : groupMses'[c] = groupMses[c]
    BY <2>1, <2>5
  <2>7. \A c \in Convs : groupMses[c] # 0 => groupMses[c] \in DOMAIN groups
    BY GroupsAt DEF TypeInv
  <2>8. \A h \in DOMAIN groups : groups[h].conv \in Convs
    BY GroupsAt DEF TypeInv, Group
  <2> HIDE DEF new
  <2>9. ASSUME NEW h \in DOMAIN groups, groups[h].push # NoPush
        PROVE  groupMses'[groups[h].conv] = h /\ ~groups[h].done
    <3>1. groupMses[groups[h].conv] = h /\ ~groups[h].done
      BY <2>9 DEF MapInv, OrphansAreEmpty
    <3>2. h # 0
      BY GroupsAt DEF TypeInv
    <3> QED
      BY <2>5, <2>6, <2>8, <3>1, <3>2
  <2>10. OrphansAreEmpty'
    BY <2>2, <2>4, <2>6, <2>9 DEF OrphansAreEmpty
  <2>11. ASSUME NEW c \in Convs, groupMses'[c] # 0
         PROVE groups'[groupMses'[c]].conv = c /\ ~groups'[groupMses'[c]].done
    BY <2>2, <2>4, <2>6, <2>7, <2>11 DEF MapInv
  <2> QED
    BY <2>10, <2>11 DEF MapInv
<1>3. ASSUME NEW g \in DOMAIN groups, Merger(g) \/ TimePasses(g) PROVE MapInv'
  <2>1. groups[g] \in Group /\ UNCHANGED groupMses
    BY <1>3, GroupsAt DEF TypeInv, Merger, TimePasses, Flush, FlushStamp, IdleTick, GroupExit, GroupSend
  <2>2. ASSUME NEW x, groups' = [groups EXCEPT ![g] = x], x.conv = groups[g].conv, x.done = groups[g].done,
               x.push = groups[g].push \/ x.push = NoPush
        PROVE  MapInv'
    BY <2>1, <2>2, MapKept
  <2>3. CASE Flush(g)
    BY <2>1, <2>2, <2>3 DEF Flush, Group
  <2>4. CASE FlushStamp(g)
    BY <2>1, <2>2, <2>4 DEF FlushStamp, Group
  <2>5. CASE IdleTick(g)
    BY <2>1, <2>2, <2>5 DEF IdleTick, Group
  <2>6. CASE GroupExit(g)
    BY <2>1, <2>2, <2>6 DEF GroupExit, Group
  <2>7. CASE GroupSend(g)
    BY <2>1, <2>2, <2>7 DEF GroupSend, Group
  <2>8. CASE TimePasses(g)
    BY <2>1, <2>2, <2>8 DEF TimePasses, Group
  <2> QED
    BY <1>3, <2>3, <2>4, <2>5, <2>6, <2>7, <2>8 DEF Merger
<1>4. CASE Release
  <2> DEFINE conv == sender.push.conv
             g == groupMses[conv]
  <2>1. CASE UNCHANGED <<groups, groupMses>>
    BY <1>0, <2>1
  <2>2. CASE /\ conv \in Convs /\ g # 0
             /\ groups' = [groups EXCEPT ![g].done = TRUE, ![g].push = NoPush]
             /\ groupMses' = [groupMses EXCEPT ![conv] = 0]
    <3>1. g \in DOMAIN groups /\ groups[g] \in Group /\ groupMses \in [Convs -> 0..Len(groups)]
      BY <2>2, GroupsAt DEF TypeInv, TypeOK
    <3>2. /\ DOMAIN groups' = DOMAIN groups /\ groups'[g].push = NoPush
          /\ \A h \in DOMAIN groups \ {g} : groups'[h] = groups[h]
      BY <2>2, <3>1 DEF Group
    <3>3. groupMses'[conv] = 0 /\ \A c \in Convs \ {conv} : groupMses'[c] = groupMses[c]
      BY <2>2, <3>1
    <3>4. groups[g].conv = conv /\ \A h \in DOMAIN groups : groups[h].conv \in Convs
      BY <2>2, GroupsAt DEF MapInv, TypeInv, Group
    <3>5. ASSUME NEW h \in DOMAIN groups, groups'[h].push # NoPush
          PROVE  groupMses'[groups'[h].conv] = h /\ ~groups'[h].done
      <4>1. h # g /\ groups'[h] = groups[h]
        BY <3>2, <3>5
      <4>2. groupMses[groups[h].conv] = h /\ ~groups[h].done
        BY <3>5, <4>1 DEF MapInv, OrphansAreEmpty
      <4> QED
        BY <3>3, <3>4, <4>1, <4>2
    <3>6. ASSUME NEW c \in Convs, groupMses'[c] # 0
          PROVE  groups'[groupMses'[c]].conv = c /\ ~groups'[groupMses'[c]].done
      <4>1. c # conv /\ groupMses'[c] = groupMses[c]
        BY <3>3, <3>6
      <4>2. groups[groupMses[c]].conv = c /\ ~groups[groupMses[c]].done /\ groupMses[c] \in DOMAIN groups
        BY <3>6, <4>1, GroupsAt DEF MapInv, TypeInv
      <4>3. groupMses[c] # g
        BY <3>4, <4>1, <4>2
      <4> QED
        BY <3>2, <4>1, <4>2, <4>3
    <3> QED
      BY <3>2, <3>5, <3>6 DEF MapInv, OrphansAreEmpty
  <2> QED
    BY <1>4, <2>1, <2>2 DEF Release
<1> QED
  BY <1>0, <1>1, <1>2, <1>3, <1>4
     DEF Next, Consumer, Consume, ConsumeSend, ConsumeLock, Sender, Receive, Transfer, vars

(* OrphansHoldNothing: a groupMsgRead that the map no longer knows holds no *)
(* receipts to merge, and a conversation has at most one that does.         *)
THEOREM OrphansHoldNothing == Spec => []OrphansAreEmpty
<1>1. Init => MapInv
  BY DEF Init, MapInv, OrphansAreEmpty
<1> QED
  BY <1>1, MapStep, TypeInvariant, PTL DEF Spec, MapInv

-----------------------------------------------------------------------------

(* The receipts at a place, none where there is no place.                   *)
Content(h) == IF h \in Holders THEN PushIn(h).receipts ELSE {}
AtProc(p) == [at |-> "proc", i |-> p]
AtGroup(g) == [at |-> "group", i |-> g]
AtOut(g) == [at |-> "out", i |-> g]
AtChan == [at |-> "chan", i |-> 1]
AtSender == [at |-> "sender", i |-> 0]
ChanReceipts == IF push = <<>> THEN {} ELSE push[1].receipts

PlaceFacts ==
  /\ \A p \in Procs : Content(AtProc(p)) = proc[p].push.receipts
  /\ \A g \in DOMAIN groups : /\ Content(AtGroup(g)) = groups[g].push.receipts
                              /\ Content(AtOut(g)) = groups[g].out.receipts
  /\ \A g : g \notin DOMAIN groups => Content(AtGroup(g)) = {} /\ Content(AtOut(g)) = {}
  /\ Content(AtChan) = ChanReceipts
  /\ Content(AtSender) = sender.push.receipts
  /\ \A h : \/ Content(h) = {} \/ (\E p \in Procs : h = AtProc(p))
            \/ (\E g \in DOMAIN groups : h = AtGroup(g) \/ h = AtOut(g))
            \/ h = AtChan \/ h = AtSender

LEMMA Places == TypeInv => PlaceFacts
<1> SUFFICES ASSUME TypeInv PROVE PlaceFacts
  OBVIOUS
<1>1. Len(push) \in {0, 1} /\ DOMAIN push = 1..Len(push) /\ (push = <<>> <=> Len(push) = 0)
  <2>1. push \in Seq(Push) /\ Len(push) \in Nat /\ Len(push) <= 1
    BY DEF TypeInv, TypeOK, ChanCap
  <2>2. Len(push) = 0 => push = <<>>
    BY <2>1, EmptySeq
  <2>3. push = <<>> => Len(push) = 0
    OBVIOUS
  <2>4. Len(push) = 0 \/ Len(push) = 1
    BY <2>1
  <2>5. DOMAIN push = 1..Len(push)
    BY <2>1
  <2> QED
    BY <2>2, <2>3, <2>4, <2>5
<1>2. \A h \in Holders : \/ h.at = "proc" /\ h.i \in Procs /\ h = AtProc(h.i)
                         \/ h.at = "group" /\ h.i \in DOMAIN groups /\ h = AtGroup(h.i)
                         \/ h.at = "out" /\ h.i \in DOMAIN groups /\ h = AtOut(h.i)
                         \/ h.at = "chan" /\ h.i \in DOMAIN push /\ h = [at |-> "chan", i |-> h.i]
                         \/ h.at = "sender" /\ h = AtSender
  <2> TAKE h \in Holders
  <2>1. CASE h \in [at: {"proc"}, i: Procs]
    <3>1. h.at = "proc" /\ h.i \in Procs
      BY <2>1
    <3>2. h = AtProc(h.i)
      BY <2>1 DEF AtProc
    <3> QED
      BY <3>1, <3>2
  <2>2. CASE h \in [at: {"group", "out"}, i: DOMAIN groups]
    <3>1. h.at \in {"group", "out"} /\ h.i \in DOMAIN groups
      BY <2>2
    <3>2. h = [at |-> h.at, i |-> h.i]
      BY <2>2
    <3> QED
      BY <3>1, <3>2 DEF AtGroup, AtOut
  <2>3. CASE h \in [at: {"chan"}, i: DOMAIN push]
    <3>1. h.at = "chan" /\ h.i \in DOMAIN push
      BY <2>3
    <3>2. h = [at |-> "chan", i |-> h.i]
      BY <2>3
    <3> QED
      BY <3>1, <3>2
  <2>4. CASE h \in [at: {"sender"}, i: {0}]
    BY <2>4 DEF AtSender
  <2> QED
    BY <2>1, <2>2, <2>3, <2>4 DEF Holders
<1>3. \A p \in Procs : AtProc(p) \in Holders /\ PushIn(AtProc(p)) = proc[p].push
  BY DEF Holders, AtProc, PushIn
<1>4. \A g \in DOMAIN groups : /\ AtGroup(g) \in Holders /\ PushIn(AtGroup(g)) = groups[g].push
                               /\ AtOut(g) \in Holders /\ PushIn(AtOut(g)) = groups[g].out
  BY DEF Holders, AtGroup, AtOut, PushIn
<1>5. \A g : g \notin DOMAIN groups => AtGroup(g) \notin Holders /\ AtOut(g) \notin Holders
  BY DEF Holders, AtGroup, AtOut
<1>6. AtSender \in Holders /\ PushIn(AtSender) = sender.push
  BY DEF Holders, AtSender, PushIn
<1>7. (AtChan \in Holders <=> 1 \in DOMAIN push) /\ PushIn(AtChan) = push[1]
  BY DEF Holders, AtChan, PushIn
<1>8. Content(AtChan) = ChanReceipts
  BY <1>1, <1>7 DEF Content, ChanReceipts
<1>9. \A h \in Holders : \/ (\E p \in Procs : h = AtProc(p))
                         \/ (\E g \in DOMAIN groups : h = AtGroup(g) \/ h = AtOut(g))
                         \/ h = AtChan \/ h = AtSender
  BY <1>1, <1>2 DEF AtChan
<1> QED
  BY <1>3, <1>4, <1>5, <1>6, <1>8, <1>9 DEF Content, PlaceFacts

LEMMA PlacesNext == TypeInv' => PlaceFacts'
BY Places, PTL

LEMMA PlacesDiffer ==
  /\ \A p, q : AtProc(p) # AtGroup(q) /\ AtProc(p) # AtOut(q) /\ AtProc(p) # AtChan /\ AtProc(p) # AtSender
  /\ \A p, q : AtGroup(p) # AtOut(q) /\ AtGroup(p) # AtChan /\ AtGroup(p) # AtSender
  /\ \A p : AtOut(p) # AtChan /\ AtOut(p) # AtSender
  /\ AtChan # AtSender
  /\ \A p, q : /\ AtProc(p) = AtProc(q) => p = q
               /\ AtGroup(p) = AtGroup(q) => p = q
               /\ AtOut(p) = AtOut(q) => p = q
BY DEF AtProc, AtGroup, AtOut, AtChan, AtSender

(* What a step does with the receipts at the places other than some.        *)
KeptBut(S) == \A h : h \notin S => Content(h)' = Content(h)

(* It suffices to look at every kind of place.                              *)
LEMMA KeptElsewhere ==
  ASSUME TypeInv, TypeInv', NEW S,
         \A p \in Procs : AtProc(p) \notin S => proc'[p].push.receipts = proc[p].push.receipts,
         \A g \in DOMAIN groups :
            /\ g \in DOMAIN groups'
            /\ AtGroup(g) \notin S => groups'[g].push.receipts = groups[g].push.receipts
            /\ AtOut(g) \notin S => groups'[g].out.receipts = groups[g].out.receipts,
         \A g \in DOMAIN groups' : g \notin DOMAIN groups =>
            /\ AtGroup(g) \notin S => groups'[g].push.receipts = {}
            /\ AtOut(g) \notin S => groups'[g].out.receipts = {},
         AtChan \notin S => push' = push,
         AtSender \notin S => sender'.push.receipts = sender.push.receipts
  PROVE  KeptBut(S)
<1> SUFFICES ASSUME NEW h, h \notin S PROVE Content(h)' = Content(h)
  BY DEF KeptBut
<1>0. /\ \A p \in Procs : Content(AtProc(p))' = proc'[p].push.receipts
      /\ \A g \in DOMAIN groups' : /\ Content(AtGroup(g))' = groups'[g].push.receipts
                                   /\ Content(AtOut(g))' = groups'[g].out.receipts
      /\ Content(AtChan)' = ChanReceipts'
      /\ Content(AtSender)' = sender'.push.receipts
      /\ \/ Content(h)' = {} \/ (\E p \in Procs : h = AtProc(p))
         \/ (\E g \in DOMAIN groups' : h = AtGroup(g) \/ h = AtOut(g))
         \/ h = AtChan \/ h = AtSender
  BY PlacesNext DEF PlaceFacts
<1>1. ASSUME NEW p \in Procs, h = AtProc(p) PROVE Content(h)' = Content(h)
  BY <1>0, <1>1, Places DEF PlaceFacts
<1>2. ASSUME NEW g \in DOMAIN groups, h = AtGroup(g) \/ h = AtOut(g) PROVE Content(h)' = Content(h)
  BY <1>0, <1>2, Places DEF PlaceFacts
<1>3. ASSUME NEW g \in DOMAIN groups', g \notin DOMAIN groups, h = AtGroup(g) \/ h = AtOut(g)
      PROVE  Content(h)' = Content(h)
  BY <1>0, <1>3, Places DEF PlaceFacts
<1>4. CASE h = AtChan
  BY <1>0, <1>4, Places DEF PlaceFacts, ChanReceipts
<1>5. CASE h = AtSender
  BY <1>0, <1>5, Places DEF PlaceFacts
<1>6. CASE /\ \A p \in Procs : h # AtProc(p)
           /\ \A g \in DOMAIN groups \cup DOMAIN groups' : h # AtGroup(g) /\ h # AtOut(g)
           /\ h # AtChan /\ h # AtSender
  <2>1. Content(h)' = {}
    BY <1>0, <1>6
  <2>2. Content(h) = {}
    BY <1>6, Places DEF PlaceFacts
  <2> QED
    BY <2>1, <2>2
<1> QED
  BY <1>1, <1>2, <1>3, <1>4, <1>5, <1>6

-----------------------------------------------------------------------------

(* What a step may do with receipts: leave them, move those of one place to *)
(* another, put a new one where none was, or forward those of one place.    *)
Stays == KeptBut({}) /\ UNCHANGED <<consumed, delivered, failed>>
Moves(a, b) ==
  /\ a # b /\ KeptBut({a, b})
  /\ Content(a)' = {} /\ Content(b)' = Content(a) \cup Content(b)
  /\ UNCHANGED <<consumed, delivered, failed>>
Adds(a) ==
  /\ KeptBut({a}) /\ Content(a) = {} /\ Content(a)' \subseteq {consumed + 1}
  /\ consumed' = consumed + 1 /\ UNCHANGED <<delivered, failed>>
Forwards(a) ==
  /\ KeptBut({a}) /\ Content(a)' = {} /\ UNCHANGED consumed
  /\ \/ /\ delivered' = [n \in Jobs |-> IF n \in Content(a) THEN delivered[n] + 1 ELSE delivered[n]]
        /\ failed' = failed
     \/ delivered' = delivered /\ failed' = failed \cup Content(a)

LEMMA Movement ==
  ASSUME TypeInv, TypeInv', [Next]_vars
  PROVE  Stays \/ (\E a, b : Moves(a, b)) \/ (\E a : Adds(a) \/ Forwards(a))
<1> DEFINE Goal == Stays \/ (\E a, b : Moves(a, b)) \/ (\E a : Adds(a) \/ Forwards(a))
<1> SUFFICES Goal
  OBVIOUS
<1> HIDE DEF Goal
<1>a. Stays \/ (\E a, b : Moves(a, b)) \/ (\E a : Adds(a) \/ Forwards(a)) => Goal
  BY DEF Goal
<1>b. PlaceFacts /\ PlaceFacts'
  BY Places, PlacesNext
<1>c. NoPush.receipts = {} /\ Sentinel.receipts = {} /\ \A x \in Push : x.receipts \subseteq Jobs
  BY Pushes
<1>1. ASSUME NEW p \in Procs, NEW chat \in {"single", "group"}, NEW conv \in Convs, NEW found \in BOOLEAN,
             Consume(p, chat, conv, found) PROVE Goal
  <2>1. proc[p].push.receipts = {}
    BY <1>1, <1>c DEF Consume, TypeInv, ProcOK
  <2>2. /\ proc'[p].push.receipts = IF found THEN {consumed + 1} ELSE {}
        /\ \A q \in Procs \ {p} : proc'[q] = proc[q]
    BY <1>1 DEF Consume, TypeInv, TypeOK
  <2>3. KeptBut({AtProc(p)})
    BY <1>1, <2>2, KeptElsewhere DEF Consume
  <2>4. Adds(AtProc(p))
    BY <1>1, <1>b, <2>1, <2>2, <2>3 DEF PlaceFacts, Adds, Consume
  <2> QED
    BY <1>a, <2>4
<1>2. ASSUME NEW p \in Procs, ConsumeSend(p) PROVE Goal
  <2> DEFINE in == proc[p].push
  <2>1. in \in Push /\ SendOn(in) /\ Return(p)
    BY <1>2 DEF ConsumeSend, TypeInv, ProcOK
  <2>2. push = <<>> /\ push' = <<in>>
    BY <2>1, SendStep
  <2>3. proc'[p].push = NoPush /\ \A q \in Procs \ {p} : proc'[q] = proc[q]
    BY <2>1, ReturnStep
  <2>4. KeptBut({AtProc(p), AtChan})
    BY <1>2, <2>3, KeptElsewhere DEF ConsumeSend
  <2>5. Content(AtChan) = {} /\ Content(AtChan)' = in.receipts
    BY <1>b, <2>2 DEF PlaceFacts, ChanReceipts
  <2>6. Content(AtProc(p)) = in.receipts /\ Content(AtProc(p))' = {}
    BY <1>b, <1>c, <2>3 DEF PlaceFacts
  <2>7. Moves(AtProc(p), AtChan)
    BY <1>2, <2>4, <2>5, <2>6, PlacesDiffer DEF Moves, ConsumeSend
  <2> QED
    BY <1>a, <2>7
<1>3. ASSUME NEW p \in Procs, ConsumeLock(p) PROVE Goal
  <2>1. \A q \in Procs : proc'[q].push = proc[q].push
    BY <1>3 DEF ConsumeLock, TypeInv, TypeOK
  <2>2. KeptBut({})
    BY <1>3, <2>1, KeptElsewhere DEF ConsumeLock
  <2> QED
    BY <1>3, <1>a, <2>2 DEF Stays, ConsumeLock
<1>4. ASSUME NEW p \in Procs, MergePush(p) PROVE Goal
  <2> DEFINE in == proc[p].push
             x == Merged(groups[groupMses[in.conv]], in)
  <2>1. CASE UNCHANGED <<proc, groups>>
    <3>1. KeptBut({})
      BY <1>4, <2>1, KeptElsewhere DEF MergePush
    <3> QED
      BY <1>4, <1>a, <3>1 DEF Stays, MergePush
  <2>2. CASE /\ groups' = [groups EXCEPT ![groupMses[in.conv]] = x] /\ Return(p)
             /\ groups[groupMses[in.conv]].push # NoPush \/ in.receipts = {}
    <3>1. in \in Push /\ in.conv \in Convs
      BY <1>4 DEF MergePush, TypeInv, ProcOK
    <3>0. PICK g \in DOMAIN groups : g = groupMses[in.conv]
      BY <1>4, <3>1, GroupsAt DEF MergePush, TypeInv
    <3>2. groups[g] \in Group
      BY GroupsAt DEF TypeInv
    <3>3. x.out = groups[g].out /\ x.push.receipts = groups[g].push.receipts \cup in.receipts
      <4>1. CASE groups[g].push = NoPush
        BY <1>c, <2>2, <3>0, <3>2, <4>1 DEF Merged, Group
      <4>2. CASE groups[g].push # NoPush
        <5>1. groups[g].push \in Push
          BY <3>2, <4>2 DEF Group
        <5> QED
          BY <3>0, <3>2, <4>2, <5>1 DEF Merged, Group, Push
      <4> QED
        BY <4>1, <4>2
    <3> HIDE DEF x
    <3>4. DOMAIN groups' = DOMAIN groups /\ \A h \in DOMAIN groups : groups'[h] = IF h = g THEN x ELSE groups[h]
      BY <2>2, <3>0
    <3>5. proc'[p].push = NoPush /\ \A q \in Procs \ {p} : proc'[q] = proc[q]
      BY <2>2, ReturnStep
    <3>6. KeptBut({AtProc(p), AtGroup(g)})
      BY <1>4, <3>3, <3>4, <3>5, KeptElsewhere DEF MergePush
    <3>7. Content(AtProc(p)) = in.receipts /\ Content(AtProc(p))' = {}
      BY <1>b, <1>c, <3>5 DEF PlaceFacts
    <3>8. Content(AtGroup(g)) = groups[g].push.receipts /\ Content(AtGroup(g))' = x.push.receipts
      BY <1>b, <3>2, <3>4 DEF PlaceFacts
    <3>9. Moves(AtProc(p), AtGroup(g))
      BY <1>4, <3>3, <3>6, <3>7, <3>8, PlacesDiffer DEF Moves, MergePush
    <3> QED
      BY <1>a, <3>9
  <2> QED
    BY <1>4, <2>1, <2>2 DEF MergePush
<1>5. ASSUME NEW p \in Procs, NewGroup(p) PROVE Goal
  <2> DEFINE in == proc[p].push
             x == [conv |-> in.conv, push |-> in, count |-> 1, age |-> "young",
                   done |-> FALSE, pc |-> "select", out |-> NoPush]
  <2>1. in \in Push /\ in.conv \in Convs
    BY <1>5 DEF NewGroup, TypeInv, ProcOK
  <2>2. x \in Group /\ GroupOK(x) /\ x.push = in /\ x.out = NoPush
    BY <2>1 DEF Group, GroupOK
  <2>3. groups' = Append(groups, x) /\ Return(p)
    BY <1>5 DEF NewGroup
  <2> HIDE DEF x
  <2>a. PICK new : new = Len(groups) + 1
    OBVIOUS
  <2>4. /\ DOMAIN groups' = DOMAIN groups \cup {new} /\ new \notin DOMAIN groups /\ groups'[new] = x
        /\ \A h \in DOMAIN groups : groups'[h] = groups[h]
    BY <2>a, <2>2, <2>3, GroupAdded
  <2>5. proc'[p].push = NoPush /\ \A q \in Procs \ {p} : proc'[q] = proc[q]
    BY <2>3, ReturnStep
  <2>6. KeptBut({AtProc(p), AtGroup(new)})
    BY <1>5, <1>c, <2>2, <2>4, <2>5, KeptElsewhere DEF NewGroup
  <2>7. Content(AtProc(p)) = in.receipts /\ Content(AtProc(p))' = {}
    BY <1>b, <1>c, <2>5 DEF PlaceFacts
  <2>8. Content(AtGroup(new)) = {} /\ Content(AtGroup(new))' = in.receipts
    BY <1>b, <2>2, <2>4 DEF PlaceFacts
  <2>9. Moves(AtProc(p), AtGroup(new))
    BY <1>5, <2>6, <2>7, <2>8, PlacesDiffer DEF Moves, NewGroup
  <2> QED
    BY <1>a, <2>9
(* The push of a groupMsgRead is taken out.                                 *)
<1>6. ASSUME NEW g \in DOMAIN groups, NEW x, groups' = [groups EXCEPT ![g] = x],
             x.push = NoPush, x.out = groups[g].push, groups[g].pc = "select",
             UNCHANGED <<consumed, proc, push, sender, delivered, failed>>
      PROVE  Goal
  <2>1. DOMAIN groups' = DOMAIN groups /\ \A h \in DOMAIN groups : groups'[h] = IF h = g THEN x ELSE groups[h]
    BY <1>6
  <2>2. groups[g].out = NoPush
    BY <1>6 DEF TypeInv, GroupOK
  <2>3. KeptBut({AtGroup(g), AtOut(g)})
    BY <1>6, <2>1, KeptElsewhere
  <2>4. Content(AtGroup(g)) = groups[g].push.receipts /\ Content(AtGroup(g))' = {}
    BY <1>6, <1>b, <1>c, <2>1 DEF PlaceFacts
  <2>5. Content(AtOut(g)) = {} /\ Content(AtOut(g))' = groups[g].push.receipts
    BY <1>6, <1>b, <1>c, <2>1, <2>2 DEF PlaceFacts
  <2>6. Moves(AtGroup(g), AtOut(g))
    BY <1>6, <2>3, <2>4, <2>5, PlacesDiffer DEF Moves
  <2> QED
    BY <1>a, <2>6
(* A groupMsgRead keeps its receipts where they are.                        *)
<1>7. ASSUME NEW g \in DOMAIN groups, NEW x, groups' = [groups EXCEPT ![g] = x],
             x.push.receipts = groups[g].push.receipts, x.out.receipts = groups[g].out.receipts,
             UNCHANGED <<consumed, proc, push, delivered, failed>>,
             sender'.push.receipts = sender.push.receipts
      PROVE  Goal
  <2>1. DOMAIN groups' = DOMAIN groups /\ \A h \in DOMAIN groups : groups'[h] = IF h = g THEN x ELSE groups[h]
    BY <1>7
  <2>2. KeptBut({})
    BY <1>7, <2>1, KeptElsewhere
  <2> QED
    BY <1>7, <1>a, <2>2 DEF Stays
<1>8. ASSUME NEW g \in DOMAIN groups, Flush(g) PROVE Goal
  <2> DEFINE x == [groups[g] EXCEPT !.pc = "flushing", !.out = groups[g].push, !.push = NoPush, !.count = 0]
  <2>1. groups[g] \in Group
    BY GroupsAt DEF TypeInv
  <2>2. x.push = NoPush /\ x.out = groups[g].push /\ groups' = [groups EXCEPT ![g] = x]
    BY <1>8, <2>1 DEF Flush, Group
  <2> HIDE DEF x
  <2> QED
    BY <1>6, <1>8, <2>2 DEF Flush
<1>9. ASSUME NEW g \in DOMAIN groups, FlushStamp(g) PROVE Goal
  <2> DEFINE x == [groups[g] EXCEPT !.age = "young", !.pc = "send"]
  <2>1. groups[g] \in Group
    BY GroupsAt DEF TypeInv
  <2>2. x.push = groups[g].push /\ x.out = groups[g].out /\ groups' = [groups EXCEPT ![g] = x]
    BY <1>9, <2>1 DEF FlushStamp, Group
  <2> HIDE DEF x
  <2> QED
    BY <1>7, <1>9, <2>2 DEF FlushStamp
<1>10. ASSUME NEW g \in DOMAIN groups, IdleTick(g) PROVE Goal
  <2> DEFINE x == [groups[g] EXCEPT !.pc = "send", !.out = Sentinel]
  <2>1. groups[g].out = NoPush /\ groups[g] \in Group
    BY <1>10, GroupsAt DEF TypeInv, IdleTick, GroupOK
  <2>2. x.out = Sentinel /\ x.push = groups[g].push
    BY <2>1 DEF Group
  <2>3. groups' = [groups EXCEPT ![g] = x]
    BY <1>10 DEF IdleTick
  <2> HIDE DEF x
  <2> QED
    BY <1>7, <1>10, <1>c, <2>1, <2>2, <2>3 DEF IdleTick
<1>11. ASSUME NEW g \in DOMAIN groups, GroupExit(g) PROVE Goal
  <2> DEFINE x == [groups[g] EXCEPT !.pc = IF groups[g].push # NoPush THEN "exitSend" ELSE "exit",
                                    !.out = groups[g].push, !.push = NoPush]
  <2>1. groups[g] \in Group
    BY GroupsAt DEF TypeInv
  <2>2. x.push = NoPush /\ x.out = groups[g].push /\ groups' = [groups EXCEPT ![g] = x]
    BY <1>11, <2>1 DEF GroupExit, Group
  <2> HIDE DEF x
  <2> QED
    BY <1>6, <1>11, <2>2 DEF GroupExit
<1>12. ASSUME NEW g \in DOMAIN groups, GroupSend(g) PROVE Goal
  <2> DEFINE x == [groups[g] EXCEPT !.pc = IF groups[g].pc = "send" THEN "select" ELSE "exit", !.out = NoPush]
             out == groups[g].out
  <2>1. groups[g] \in Group /\ out \in Push /\ SendOn(out)
    BY <1>12, GroupsAt DEF TypeInv, GroupSend, GroupOK
  <2>2. x.out = NoPush /\ x.push = groups[g].push
    BY <2>1 DEF Group
  <2>3. groups' = [groups EXCEPT ![g] = x]
    BY <1>12 DEF GroupSend
  <2> HIDE DEF x
  <2>4. DOMAIN groups' = DOMAIN groups /\ \A h \in DOMAIN groups : groups'[h] = IF h = g THEN x ELSE groups[h]
    BY <2>3
  <2>5. push = <<>> /\ push' = <<out>>
    BY <2>1, SendStep
  <2>6. KeptBut({AtOut(g), AtChan})
    BY <1>12, <2>2, <2>4, KeptElsewhere DEF GroupSend
  <2>7. Content(AtChan) = {} /\ Content(AtChan)' = out.receipts
    BY <1>b, <2>5 DEF PlaceFacts, ChanReceipts
  <2>8. Content(AtOut(g)) = out.receipts /\ Content(AtOut(g))' = {}
    BY <1>b, <1>c, <2>2, <2>4 DEF PlaceFacts
  <2>9. Moves(AtOut(g), AtChan)
    BY <1>12, <2>6, <2>7, <2>8, PlacesDiffer DEF Moves, GroupSend
  <2> QED
    BY <1>a, <2>9
<1>13. ASSUME NEW g \in DOMAIN groups, TimePasses(g) PROVE Goal
  BY <1>7, <1>13, GroupsAt DEF TypeInv, TimePasses, Group
<1>14. CASE Receive
  <2>1. push \in Seq(Push) /\ push # <<>> /\ Len(push) <= 1
    BY <1>14 DEF Receive, TypeInv, TypeOK, ChanCap
  <2>2. Head(push) = push[1] /\ Tail(push) = <<>>
    BY <2>1, HeadTailProperties, EmptySeq
  <2>3. sender.push = NoPush /\ sender'.push = push[1] /\ push' = <<>>
    BY <1>14, <2>2 DEF Receive, TypeInv, SenderOK
  <2>4. KeptBut({AtChan, AtSender})
    BY <1>14, KeptElsewhere DEF Receive
  <2>5. Content(AtChan) = push[1].receipts /\ Content(AtChan)' = {}
    BY <1>b, <2>1, <2>3 DEF PlaceFacts, ChanReceipts
  <2>6. Content(AtSender) = {} /\ Content(AtSender)' = push[1].receipts
    BY <1>b, <1>c, <2>3 DEF PlaceFacts
  <2>7. Moves(AtChan, AtSender)
    BY <1>14, <2>4, <2>5, <2>6, PlacesDiffer DEF Moves, Receive
  <2> QED
    BY <1>a, <2>7
<1>15. ASSUME NEW ok \in BOOLEAN, Transfer(ok) PROVE Goal
  <2>1. sender.push \in Push
    BY <1>15 DEF Transfer, TypeInv, SenderOK
  <2>2. sender'.push.receipts = {}
    BY <1>15, <1>c, <2>1 DEF Transfer, Push
  <2>3. KeptBut({AtSender})
    BY <1>15, KeptElsewhere DEF Transfer
  <2>4. Content(AtSender) = sender.push.receipts /\ Content(AtSender)' = {}
    BY <1>b, <2>2 DEF PlaceFacts
  <2>5. \/ /\ delivered' = [n \in Jobs |-> IF n \in Content(AtSender) THEN delivered[n] + 1 ELSE delivered[n]]
           /\ failed' = failed
        \/ delivered' = delivered /\ failed' = failed \cup Content(AtSender)
    <3>1. CASE ok
      BY <1>15, <2>4, <3>1 DEF Transfer
    <3>2. CASE ~ok
      <4>1. delivered \in [Jobs -> Nat]
        BY DEF TypeInv, TypeOK
      <4> QED
        BY <1>15, <2>4, <3>2, <4>1 DEF Transfer
    <3> QED
      BY <3>1, <3>2
  <2>6. Forwards(AtSender)
    BY <1>15, <2>3, <2>4, <2>5 DEF Forwards, Transfer
  <2> QED
    BY <1>a, <2>6
<1>16. CASE Release
  <2> DEFINE conv == sender.push.conv
             g == groupMses[conv]
  <2>1. sender'.push.receipts = sender.push.receipts
    BY <1>16, <1>c DEF Release, TypeInv, SenderOK
  <2>2. CASE UNCHANGED groups
    <3>1. KeptBut({})
      BY <1>16, <2>1, <2>2, KeptElsewhere DEF Release
    <3> QED
      BY <1>16, <1>a, <3>1 DEF Stays, Release
  <2>3. CASE /\ conv \in Convs /\ g # 0 /\ isIdle(groups[g])
             /\ groups' = [groups EXCEPT ![g].done = TRUE, ![g].push = NoPush]
    <3> DEFINE x == [groups[g] EXCEPT !.done = TRUE, !.push = NoPush]
    <3>1. g \in DOMAIN groups /\ groups[g] \in Group
      BY <2>3, GroupsAt DEF TypeInv
    <3>2. x.push = groups[g].push /\ x.out = groups[g].out /\ groups' = [groups EXCEPT ![g] = x]
      BY <2>3, <3>1 DEF Group, isIdle
    <3> HIDE DEF x
    <3> QED
      BY <1>7, <1>16, <2>1, <3>1, <3>2 DEF Release
  <2> QED
    BY <1>16, <2>2, <2>3 DEF Release
<1>17. CASE UNCHANGED vars
  <2>1. KeptBut({})
    BY <1>17, KeptElsewhere DEF vars
  <2> QED
    BY <1>17, <1>a, <2>1 DEF Stays, vars
<1> QED
  BY <1>1, <1>2, <1>3, <1>4, <1>5, <1>8, <1>9, <1>10, <1>11, <1>12, <1>13, <1>14, <1>15, <1>16, <1>17
     DEF Next, Consumer, Merger, Sender

-----------------------------------------------------------------------------

(* A receipt has at most one holder, none before it was consumed, and none  *)
(* once it was forwarded, which happens at most once.                       *)
Over(n) == delivered[n] > 0 \/ n \in failed
PlaceInv ==
  /\ \A h, k : \A n \in Jobs : n \in Content(h) /\ n \in Content(k) => h = k
  /\ \A h : \A n \in Jobs : n \in Content(h) => n <= consumed
  /\ \A n \in Jobs : Over(n) => n <= consumed /\ \A h : n \notin Content(h)
  /\ \A n \in Jobs : delivered[n] = 0 \/ (delivered[n] = 1 /\ n \notin failed)

LEMMA PlaceStep == TypeInv /\ TypeInv' /\ PlaceInv /\ [Next]_vars => PlaceInv'
<1> SUFFICES ASSUME TypeInv, TypeInv', PlaceInv, [Next]_vars PROVE PlaceInv'
  OBVIOUS
<1>0. consumed \in Nat /\ delivered \in [Jobs -> Nat] /\ Jobs \subseteq Nat
  BY DEF TypeInv, TypeOK, Jobs
<1>1. CASE Stays
  <2>1. (\A h : Content(h)' = Content(h)) /\ UNCHANGED <<consumed, delivered, failed>>
    BY <1>1 DEF Stays, KeptBut
  <2> QED
    BY <2>1 DEF PlaceInv, Over
<1>2. ASSUME NEW a, NEW b, Moves(a, b) PROVE PlaceInv'
  <2>1. /\ \A h : h # a /\ h # b => Content(h)' = Content(h)
        /\ Content(a)' = {} /\ Content(b)' = Content(a) \cup Content(b)
        /\ a # b /\ UNCHANGED <<consumed, delivered, failed>>
    BY <1>2 DEF Moves, KeptBut
  <2>2. ASSUME NEW h, NEW n \in Jobs, n \in Content(h)'
        PROVE  (h # a /\ h # b /\ n \in Content(h)) \/ (h = b /\ (n \in Content(a) \/ n \in Content(b)))
    BY <2>1, <2>2
  <2>3. ASSUME NEW h, NEW k, NEW n \in Jobs, n \in Content(h)', n \in Content(k)' PROVE h = k
    <3>1. (h # a /\ h # b /\ n \in Content(h)) \/ (h = b /\ (n \in Content(a) \/ n \in Content(b)))
      BY <2>2, <2>3
    <3>2. (k # a /\ k # b /\ n \in Content(k)) \/ (k = b /\ (n \in Content(a) \/ n \in Content(b)))
      BY <2>2, <2>3
    <3> QED
      BY <3>1, <3>2 DEF PlaceInv
  <2>4. ASSUME NEW h, NEW n \in Jobs, n \in Content(h)' PROVE n <= consumed' /\ ~Over(n)'
    BY <2>1, <2>2, <2>4 DEF PlaceInv, Over
  <2>5. \A n \in Jobs : Over(n)' => n <= consumed'
    BY <2>1 DEF PlaceInv, Over
  <2>6. \A n \in Jobs : delivered'[n] = 0 \/ (delivered'[n] = 1 /\ n \notin failed')
    BY <2>1 DEF PlaceInv
  <2> QED
    BY <2>3, <2>4, <2>5, <2>6 DEF PlaceInv
<1>3. ASSUME NEW a, Adds(a) PROVE PlaceInv'
  <2>1. /\ \A h : h # a => Content(h)' = Content(h)
        /\ Content(a)' \subseteq {consumed + 1} /\ consumed' = consumed + 1
        /\ UNCHANGED <<delivered, failed>>
    BY <1>3 DEF Adds, KeptBut
  <2>2. ASSUME NEW h, NEW n \in Jobs, n \in Content(h)'
        PROVE  (h # a /\ n \in Content(h) /\ n <= consumed) \/ (h = a /\ n = consumed + 1)
    BY <2>1, <2>2 DEF PlaceInv
  <2>3. ASSUME NEW h, NEW k, NEW n \in Jobs, n \in Content(h)', n \in Content(k)' PROVE h = k
    <3>1. (h # a /\ n \in Content(h) /\ n <= consumed) \/ (h = a /\ n = consumed + 1)
      BY <2>2, <2>3
    <3>2. (k # a /\ n \in Content(k) /\ n <= consumed) \/ (k = a /\ n = consumed + 1)
      BY <2>2, <2>3
    <3> QED
      BY <1>0, <3>1, <3>2 DEF PlaceInv
  <2>4. ASSUME NEW h, NEW n \in Jobs, n \in Content(h)' PROVE n <= consumed' /\ ~Over(n)'
    <3>1. (n \in Content(h) /\ n <= consumed) \/ n = consumed + 1
      BY <2>2, <2>4
    <3>2. n <= consumed'
      BY <1>0, <2>1, <3>1
    <3>3. Over(n) => n <= consumed /\ n \notin Content(h)
      BY DEF PlaceInv
    <3> QED
      BY <1>0, <2>1, <3>1, <3>2, <3>3 DEF Over
  <2>5. \A n \in Jobs : Over(n)' => n <= consumed'
    BY <1>0, <2>1 DEF PlaceInv, Over
  <2>6. \A n \in Jobs : delivered'[n] = 0 \/ (delivered'[n] = 1 /\ n \notin failed')
    BY <2>1 DEF PlaceInv
  <2> QED
    BY <2>3, <2>4, <2>5, <2>6 DEF PlaceInv
<1>4. ASSUME NEW a, Forwards(a) PROVE PlaceInv'
  <2>1. /\ \A h : h # a => Content(h)' = Content(h)
        /\ Content(a)' = {} /\ consumed' = consumed
    BY <1>4 DEF Forwards, KeptBut
  <2>2. ASSUME NEW n \in Jobs
        PROVE  /\ n \notin Content(a) => delivered'[n] = delivered[n] /\ (n \in failed' <=> n \in failed)
               /\ n \in Content(a) => \/ delivered'[n] = delivered[n] + 1 /\ (n \in failed' <=> n \in failed)
                                      \/ delivered'[n] = delivered[n] /\ n \in failed'
    BY <1>4, <2>2 DEF Forwards
  <2>3. ASSUME NEW h, NEW n \in Jobs, n \in Content(h)' PROVE h # a /\ n \in Content(h) /\ n \notin Content(a)
    BY <2>1, <2>3 DEF PlaceInv
  <2>4. ASSUME NEW n \in Jobs, Over(n)' PROVE n <= consumed' /\ \A h : n \notin Content(h)'
    <3>1. Over(n) \/ n \in Content(a)
      BY <2>2, <2>4 DEF Over
    <3> QED
      BY <2>1, <2>3, <3>1 DEF PlaceInv
  <2>5. ASSUME NEW n \in Jobs PROVE delivered'[n] = 0 \/ (delivered'[n] = 1 /\ n \notin failed')
    <3>1. CASE n \in Content(a)
      <4>1. delivered[n] = 0 /\ n \notin failed
        BY <1>0, <3>1 DEF PlaceInv, Over
      <4> QED
        BY <2>2, <3>1, <4>1
    <3>2. CASE n \notin Content(a)
      BY <2>2, <3>2 DEF PlaceInv
    <3> QED
      BY <3>1, <3>2
  <2>6. \A h, k : \A n \in Jobs : n \in Content(h)' /\ n \in Content(k)' => h = k
    BY <2>3 DEF PlaceInv
  <2>7. \A h : \A n \in Jobs : n \in Content(h)' => n <= consumed'
    BY <2>1, <2>3 DEF PlaceInv
  <2> QED
    BY <2>4, <2>5, <2>6, <2>7 DEF PlaceInv
<1> QED
  BY <1>1, <1>2, <1>3, <1>4, Movement

LEMMA PlaceInvariant == Spec => []PlaceInv
<1>1. Init => PlaceInv
  <2> SUFFICES ASSUME Init PROVE PlaceInv
    OBVIOUS
  <2>1. \A h : Content(h) = {}
    <3>1. \A h \in Holders : \/ h.at = "proc" /\ h.i \in Procs
                             \/ h.at = "sender"
      BY DEF Init, Holders
    <3>2. \A h \in Holders : PushIn(h) = NoPush
      BY <3>1 DEF Init, PushIn
    <3> QED
      BY <3>2, Pushes DEF Content
  <2> QED
    BY <2>1 DEF Init, PlaceInv, Over
<1>2. TypeInv /\ TypeInv' /\ PlaceInv /\ [Next]_vars => PlaceInv'
  BY PlaceStep
<1> QED
  BY <1>1, <1>2, TypeInvariant, PTL DEF Spec

(* The holders of a receipt are the places with it.                         *)
LEMMA HoldingIs == \A n : Holding(n) = {h \in Holders : n \in Content(h)}
BY DEF Holding, Content

(* ReceiptInOnePlace: from Consume to the forwarding of the push that       *)
(* carries it a receipt is in one place only, and forwarded at most once.   *)
THEOREM ReceiptInOnePlace == Spec => []InOnePlace
<1>1. TypeInv /\ PlaceInv => InOnePlace
  <2> SUFFICES ASSUME TypeInv, PlaceInv, NEW n \in Jobs
               PROVE  Cardinality(Holding(n)) + delivered[n] + (IF n \in failed THEN 1 ELSE 0) <= 1
    BY DEF InOnePlace
  <2>1. delivered[n] \in Nat
    BY DEF TypeInv, TypeOK
  <2>2. CASE Holding(n) = {}
    <3>1. Cardinality(Holding(n)) = 0
      BY <2>2, FS_EmptySet
    <3> QED
      BY <3>1 DEF PlaceInv
  <2>3. CASE Holding(n) # {}
    <3>1. PICK h : h \in Holding(n)
      BY <2>3
    <3>2. n \in Content(h) /\ \A k \in Holding(n) : k = h
      BY <3>1, HoldingIs DEF PlaceInv
    <3>3. Holding(n) = {h}
      BY <3>1, <3>2
    <3>4. Cardinality(Holding(n)) = 1
      BY <3>3, FS_Singleton
    <3>5. delivered[n] = 0 /\ n \notin failed
      BY <2>1, <3>2 DEF PlaceInv, Over
    <3> QED
      BY <3>4, <3>5
  <2> QED
    BY <2>2, <2>3
<1> QED
  BY <1>1, TypeInvariant, PlaceInvariant, PTL

(* ReceiptNeverLost: a receipt that is held stays held until it was         *)
(* forwarded or its forwarding failed.                                      *)
THEOREM ReceiptNeverLost == Spec => NothingLost
<1> DEFINE Kept(n) == Holding(n) # {} =>
             \/ Holding(n)' # {} \/ delivered'[n] > delivered[n] \/ n \in failed'
<1>1. TypeInv /\ TypeInv' /\ [Next]_vars => \A n \in Jobs : Kept(n)
  <2> SUFFICES ASSUME TypeInv, TypeInv', [Next]_vars, NEW n \in Jobs, Holding(n) # {}
               PROVE  Holding(n)' # {} \/ delivered'[n] > delivered[n] \/ n \in failed'
    OBVIOUS
  <2>1. PICK h : n \in Content(h)
    BY HoldingIs
  <2>2. ASSUME NEW k, n \in Content(k)' PROVE Holding(n)' # {}
    BY <2>2 DEF Content, Holding
  <2>3. CASE Stays
    BY <2>1, <2>2, <2>3 DEF Stays, KeptBut
  <2>4. ASSUME NEW a, NEW b, Moves(a, b) PROVE Holding(n)' # {}
    <3>1. n \in Content(h)' \/ n \in Content(b)'
      BY <2>1, <2>4 DEF Moves, KeptBut
    <3> QED
      BY <2>2, <3>1
  <2>5. ASSUME NEW a, Adds(a) PROVE Holding(n)' # {}
    BY <2>1, <2>2, <2>5 DEF Adds, KeptBut
  <2>6. ASSUME NEW a, Forwards(a)
        PROVE  Holding(n)' # {} \/ delivered'[n] > delivered[n] \/ n \in failed'
    <3>1. CASE n \in Content(a)
      <4>1. delivered[n] \in Nat
        BY DEF TypeInv, TypeOK
      <4> QED
        BY <2>6, <3>1, <4>1 DEF Forwards
    <3>2. CASE n \notin Content(a)
      BY <2>1, <2>2, <2>6, <3>2 DEF Forwards, KeptBut
    <3> QED
      BY <3>1, <3>2
  <2> QED
    BY <2>3, <2>4, <2>5, <2>6, Movement
<1>2. TypeInv /\ TypeInv' /\ [Next]_vars => [\A n \in Jobs : Kept(n)]_vars
  BY <1>1
<1> QED
  BY <1>2, TypeInvariant, PTL DEF Spec, NothingLost

-----------------------------------------------------------------------------
(***************************************************************************)
(* job.WithRetry, for any jobs and any number of tries but none            *)
(* (RetryAssumption).  What TaskSpec does to its variables, J!Spec does.   *)
(***************************************************************************)

Tried == [state : {"running", "returned", "sent"}, result : {"none", "nil", "error", "fatal"}]
Attempts == Seq(Tried)

(* Every attempt was answered with an error, and no answer waits.           *)
AllFailed(s, c) ==
  c = <<>> /\ \A i \in 1..Len(s) : s[i].state = "sent" /\ s[i].result = "error"

(* The last attempt is under way, or its answer waits in the channel; those *)
(* before it failed.                                                        *)
Pending(s, c) ==
  /\ Len(s) > 0
  /\ \A i \in 1..Len(s) : i < Len(s) => s[i].state = "sent" /\ s[i].result = "error"
  /\ s[Len(s)].state # "sent" => c = <<>>
  /\ s[Len(s)].state = "sent" => c = <<s[Len(s)].result>>

(* The last attempt is the one that answered, for good.                     *)
Answered(s, c, answer) ==
  /\ Len(s) > 0 /\ c = <<>>
  /\ \A i \in 1..Len(s) : i < Len(s) => s[i].state = "sent" /\ s[i].result = "error"
  /\ s[Len(s)].state = "sent" /\ s[Len(s)].result = answer

(* What each point of the loop knows of the attempts so far.                *)
JobOK(w, s, c) ==
  /\ w \in [pc : {"loop", "select", "sleep", "done"}, i : Nat,
            answer : {"none", "nil", "error", "fatal", "timeout"}]
  /\ s \in Attempts
  /\ w.pc = "done" <=> w.answer # "none"
  /\ w.pc = "loop" => AllFailed(s, c) /\ Len(s) = w.i
  /\ w.pc = "select" => Pending(s, c) /\ Len(s) = w.i + 1
  /\ w.pc = "sleep" => AllFailed(s, c) /\ Len(s) = w.i + 1
  /\ w.answer \in {"nil", "fatal"} => Answered(s, c, w.answer)
  /\ w.answer = "error" => AllFailed(s, c) /\ Len(s) > 0
  /\ w.answer = "timeout" => Pending(s, c)

JobInv ==
  /\ DOMAIN job = RetriedJobs /\ DOMAIN ran = RetriedJobs /\ DOMAIN ch = RetriedJobs
  /\ \A j \in RetriedJobs : JobOK(job[j], ran[j], ch[j])

(* One job moves: the others are as they were.                              *)
OthersStay(j) ==
  /\ DOMAIN job' = DOMAIN job /\ DOMAIN ran' = DOMAIN ran /\ DOMAIN ch' = DOMAIN ch
  /\ \A k \in RetriedJobs \ {j} : job'[k] = job[k] /\ ran'[k] = ran[k] /\ ch'[k] = ch[k]

LEMMA OneJobMoves ==
  ASSUME JobInv, NEW j \in RetriedJobs, OthersStay(j), JobOK(job'[j], ran'[j], ch'[j])
  PROVE  JobInv'
<1>1. ASSUME NEW k \in RetriedJobs PROVE JobOK(job'[k], ran'[k], ch'[k])
  BY DEF JobInv, OthersStay
<1> QED
  BY <1>1 DEF JobInv, OthersStay

LEMMA RetryStep ==
  ASSUME JobInv, J!Next
  PROVE  JobInv'
<1> USE DEF OthersStay, JobInv
<1>1. ASSUME NEW j \in RetriedJobs, J!Attempt(j) PROVE JobInv'
  <2>1. /\ job[j].pc = "loop" /\ JobOK(job[j], ran[j], ch[j]) /\ OthersStay(j)
        /\ job'[j] = [job[j] EXCEPT !.pc = "select"] /\ ch'[j] = ch[j]
        /\ ran'[j] = Append(ran[j], [state |-> "running", result |-> "none"])
    BY <1>1 DEF J!Attempt
  <2>2. AllFailed(ran[j], ch[j]) /\ ran[j] \in Attempts /\ Len(ran[j]) = job[j].i
    BY <2>1 DEF JobOK
  <2>3. /\ ran'[j] \in Attempts /\ Len(ran'[j]) = Len(ran[j]) + 1
        /\ ran'[j][Len(ran[j]) + 1].state = "running"
        /\ \A i \in 1..Len(ran[j]) : ran'[j][i] = ran[j][i]
    BY <2>1, <2>2 DEF Attempts, Tried
  <2>4. Pending(ran'[j], ch'[j])
    BY <2>1, <2>2, <2>3 DEF Pending, AllFailed, Attempts
  <2>5. JobOK(job'[j], ran'[j], ch'[j])
    BY <2>1, <2>2, <2>3, <2>4 DEF JobOK
  <2> QED
    BY <2>1, <2>5, OneJobMoves
<1>2. ASSUME NEW j \in RetriedJobs, J!GiveUp(j) PROVE JobInv'
  <2>1. /\ job[j].pc = "loop" /\ JobOK(job[j], ran[j], ch[j]) /\ OthersStay(j)
        /\ job[j].i = retryNums /\ ran'[j] = ran[j] /\ ch'[j] = ch[j]
        /\ job'[j] = [job[j] EXCEPT !.pc = "done", !.answer = "error"]
    BY <1>2 DEF J!GiveUp, J!Return
  <2>2. AllFailed(ran[j], ch[j]) /\ Len(ran[j]) > 0
    BY <2>1, RetryAssumption DEF JobOK
  <2>3. JobOK(job'[j], ran'[j], ch'[j])
    BY <2>1, <2>2 DEF JobOK
  <2> QED
    BY <2>1, <2>3, OneJobMoves
<1>3. ASSUME NEW j \in RetriedJobs, J!Take(j) PROVE JobInv'
  <2> DEFINE s == ran[j]
             r == ran[j][Len(ran[j])].result
  <2>1. /\ job[j].pc = "select" /\ ch[j] # <<>> /\ JobOK(job[j], s, ch[j]) /\ OthersStay(j)
        /\ ran'[j] = s /\ ch'[j] = <<>>
        /\ \/ /\ Head(ch[j]) \in {"nil", "fatal"}
              /\ job'[j] = [job[j] EXCEPT !.pc = "done", !.answer = Head(ch[j])]
           \/ Head(ch[j]) = "error" /\ job'[j] = [job[j] EXCEPT !.pc = "sleep"]
    BY <1>3 DEF J!Take, J!Return
  <2>2. Pending(s, ch[j]) /\ s \in Attempts /\ Len(s) = job[j].i + 1
    BY <2>1 DEF JobOK
  <2>3. s[Len(s)].state = "sent" /\ ch[j] = <<r>> /\ Head(ch[j]) = r
    BY <2>1, <2>2 DEF Pending
  <2>4. CASE r \in {"nil", "fatal"}
    <3>1. Answered(s, ch'[j], r)
      BY <2>1, <2>2, <2>3 DEF Pending, Answered
    <3>2. JobOK(job'[j], ran'[j], ch'[j])
      BY <2>1, <2>2, <2>3, <2>4, <3>1 DEF JobOK
    <3> QED
      BY <2>1, <3>2, OneJobMoves
  <2>5. CASE r = "error"
    <3>1. AllFailed(s, ch'[j])
      BY <2>1, <2>2, <2>3, <2>5 DEF Pending, AllFailed, Attempts
    <3>2. JobOK(job'[j], ran'[j], ch'[j])
      BY <2>1, <2>2, <2>3, <2>5, <3>1 DEF JobOK
    <3> QED
      BY <2>1, <3>2, OneJobMoves
  <2> QED
    BY <2>1, <2>3, <2>4, <2>5
<1>4. ASSUME NEW j \in RetriedJobs, J!TimedOut(j) PROVE JobInv'
  <2>1. /\ job[j].pc = "select" /\ JobOK(job[j], ran[j], ch[j]) /\ OthersStay(j)
        /\ ran'[j] = ran[j] /\ ch'[j] = ch[j]
        /\ job'[j] = [job[j] EXCEPT !.pc = "done", !.answer = "timeout"]
    BY <1>4 DEF J!TimedOut, J!Return
  <2>2. JobOK(job'[j], ran'[j], ch'[j])
    BY <2>1 DEF JobOK
  <2> QED
    BY <2>1, <2>2, OneJobMoves
<1>5. ASSUME NEW j \in RetriedJobs, J!Sleep(j) PROVE JobInv'
  <2>1. /\ job[j].pc = "sleep" /\ JobOK(job[j], ran[j], ch[j]) /\ OthersStay(j)
        /\ ran'[j] = ran[j] /\ ch'[j] = ch[j]
        /\ job'[j] = [job[j] EXCEPT !.pc = "loop", !.i = job[j].i + 1]
    BY <1>5 DEF J!Sleep
  <2>2. /\ AllFailed(ran[j], ch[j]) /\ Len(ran[j]) = job[j].i + 1 /\ ran[j] \in Attempts
        /\ job[j].answer = "none" /\ job[j].i \in Nat
    BY <2>1 DEF JobOK
  <2>3. job'[j] = [pc |-> "loop", i |-> job[j].i + 1, answer |-> "none"]
    BY <2>1, <2>2 DEF JobOK
  <2>4. JobOK(job'[j], ran'[j], ch'[j])
    BY <2>1, <2>2, <2>3 DEF JobOK
  <2> QED
    BY <2>1, <2>4, OneJobMoves
<1>6. ASSUME NEW j \in RetriedJobs, J!ContextEnds(j) PROVE JobInv'
  BY <1>6 DEF J!ContextEnds
<1>7. ASSUME NEW j \in RetriedJobs, NEW n \in 1..retryNums, J!HandlerSends(j, n) PROVE JobInv'
  <2> DEFINE s == ran[j]
             x == [ran[j][n] EXCEPT !.state = "sent"]
  <2>1. /\ n \in DOMAIN s /\ s[n].state = "returned" /\ JobOK(job[j], s, ch[j]) /\ OthersStay(j)
        /\ ran'[j] = [s EXCEPT ![n] = x] /\ ch'[j] = Append(ch[j], s[n].result)
        /\ job'[j] = job[j]
    BY <1>7 DEF J!HandlerSends
  <2>2. s \in Attempts /\ n \in 1..Len(s) /\ ~AllFailed(s, ch[j])
    BY <2>1 DEF JobOK, Attempts, AllFailed, Tried
  <2>3. Pending(s, ch[j]) /\ n = Len(s) /\ ch[j] = <<>>
    BY <2>1, <2>2 DEF JobOK, Pending, Answered
  <2>4. /\ x \in Tried
        /\ x.state = "sent" /\ x.result = s[n].result
    <3>1. s[n] \in Tried
      BY <2>2 DEF Attempts
    <3> QED
      BY <3>1 DEF Tried
  <2>5. ran'[j] \in Attempts /\ Len(ran'[j]) = Len(s) /\ ran'[j][n] = x
        /\ \A i \in 1..Len(s) : i # n => ran'[j][i] = s[i]
    BY <2>1, <2>2, <2>4 DEF Attempts
  <2>6. ch'[j] = <<x.result>>
    BY <2>1, <2>3, <2>4
  <2>7. Pending(ran'[j], ch'[j])
    BY <2>3, <2>4, <2>5, <2>6 DEF Pending
  <2>8. JobOK(job'[j], ran'[j], ch'[j])
    BY <2>1, <2>2, <2>3, <2>5, <2>7 DEF JobOK, Answered
  <2> QED
    BY <2>1, <2>8, OneJobMoves
<1>8. ASSUME NEW j \in RetriedJobs, NEW n \in 1..retryNums, NEW r \in {"nil", "error", "fatal"},
             J!HandlerReturns(j, n, r)
      PROVE  JobInv'
  <2> DEFINE s == ran[j]
             x == [state |-> "returned", result |-> r]
  <2>1. /\ n \in DOMAIN s /\ s[n].state = "running" /\ JobOK(job[j], s, ch[j]) /\ OthersStay(j)
        /\ ran'[j] = [s EXCEPT ![n] = x] /\ ch'[j] = ch[j] /\ job'[j] = job[j]
    BY <1>8 DEF J!HandlerReturns
  <2>2. s \in Attempts /\ n \in 1..Len(s) /\ ~AllFailed(s, ch[j])
    BY <2>1 DEF JobOK, Attempts, AllFailed
  <2>3. Pending(s, ch[j]) /\ n = Len(s) /\ ch[j] = <<>>
    BY <2>1, <2>2 DEF JobOK, Pending, Answered
  <2>4. ran'[j] \in Attempts /\ Len(ran'[j]) = Len(s) /\ ran'[j][n] = x
        /\ \A i \in 1..Len(s) : i # n => ran'[j][i] = s[i]
    BY <2>1, <2>2 DEF Attempts, Tried
  <2>5. Pending(ran'[j], ch'[j])
    BY <2>1, <2>3, <2>4 DEF Pending
  <2>6. JobOK(job'[j], ran'[j], ch'[j])
    BY <2>1, <2>2, <2>3, <2>4, <2>5 DEF JobOK, Answered
  <2> QED
    BY <2>1, <2>6, OneJobMoves
<1> QED
  BY <1>1, <1>2, <1>3, <1>4, <1>5, <1>6, <1>7, <1>8 DEF J!Next, J!Errors

(* The retries are a part of the runs of TaskSpec.                          *)
LEMMA TasksRetry == TaskSpec => J!Spec
<1>1. TaskInit => J!Init
  BY DEF TaskInit
<1>2. [TaskNext]_<<part, vars, jobVars>> => [J!Next]_jobVars
  BY DEF TaskNext, jobVars
<1> QED
  BY <1>1, <1>2, PTL DEF TaskSpec, J!Spec, J!vars, jobVars

(* AnswersAreTrue: two attempts of a job never run at a time, a handler     *)
(* finds room for its answer, only the last may have succeeded, and the job *)
(* answers what that attempt did.                                           *)
THEOREM RetriesAnswerTruly == TaskSpec => []AnswersAreTrue
<1>1. J!Init => JobInv
  BY DEF J!Init, JobInv, JobOK, AllFailed, Attempts
<1>2. JobInv /\ [J!Next]_jobVars => JobInv'
  <2>1. CASE J!Next
    BY <2>1, RetryStep
  <2>2. CASE UNCHANGED jobVars
    BY <2>2 DEF jobVars, JobInv
  <2> QED
    BY <2>1, <2>2
<1>3. JobInv => AnswersAreTrue
  <2> SUFFICES ASSUME JobInv, NEW j \in RetriedJobs
               PROVE  LET n == Len(ran[j])
                          Result(i) == ran[j][i].result
                      IN /\ \A i \in 1..n : i < n => ran[j][i].state = "sent" /\ Result(i) = "error"
                         /\ n > 0 /\ ran[j][n].state = "returned" => Len(ch[j]) < J!ChanCap
                         /\ job[j].answer \in {"nil", "error", "fatal"} => n > 0 /\ Result(n) = job[j].answer
    BY DEF AnswersAreTrue, J!AnswersAreTrue
  <2>1. JobOK(job[j], ran[j], ch[j])
    BY DEF JobInv
  <2>2. \/ AllFailed(ran[j], ch[j])
        \/ Pending(ran[j], ch[j])
        \/ Answered(ran[j], ch[j], job[j].answer)
    BY <2>1 DEF JobOK
  <2>3. Len(ran[j]) \in Nat
    BY <2>1 DEF JobOK, Attempts
  <2> QED
    BY <2>1, <2>2, <2>3 DEF JobOK, AllFailed, Pending, Answered, J!ChanCap
<1> QED
  BY <1>1, <1>2, <1>3, TasksRetry, PTL DEF J!Spec, J!vars, jobVars
=============================================================================
