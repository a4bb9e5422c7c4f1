----------------------------- MODULE ReadRecords -----------------------------
(***************************************************************************)
(* Who has read a message: the read mark that a member sends, and the      *)
(* field read_records of the messages it names, one bit for each member of *)
(* a group, at the place his id hashes to, and one byte for a single chat. *)
(*                                                                         *)
(* Several goroutines consume marks; each loads the messages of its mark,  *)
(* sets a bit in each copy, stores the copies one by one, and hands them   *)
(* to the merging of receipts (GroupRead), which keeps the last.  The      *)
(* queue commits a mark also after an error, and after a restart or a      *)
(* rebalance marks may come again (Delivery).                              *)
(***************************************************************************)
EXTENDS Naturals, FiniteSets

CONSTANTS
  Readers,      \* the members who read
  GroupLogs,    \* the messages of groups
  SingleLogs,   \* the messages of single chats
  Hash,         \* bitmap.hash: Readers -> Nat
  Size,         \* the bits of a bitmap: 2000
  Consumers,    \* the goroutines of the queue
  MaxMarks,     \* bound: the marks that are sent
  MaxRepeats    \* bound: how often a mark comes again

VARIABLES
  records,    \* the field read_records of each message, as the set of its ones
  marks,      \* the marks in the queue
  taken,      \* the marks the queue handed out, which may come again
  sent,       \* how many were sent
  repeats,    \* how many came again
  consumer,   \* Consume in each goroutine
  shown,      \* for each message, the copy that was handed on last
  claimed,    \* history: who said to have read what
  stored,     \* history: whose read of what UpdateMakeRead has stored
  overtaken,  \* history: of these, what a copy loaded before was stored over
  handed,     \* history: the stored reads whose receipt was handed on
  hidden      \* history: of these, what a receipt computed before came after

queue == <<marks, taken, sent, repeats>>
vars == <<records, queue, consumer, shown, claimed, stored, overtaken, handed, hidden>>

Logs == GroupLogs \cup SingleLogs

-----------------------------------------------------------------------------
(* A bitmap is the set of its ones.  One of no bytes is made anew, empty.   *)
Place(u) == Hash[u] % Size
(* Mutant: the old bits are left out.                                       *)
SetAlone(bits, u) == {Place(u)}
Set(bits, u) == bits \cup {Place(u)}
IsSet(bits, u) == Place(u) \in bits
Load(bits) == bits
One == {0}       \* []byte{1}

NoMark == [reader |-> "none", logs |-> {}]
Idle == [pc |-> "idle", mark |-> NoMark, loaded |-> {}, todo |-> {}, res |-> {}, since |-> {}]

Init ==
  /\ records = [l \in Logs |-> {}]
  /\ marks = {} /\ taken = {} /\ sent = 0 /\ repeats = 0
  /\ consumer = [p \in Consumers |-> Idle]
  /\ shown = [l \in Logs |-> {}]
  /\ claimed = {} /\ stored = {} /\ overtaken = {} /\ handed = {} /\ hidden = {}

(* The websocket handler MarkRead: nobody checks that the user belongs to   *)
(* the conversation, or that the messages do.                               *)
MarkRead(u, logs) ==
  /\ sent < MaxMarks
  /\ sent' = sent + 1
  /\ marks' = marks \cup {[id |-> sent + 1, reader |-> u, logs |-> logs]}
  /\ claimed' = claimed \cup {<<u, l>> : l \in logs}
  /\ UNCHANGED <<records, taken, repeats, consumer, shown, stored, overtaken, handed, hidden>>

(* A goroutine takes a mark, and ListByMsgIds answers with the messages, or *)
(* Consume returns its error.  since is a history: what others stored, of   *)
(* the same messages, after these copies were loaded.                       *)
ListByMsgIds(p, mark) ==
  /\ consumer[p].pc = "idle" /\ mark \in marks
  /\ marks' = marks \ {mark} /\ taken' = taken \cup {mark}
  /\ \/ consumer' = [consumer EXCEPT ![p] =
          [pc |-> "update", mark |-> mark, loaded |-> {<<l, Load(records[l])>> : l \in mark.logs},
           todo |-> mark.logs, res |-> {}, since |-> {}]]
     \/ UNCHANGED consumer
  /\ UNCHANGED <<records, sent, repeats, shown, claimed, stored, overtaken, handed, hidden>>

(* The bit of the reader in the copy of a group's message, all of a single  *)
(* chat's; UpdateMakeRead stores the copy.  That it failed is logged, and   *)
(* the copy goes into the receipt all the same.                             *)
Copy(p, l) == (CHOOSE e \in consumer[p].loaded : e[1] = l)[2]
Marked(p, l) == IF l \in GroupLogs THEN Set(Copy(p, l), consumer[p].mark.reader) ELSE One
Updated(p, l) == [consumer[p] EXCEPT !.todo = @ \ {l}, !.res = @ \cup {<<l, Marked(p, l)>>}]
UpdateMakeRead(p, l) ==
  LET e == <<consumer[p].mark.reader, l>>
  IN /\ consumer[p].pc = "update" /\ l \in consumer[p].todo
     /\ records' = [records EXCEPT ![l] = Marked(p, l)]
     /\ consumer' = [q \in Consumers |-> IF q = p THEN Updated(p, l)
                    ELSE [consumer[q] EXCEPT !.since = @ \cup ({e} \cap (Readers \X consumer[q].mark.logs))]]
     /\ stored' = stored \cup {e}
     /\ overtaken' = (overtaken \cup {f \in consumer[p].since : f[2] = l}) \ {e}
     /\ handed' = handed \ {e}
     /\ UNCHANGED <<queue, shown, claimed, hidden>>
UpdateFails(p, l) ==
  /\ consumer[p].pc = "update" /\ l \in consumer[p].todo
  /\ consumer' = [consumer EXCEPT ![p] = Updated(p, l)]
  /\ UNCHANGED <<records, queue, shown, claimed, stored, overtaken, handed, hidden>>

(* The receipt is merged over those before it, and Consume answers nil.     *)
MergeReceipt(p) ==
  LET c == consumer[p]
      mine == {<<c.mark.reader, l>> : l \in c.mark.logs}
  IN /\ c.pc = "update" /\ c.todo = {}
     /\ shown' = [l \in Logs |-> IF l \in c.mark.logs
                                 THEN (CHOOSE e \in c.res : e[1] = l)[2] ELSE shown[l]]
     /\ handed' = handed \cup (mine \cap stored)
     /\ hidden' = ({e \in hidden : e[2] \notin c.mark.logs} \cup c.since) \ mine
     /\ consumer' = [consumer EXCEPT ![p] = Idle]
     /\ UNCHANGED <<records, queue, claimed, stored, overtaken>>

(* The queue goes on from an offset before that of the mark.                *)
ComeAgain(mark) ==
  /\ mark \in taken /\ repeats < MaxRepeats
  /\ repeats' = repeats + 1
  /\ marks' = marks \cup {mark}
  /\ UNCHANGED <<records, taken, sent, consumer, shown, claimed, stored, overtaken, handed, hidden>>

(* The process dies, after any number of updates.                           *)
Restart ==
  /\ consumer' = [p \in Consumers |-> Idle]
  /\ UNCHANGED <<records, queue, shown, claimed, stored, overtaken, handed, hidden>>

Next ==
  \/ \E u \in Readers, logs \in SUBSET Logs \ {{}} : MarkRead(u, logs)
  \/ \E p \in Consumers :
       \/ \E mark \in marks : ListByMsgIds(p, mark)
       \/ \E l \in Logs : UpdateMakeRead(p, l) \/ UpdateFails(p, l)
       \/ MergeReceipt(p)
  \/ (\E mark \in taken : ComeAgain(mark)) \/ Restart

Spec == Init /\ [][Next]_vars

-----------------------------------------------------------------------------
(* Properties *)

(* RecordsAreTrue: what the bitmaps of a message say, in the chat log and   *)
(* in the receipt that was handed on last.  Every bit is that of somebody   *)
(* who sent a mark for the message, also if goroutines race, updates fail   *)
(* and marks come again.  Every read that was stored has its bit, also      *)
(* after any number of later marks, failures and restarts, unless a copy    *)
(* that was loaded before it was stored over it                             *)
(* (msgReadTransfer.go:162-172 is not atomic); and it has its bit in the    *)
(* receipt, once that was handed on, unless the receipt handed on last was  *)
(* computed before the read was stored (receipts are merged in the order of *)
(* their arrival).                                                          *)
Shows(bits, e) == IF e[2] \in GroupLogs THEN IsSet(bits, e[1]) ELSE bits = One
RecordsAreTrue ==
  /\ \A l \in Logs : \A b \in records[l] \cup shown[l] :
       \E u \in Readers : <<u, l>> \in claimed /\ b = IF l \in GroupLogs THEN Place(u) ELSE 0
  /\ \A e \in stored \ overtaken : Shows(records[e[2]], e)
  /\ \A e \in handed \ (overtaken \cup hidden) : Shows(shown[e[2]], e)
=============================================================================
