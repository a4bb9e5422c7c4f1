---------------------------- MODULE MCConversation ----------------------------
(* Conversation, ReadRecords and Delivery for TLC: what becomes of a chat   *)
(* message in the conversations, the read records and the clients.  Each is *)
(* a model of its own, and they share no variable: a behaviour moves one of *)
(* them, which part names, and what holds of each alone holds of all of     *)
(* them side by side.  Users and goroutines are interchangeable.            *)
EXTENDS Conversation, TLC

CONSTANTS Parts, Readers, GroupLogs, SingleLogs, Hash, Size, MaxMarks, MaxChats, MaxRepeats, r1, r2, r3

VARIABLES
  part,
  records, marks, marksTaken, sent, marksAgain, consumer, shown, claimed, stored, overtaken, handed, hidden,
  published, repeats, topic, taken, handler, chatlog, link, sending, pushes, tasks, online, inbox,
  missed, unstored

(* Hash of the configuration: two of the three ids collide in a bitmap of   *)
(* four.                                                                    *)
HashOf == (r1 :> 3) @@ (r2 :> 4) @@ (r3 :> 7)

R == INSTANCE ReadRecords WITH Consumers <- Procs, taken <- marksTaken, repeats <- marksAgain
D == INSTANCE Delivery WITH Chatters <- Users, Rooms <- Groups, InRoom <- [c \in Groups |-> Users],
       Handlers <- Procs

recordVars == <<records, marks, marksTaken, sent, marksAgain, consumer, shown, claimed, stored, overtaken, handed,
                hidden>>
deliveryVars == <<published, repeats, topic, taken, handler, chatlog, link, sending, pushes, tasks,
                  online, inbox, missed, unstored>>

ChatInit == part \in Parts /\ Init /\ R!Init /\ D!Init

ChatNext ==
  /\ UNCHANGED part
  /\ \/ part = "conversations" /\ Next /\ UNCHANGED <<recordVars, deliveryVars>>
     \/ part = "records" /\ R!Next /\ UNCHANGED <<vars, deliveryVars>>
     \/ part = "delivery" /\ D!Next /\ UNCHANGED <<vars, recordVars>>

ChatSpec == ChatInit /\ [][ChatNext]_<<part, vars, recordVars, deliveryVars>>

RecordsAreTrue == R!RecordsAreTrue
PushesAccounted == D!PushesAccounted

Symmetry == Permutations(Users) \cup Permutations(Procs)
=============================================================================
