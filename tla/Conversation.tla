---------------------------- MODULE Conversation ----------------------------
(***************************************************************************)
(* Conversations, as the IM rpc and the task MQ keep them in three Mongo   *)
(* collections:                                                            *)
(*                                                                         *)
(*   conversation   how many messages a conversation has and its last one  *)
(*   conversations  one document per user: the conversations he sees and   *)
(*                  how many messages of each he has read                  *)
(*   chat_log       the messages                                           *)
(*                                                                         *)
(* A user's document is loaded, changed in memory and written back whole.  *)
(* Every command to Mongo is a step of its own, any of them may fail, and  *)
(* a goroutine may end between two of them.  No collection has a unique    *)
(* index, so a document may be inserted twice; finding one takes the       *)
(* first.                                                                  *)
(***************************************************************************)
EXTENDS Integers, Sequences, FiniteSets

CONSTANTS
  Users,
  Groups,       \* ids of groups, which are the ids of their conversations
  Procs,        \* goroutines of the rpc server and of the task MQ
  MaxAttempts,  \* RpcRetry of im.Im, the first call included
  MaxLogs,      \* bound: messages stored in a conversation
  MaxCalls      \* bound: calls of clients and messages consumed

ASSUME BoundsAssumption == MaxAttempts \in Nat \ {0} /\ MaxLogs \in Nat /\ MaxCalls \in Nat
ASSUME ProcsAssumption == IsFiniteSet(Procs)

VARIABLES
  conversation,   \* conversation id -> its documents, in order of insertion
  conversations,  \* user -> his documents, in order of insertion
  logs,           \* conversation id -> messages stored; each named by its number
  calls,          \* how many calls were made
  run,            \* what each goroutine is about to do
  answer,         \* the unread counts each user's client got last
  overwritten,    \* history: users with a document saved from a stale copy
  broken,         \* history: conversations whose set-up failed half way
  again           \* history: how many messages a user's document may count twice

vars == <<conversation, conversations, logs, calls, run, answer, overwritten, broken, again>>
store == <<conversation, conversations, logs>>
history == <<overwritten, broken, again>>

(* wuid.CombineId sorts its arguments: a single chat is named by its pair.  *)
(* A chat with oneself is left out.                                         *)
Pairs == {{u, v} : u, v \in Users} \ {{u} : u \in Users}
Convs == Pairs \cup Groups

ASSUME GroupsAssumption == Pairs \cap Groups = {}

(* A ConversationList: conversation id -> Total, the messages read, of the  *)
(* conversations it has.                                                    *)
Unlisted == -1
Lists == [Convs -> Nat \cup {Unlisted}]
NoList == [c \in Convs |-> Unlisted]
Listed(list) == {c \in Convs : list[c] # Unlisted}
Doc == [total: Nat, msg: Nat]   \* msg is 0 while there is none

Idle == [at |-> "idle"]
(* The steps of a set-up carry the users whose lists are still to be done,  *)
(* the caller first; none for a group.  A copy is the loaded document, new  *)
(* when none was found.                                                     *)
Todo == Seq(Users) \ {<<>>}
FindSteps == [at: {"find", "insert"}, conv: Convs, todo: Seq(Users)]
LoadSteps == [at: {"load"}, conv: Convs, todo: Todo]
SaveSteps == [at: {"save"}, conv: Convs, todo: Todo, list: Lists, new: BOOLEAN]
GetSteps == [at: {"getLoad"}, user: Users]
GetCountSteps == [at: {"getCount"}, user: Users, list: Lists]
PutSteps == [at: {"putLoad", "putAnswer"}, user: Users, reads: Lists, tries: Nat]
PutSaveSteps == [at: {"putSave"}, user: Users, reads: Lists, tries: Nat, list: Lists]
LogSteps == [at: {"log"}, conv: Convs]
CountSteps == [at: {"count"}, conv: Convs, msg: Nat]
Steps == {Idle} \cup FindSteps \cup LoadSteps \cup SaveSteps \cup GetSteps \cup GetCountSteps
         \cup PutSteps \cup PutSaveSteps \cup LogSteps \cup CountSteps

Init ==
  /\ conversation = [c \in Convs |-> <<>>]
  /\ conversations = [u \in Users |-> <<>>]
  /\ logs = [c \in Convs |-> 0]
  /\ calls = 0 /\ run = [p \in Procs |-> Idle]
  /\ answer = [u \in Users |-> NoList]
  /\ overwritten = {} /\ broken = {} /\ again = [u \in Users |-> [c \in Convs |-> 0]]

(* A call begins; a goroutine goes on with its next step, or is done.       *)
Start(p, step) ==
  /\ run[p] = Idle /\ calls < MaxCalls
  /\ calls' = calls + 1
  /\ run' = [run EXCEPT ![p] = step]
Goto(p, step) == run' = [run EXCEPT ![p] = step] /\ UNCHANGED calls
Return(p) == Goto(p, Idle)

(* What a lookup finds of a user's documents.                               *)
First(docs) == IF docs = <<>> THEN NoList ELSE docs[1]

Read(list, c) == IF list[c] = Unlisted THEN 0 ELSE list[c]
(* The messages that one list counts as read and another does not.          *)
Ahead(list, list2) == [c \in Convs |-> IF Read(list, c) > Read(list2, c)
                                       THEN Read(list, c) - Read(list2, c) ELSE 0]
Twice(u, amount) == again' = [again EXCEPT ![u] = [c \in Convs |-> @[c] + amount[c]]]

(* The document of u is saved from a copy; it is stale if the document is   *)
(* not what it was when the copy was made.  Reads that another stale save   *)
(* had undone come back with it.                                            *)
Current(u, list, new) ==
  IF new THEN conversations[u] = <<>> ELSE conversations[u][1] = list
Save(u, list, new, list2) ==
  /\ conversations' = [conversations EXCEPT ![u] =
       IF new THEN Append(@, list2) ELSE [@ EXCEPT ![1] = list2]]
  /\ overwritten' = IF Current(u, list, new) THEN overwritten ELSE overwritten \cup {u}
  /\ Twice(u, Ahead(list, First(conversations[u])))

-----------------------------------------------------------------------------
(* SetUpUserConversation and CreateGroupConversation *)

(* A user opens a single chat with another.                                 *)
SetUp(p, sender, receiver) ==
  /\ sender # receiver
  /\ Start(p, [at |-> "find", conv |-> {sender, receiver}, todo |-> <<sender, receiver>>])
  /\ UNCHANGED <<store, answer, history>>

(* The social api has created a group.                                      *)
CreateGroup(p, g) ==
  /\ Start(p, [at |-> "find", conv |-> g, todo |-> <<>>])
  /\ UNCHANGED <<store, answer, history>>

(* An existing conversation ends the call, whatever the users' lists hold.  *)
FindConversation(p) ==
  /\ run[p].at = "find"
  /\ IF conversation[run[p].conv] # <<>>
     THEN Return(p)
     ELSE Goto(p, [run[p] EXCEPT !.at = "insert"])
  /\ UNCHANGED <<store, answer, history>>

(* The lists of the users in todo are still to be set up.                   *)
GoOn(p, todo) ==
  IF todo = <<>> THEN Return(p)
  ELSE Goto(p, [at |-> "load", conv |-> run[p].conv, todo |-> todo])

(* Mutant: the document is left to be inserted by the first message.        *)
SkipInsert(p) ==
  /\ run[p].at = "insert"
  /\ GoOn(p, run[p].todo)
  /\ UNCHANGED <<store, answer, history>>
InsertConversation(p) ==
  /\ run[p].at = "insert"
  /\ conversation' = [conversation EXCEPT ![run[p].conv] =
                        Append(@, [total |-> 0, msg |-> 0])]
  /\ GoOn(p, run[p].todo)
  /\ UNCHANGED <<conversations, logs, answer, history>>

(* setUpUserConversation: the user's document is looked up; without one a   *)
(* new one is made, and a user who lists the conversation already is done.  *)
LoadList(p) ==
  LET r == run[p]
      docs == conversations[Head(r.todo)]
  IN /\ r.at = "load"
     /\ IF docs # <<>> /\ r.conv \in Listed(docs[1])
        THEN GoOn(p, Tail(r.todo))
        ELSE Goto(p, [at |-> "save", conv |-> r.conv, todo |-> r.todo,
                      list |-> First(docs), new |-> docs = <<>>])
     /\ UNCHANGED <<store, answer, history>>

(* The conversation is added, unread, and the document written back.        *)
WithEntry(list, c) == [list EXCEPT ![c] = 0]
(* Mutant: the receiver is forgotten.                                       *)
SaveSenderOnly(p) ==
  LET r == run[p]
  IN /\ r.at = "save"
     /\ Save(Head(r.todo), r.list, r.new, WithEntry(r.list, r.conv))
     /\ Return(p)
     /\ UNCHANGED <<conversation, logs, answer, broken>>
SaveList(p) ==
  LET r == run[p]
  IN /\ r.at = "save"
     /\ Save(Head(r.todo), r.list, r.new, WithEntry(r.list, r.conv))
     /\ GoOn(p, Tail(r.todo))
     /\ UNCHANGED <<conversation, logs, answer, broken>>

-----------------------------------------------------------------------------
(* GetConversations and PutConversations.  A client waits for the answer to *)
(* one before it sends the next.                                            *)

Waiting(u) == \E p \in Procs :
  /\ run[p].at \in {"getLoad", "getCount", "putLoad", "putSave", "putAnswer"}
  /\ run[p].user = u

Get(p, u) ==
  /\ ~Waiting(u)
  /\ Start(p, [at |-> "getLoad", user |-> u])
  /\ UNCHANGED <<store, answer, history>>

(* A user without a document gets an empty answer.                          *)
(* Mutant: an empty document is made for him.                               *)
GetLoadCreating(p) ==
  LET u == run[p].user
      docs == IF conversations[u] = <<>> THEN <<NoList>> ELSE conversations[u]
  IN /\ run[p].at = "getLoad"
     /\ conversations' = [conversations EXCEPT ![u] = docs]
     /\ Goto(p, [at |-> "getCount", user |-> u, list |-> docs[1]])
     /\ UNCHANGED <<conversation, logs, answer, history>>
GetLoad(p) ==
  LET docs == conversations[run[p].user]
  IN /\ run[p].at = "getLoad"
     /\ IF docs = <<>>
        THEN /\ answer' = [answer EXCEPT ![run[p].user] = NoList]
             /\ Return(p)
        ELSE /\ Goto(p, [at |-> "getCount", user |-> run[p].user, list |-> docs[1]])
             /\ UNCHANGED answer
     /\ UNCHANGED <<store, history>>

(* Messages counted in a conversation; later documents count none.          *)
Total(c) == IF conversation[c] = <<>> THEN 0 ELSE conversation[c][1].total

(* Mutants: one message too many is reported as unread; the two counts are  *)
(* swapped.                                                                 *)
ToReadOneMore(list) ==
  [c \in Convs |-> IF list[c] = Unlisted THEN Unlisted ELSE Total(c) - list[c] + 1]
ToReadSwapped(list) ==
  [c \in Convs |-> IF list[c] = Unlisted THEN Unlisted ELSE list[c] - Total(c)]
ToRead(list) ==
  [c \in Convs |-> IF list[c] = Unlisted THEN Unlisted
                   ELSE IF list[c] < Total(c) THEN Total(c) - list[c] ELSE 0]

GetCount(p) ==
  /\ run[p].at = "getCount"
  /\ answer' = [answer EXCEPT ![run[p].user] = ToRead(run[p].list)]
  /\ Return(p)
  /\ UNCHANGED <<store, history>>

(* The client reports n messages of c as read: some of those it was told of *)
(* as unread, or none, of a group it has just opened.                       *)
Put(p, u, c, n) ==
  /\ ~Waiting(u)
  /\ \/ n <= answer[u][c]
     \/ c \in Groups /\ conversation[c] # <<>> /\ n = 0
  /\ Start(p, [at |-> "putLoad", user |-> u, reads |-> [NoList EXCEPT ![c] = n], tries |-> 1])
  /\ answer' = [answer EXCEPT ![u] = NoList]
  /\ UNCHANGED <<store, history>>

(* A user without a document gets an error.                                 *)
PutLoad(p) ==
  LET r == run[p]
      docs == conversations[r.user]
  IN /\ r.at = "putLoad"
     /\ IF docs = <<>> THEN Return(p)
        ELSE Goto(p, [at |-> "putSave", user |-> r.user, reads |-> r.reads,
                      tries |-> r.tries, list |-> docs[1]])
     /\ UNCHANGED <<store, answer, history>>

(* Every reported conversation is entered with what was read before and now. *)
AddReads(list, reads) ==
  [c \in Convs |-> IF reads[c] = Unlisted THEN list[c] ELSE reads[c] + Read(list, c)]

PutSave(p) ==
  LET r == run[p]
  IN /\ r.at = "putSave"
     /\ Save(r.user, r.list, FALSE, AddReads(r.list, r.reads))
     /\ Goto(p, [at |-> "putAnswer", user |-> r.user, reads |-> r.reads, tries |-> r.tries])
     /\ UNCHANGED <<conversation, logs, answer, broken>>

PutAnswer(p) ==
  /\ run[p].at = "putAnswer"
  /\ Return(p)
  /\ UNCHANGED <<store, answer, history>>

(* The connection breaks and gRPC sends the call again: UNAVAILABLE.  What  *)
(* was saved will be counted a second time.                                 *)
PutRetry(p) ==
  LET r == run[p]
  IN /\ r.at \in {"putLoad", "putSave", "putAnswer"} /\ r.tries < MaxAttempts
     /\ Goto(p, [at |-> "putLoad", user |-> r.user, reads |-> r.reads, tries |-> r.tries + 1])
     /\ IF r.at = "putAnswer" THEN Twice(r.user, [c \in Convs |-> Read(r.reads, c)]) ELSE UNCHANGED again
     /\ UNCHANGED <<store, answer, overwritten, broken>>

-----------------------------------------------------------------------------
(* MsgChatTransfer.Consume; a redelivered message is consumed like a new one *)

Consume(p, c) ==
  /\ Start(p, [at |-> "log", conv |-> c])
  /\ UNCHANGED <<store, answer, history>>

(* addChatLog inserts the message under an id of its own ...                *)
StoreLog(p) ==
  LET c == run[p].conv
  IN /\ run[p].at = "log" /\ logs[c] < MaxLogs
     /\ logs' = [logs EXCEPT ![c] = @ + 1]
     /\ Goto(p, [at |-> "count", conv |-> c, msg |-> logs[c] + 1])
     /\ UNCHANGED <<conversation, conversations, answer, history>>

(* ... and UpdateMsg counts it, if there is a conversation to count it in.  *)
(* Mutant: it is counted in every conversation that exists.                 *)
UpdateEvery(p) ==
  LET r == run[p]
  IN /\ r.at = "count"
     /\ conversation' = [c \in Convs |-> IF conversation[c] = <<>> THEN <<>> ELSE
          [conversation[c] EXCEPT ![1] = [total |-> @.total + 1, msg |-> r.msg]]]
     /\ Return(p)
     /\ UNCHANGED <<conversations, logs, answer, history>>
UpdateMsg(p) ==
  LET r == run[p]
  IN /\ r.at = "count"
     /\ conversation' = IF conversation[r.conv] = <<>> THEN conversation ELSE
          [conversation EXCEPT ![r.conv][1] = [total |-> @.total + 1, msg |-> r.msg]]
     /\ Return(p)
     /\ UNCHANGED <<conversations, logs, answer, history>>

-----------------------------------------------------------------------------

(* A command fails, the caller gives up or the process dies: whatever comes *)
(* after it does not happen.  A set-up is half done once the conversation   *)
(* is inserted.                                                             *)
Fail(p) ==
  /\ run[p] # Idle
  /\ Return(p)
  /\ broken' = IF run[p].at \in {"load", "save"} THEN broken \cup {run[p].conv} ELSE broken
  /\ UNCHANGED <<store, answer, overwritten, again>>

Step(p) ==
  \/ FindConversation(p) \/ InsertConversation(p) \/ LoadList(p) \/ SaveList(p)
  \/ GetLoad(p) \/ GetCount(p)
  \/ PutLoad(p) \/ PutSave(p) \/ PutAnswer(p)
  \/ StoreLog(p) \/ UpdateMsg(p)
Call(p) ==
  \/ \E u, v \in Users : SetUp(p, u, v)
  \/ \E g \in Groups : CreateGroup(p, g)
  \/ \E u \in Users : Get(p, u)
  \/ \E u \in Users, c \in Convs, n \in 0..MaxLogs : Put(p, u, c, n)
  \/ \E c \in Convs : Consume(p, c)
Next == \E p \in Procs : Call(p) \/ Step(p) \/ PutRetry(p) \/ Fail(p)

Spec == Init /\ [][Next]_vars

-----------------------------------------------------------------------------
(* Properties *)

(* Types of the collections and of every goroutine's step.                  *)
TypeOK ==
  /\ conversation \in [Convs -> Seq(Doc)]
  /\ conversations \in [Users -> Seq(Lists)]
  /\ logs \in [Convs -> Nat] /\ calls \in 0..MaxCalls
  /\ run \in [Procs -> Steps]
  /\ answer \in [Users -> Lists]
  /\ overwritten \subseteq Users /\ broken \subseteq Convs
  /\ again \in [Users -> [Convs -> Nat]]

(* CountedIsStored: a conversation never counts more messages than the chat *)
(* log holds, and the message it shows as its last one is in the log:       *)
(* addChatLog stores before it counts, and counts what it stored once.      *)
CountedIsStored ==
  \A c \in Convs : \A i \in DOMAIN conversation[c] :
    conversation[c][i].total <= logs[c] /\ conversation[c][i].msg <= logs[c]

(* ListedExists: a conversation in somebody's list has a document to count  *)
(* its messages in, whichever of the steps that set it up were reached.     *)
ListedExists ==
  \A u \in Users : \A i \in DOMAIN conversations[u] :
    \A c \in Listed(conversations[u][i]) : conversation[c] # <<>>

(* EstablishedIsListed: once the set-up of a single chat is over, both find *)
(* it in their lists.  The exceptions are what goes wrong in this code: a   *)
(* set-up that failed half way is never repaired, because the conversation  *)
(* is found when it is tried again (setupuserconversationlogic.go:56), and  *)
(* a list saved from a stale copy loses what was added in the meantime.     *)
EstablishedIsListed ==
  \A c \in Pairs \ broken :
    (conversation[c] # <<>> /\ \A p \in Procs : run[p].at \in {"load", "save"} => run[p].conv # c)
    => \A u \in c \ overwritten : conversations[u] # <<>> /\ c \in Listed(conversations[u][1])

(* ReadWithinTotal: whatever fails, races or is sent again, a user has read *)
(* no more messages of a conversation than there are and than were counted  *)
(* twice, so that GetConversations hides no other new one.                  *)
(* PutConversations adds to what was read before: counted twice is a report *)
(* that was saved and sent again because its answer was lost, and what a    *)
(* stale copy brings back after another stale copy had undone it; a user to *)
(* whom neither happened has read no more than there is.                    *)
ReadWithinTotal ==
  \A u \in Users : \A i \in DOMAIN conversations[u] : \A c \in Convs :
    conversations[u][i][c] <= Total(c) + again[u][c]

(* NoEmptyList: a stored list has an entry.  An empty one would come back   *)
(* from Mongo as a nil map, into which a set-up writes.                     *)
NoEmptyList ==
  \A u \in Users : \A i \in DOMAIN conversations[u] : conversations[u][i] # NoList

-----------------------------------------------------------------------------
(* What documents and configuration say of this code, and it does not do.   *)

(* ReportedOnce: only idempotent operations may be retried                  *)
(* (docs/grpc-retry-configuration-practice.md:283), and im.yaml retries     *)
(* every call of im.Im: a repeated report would then count once, and nobody *)
(* would have read more messages than there are.                            *)
ReportedOnce ==
  \A u \in Users \ overwritten : \A i \in DOMAIN conversations[u] :
    \A c \in Convs : conversations[u][i][c] <= Total(c)
=============================================================================
