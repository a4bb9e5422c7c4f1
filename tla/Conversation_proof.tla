------------------------- MODULE Conversation_proof -------------------------
(***************************************************************************)
(* Proofs about Conversation, for any users, groups and goroutines, and    *)
(* about the two components MCConversation sets beside it: ReadRecords and *)
(* Delivery.                                                               *)
(***************************************************************************)
EXTENDS MCConversation, SequenceTheorems, FiniteSetTheorems, TLAPS

(* What a goroutine carries is told by where it is.                         *)
LEMMA AtTells ==
  ASSUME NEW r \in Steps
  PROVE  /\ r.at \in {"find", "insert"} => r \in FindSteps
         /\ r.at = "load" => r \in LoadSteps
         /\ r.at = "save" => r \in SaveSteps
         /\ r.at = "getLoad" => r \in GetSteps
         /\ r.at = "getCount" => r \in GetCountSteps
         /\ r.at \in {"putLoad", "putAnswer"} => r \in PutSteps
         /\ r.at = "putSave" => r \in PutSaveSteps
         /\ r.at = "log" => r \in LogSteps
         /\ r.at = "count" => r \in CountSteps
BY DEF Steps, Idle, FindSteps, LoadSteps, SaveSteps, GetSteps, GetCountSteps,
       PutSteps, PutSaveSteps, LogSteps, CountSteps

(* Replacing the first element of a sequence keeps its type and length, and *)
(* does nothing to an empty one.                                            *)
LEMMA FirstReplaced ==
  ASSUME NEW S, NEW s \in Seq(S), NEW e \in S
  PROVE  /\ [s EXCEPT ![1] = e] \in Seq(S)
         /\ Len([s EXCEPT ![1] = e]) = Len(s)
         /\ s # <<>> => [s EXCEPT ![1] = e][1] = e
         /\ \A i \in 2..Len(s) : [s EXCEPT ![1] = e][i] = s[i]
<1>1. CASE s = <<>>
  <2>1. [s EXCEPT ![1] = e] = s
    BY <1>1
  <2> QED
    BY <2>1, <1>1
<1>2. CASE s # <<>>
  <2>1. 1 \in 1..Len(s)
    BY <1>2
  <2> QED
    BY <2>1, ExceptSeq
<1> QED
  BY <1>1, <1>2

(* Lists stay lists.                                                        *)
LEMMA ListsKept ==
  ASSUME NEW list \in Lists, NEW reads \in Lists, NEW c \in Convs, NEW n \in Nat
  PROVE  /\ NoList \in Lists
         /\ [NoList EXCEPT ![c] = n] \in Lists
         /\ WithEntry(list, c) \in Lists
         /\ AddReads(list, reads) \in Lists
<1>1. \A d \in Convs : Read(list, d) \in Nat
  BY DEF Lists, Read, Unlisted
<1> QED
  BY <1>1 DEF Lists, NoList, WithEntry, AddReads, Unlisted

LEMMA SetUpConvs ==
  ASSUME NEW u \in Users, NEW v \in Users, u # v
  PROVE  {u, v} \in Pairs /\ {u, v} \in Convs
BY DEF Pairs, Convs

LEMMA TotalIsNat ==
  ASSUME TypeOK, NEW c \in Convs
  PROVE  /\ Total(c) \in Nat
         /\ conversation[c] # <<>> => conversation[c][1] \in Doc
<1>1. conversation[c] \in Seq(Doc)
  BY DEF TypeOK
<1>2. conversation[c] # <<>> => conversation[c][1] \in Doc
  BY <1>1
<1> QED
  BY <1>2 DEF Total, Doc

(* GoOn leaves the goroutine idle or about to load the next list.           *)
LEMMA GoOnType ==
  ASSUME TypeOK, NEW p \in Procs, NEW todo \in Seq(Users),
         run[p].conv \in Convs, GoOn(p, todo)
  PROVE  run' \in [Procs -> Steps] /\ UNCHANGED calls
<1>1. [at |-> "load", conv |-> run[p].conv, todo |-> todo] \in Steps \/ todo = <<>>
  BY DEF Steps, LoadSteps, Todo
<1>2. Idle \in Steps
  BY DEF Steps
<1> QED
  BY <1>1, <1>2 DEF TypeOK, GoOn, Goto, Return

(* What a lookup finds is a list; what is counted twice adds up.            *)
LEMMA FirstIsList ==
  ASSUME NEW docs \in Seq(Lists)
  PROVE  First(docs) \in Lists /\ (docs # <<>> => docs[1] \in Lists /\ First(docs) = docs[1])
<1>1. docs # <<>> => docs[1] \in Lists
  OBVIOUS
<1>2. NoList \in Lists
  BY DEF NoList, Lists
<1> QED
  BY <1>1, <1>2 DEF First

LEMMA NowTwice ==
  ASSUME TypeOK, NEW u \in Users, NEW amount \in [Convs -> Nat], Twice(u, amount)
  PROVE  /\ again' \in [Users -> [Convs -> Nat]]
         /\ \A c \in Convs : again'[u][c] = again[u][c] + amount[c]
         /\ \A v \in Users \ {u} : again'[v] = again[v]
BY DEF TypeOK, Twice

LEMMA AheadIs ==
  ASSUME NEW list \in Lists, NEW list2 \in Lists
  PROVE  /\ Ahead(list, list2) \in [Convs -> Nat]
         /\ \A c \in Convs : Read(list, c) <= Read(list2, c) + Ahead(list, list2)[c]
<1>1. \A c \in Convs : Read(list, c) \in Nat /\ Read(list2, c) \in Nat
  BY DEF Lists, Read, Unlisted
<1> QED
  BY <1>1 DEF Ahead

LEMMA SaveType ==
  ASSUME TypeOK, NEW u \in Users, NEW list \in Lists, NEW new, NEW list2 \in Lists,
         Save(u, list, new, list2)
  PROVE  /\ conversations' \in [Users -> Seq(Lists)] /\ overwritten' \subseteq Users
         /\ again' \in [Users -> [Convs -> Nat]]
<1>1. Append(conversations[u], list2) \in Seq(Lists)
  BY DEF TypeOK
<1>2. [conversations[u] EXCEPT ![1] = list2] \in Seq(Lists)
  BY FirstReplaced DEF TypeOK
<1>3. Ahead(list, First(conversations[u])) \in [Convs -> Nat]
  BY FirstIsList, AheadIs DEF TypeOK
<1>4. again' \in [Users -> [Convs -> Nat]]
  BY <1>3, NowTwice DEF Save
<1> QED
  BY <1>1, <1>2, <1>4 DEF TypeOK, Save

-----------------------------------------------------------------------------

(* TypeCorrect: the collections and the goroutines keep their shape.        *)
THEOREM TypeCorrect == Spec => []TypeOK
<1> USE BoundsAssumption
<1>1. Init => TypeOK
  BY DEF Init, TypeOK, Steps, Lists, NoList
<1>2. TypeOK /\ [Next]_vars => TypeOK'
  <2> SUFFICES ASSUME TypeOK, [Next]_vars PROVE TypeOK'
    OBVIOUS
  <2> USE DEF store, history
  <2>0. Idle \in Steps
    BY DEF Steps
  <2>1. ASSUME NEW p \in Procs, NEW u \in Users, NEW v \in Users, SetUp(p, u, v) PROVE TypeOK'
    <3>1. [at |-> "find", conv |-> {u, v}, todo |-> <<u, v>>] \in Steps
      BY <2>1, SetUpConvs DEF SetUp, Steps, FindSteps
    <3> QED
      BY <2>1, <3>1 DEF SetUp, Start, TypeOK
  <2>2. ASSUME NEW p \in Procs, NEW g \in Groups, CreateGroup(p, g) PROVE TypeOK'
    <3>1. [at |-> "find", conv |-> g, todo |-> <<>>] \in Steps
      BY DEF Steps, FindSteps, Convs
    <3> QED
      BY <2>2, <3>1 DEF CreateGroup, Start, TypeOK
  <2>3. ASSUME NEW p \in Procs, FindConversation(p) PROVE TypeOK'
    <3>1. [run[p] EXCEPT !.at = "insert"] \in Steps
      <4>1. run[p] \in FindSteps
        BY <2>3, AtTells DEF FindConversation, TypeOK
      <4> QED
        BY <4>1 DEF Steps, FindSteps
    <3> QED
      BY <2>0, <2>3, <3>1 DEF FindConversation, Return, Goto, TypeOK
  <2>4. ASSUME NEW p \in Procs, InsertConversation(p) PROVE TypeOK'
    <3>1. run[p].conv \in Convs /\ run[p].todo \in Seq(Users)
      BY <2>4, AtTells DEF InsertConversation, TypeOK, FindSteps
    <3>2. run' \in [Procs -> Steps] /\ UNCHANGED calls
      BY <2>4, <3>1, GoOnType DEF InsertConversation
    <3>3. conversation' \in [Convs -> Seq(Doc)]
      BY <2>4, <3>1 DEF InsertConversation, TypeOK, Doc
    <3> QED
      BY <2>4, <3>2, <3>3 DEF InsertConversation, TypeOK
  <2>5. ASSUME NEW p \in Procs, LoadList(p) PROVE TypeOK'
    <3> DEFINE docs == conversations[Head(run[p].todo)]
               step == [at |-> "save", conv |-> run[p].conv, todo |-> run[p].todo,
                        list |-> First(docs), new |-> docs = <<>>]
    <3>1. run[p] \in LoadSteps
      BY <2>5, AtTells DEF LoadList, TypeOK
    <3>2. docs \in Seq(Lists) /\ run[p].conv \in Convs /\ Tail(run[p].todo) \in Seq(Users)
      BY <3>1 DEF LoadSteps, Todo, TypeOK
    <3>3. step.list \in Lists
      BY <3>2, FirstIsList
    <3>4. step \in Steps
      BY <3>1, <3>3 DEF Steps, SaveSteps, LoadSteps
    <3>5. run' \in [Procs -> Steps] /\ UNCHANGED calls
      <4>1. CASE GoOn(p, Tail(run[p].todo))
        BY <3>2, <4>1, GoOnType
      <4>2. CASE Goto(p, step)
        BY <3>4, <4>2 DEF Goto, TypeOK
      <4> QED
        BY <2>5, <4>1, <4>2 DEF LoadList
    <3> QED
      BY <2>5, <3>5 DEF LoadList, TypeOK
  <2>6. ASSUME NEW p \in Procs, SaveList(p) PROVE TypeOK'
    <3>1. run[p] \in SaveSteps
      BY <2>6, AtTells DEF SaveList, TypeOK
    <3>2. /\ run[p].conv \in Convs /\ Tail(run[p].todo) \in Seq(Users)
          /\ Head(run[p].todo) \in Users /\ run[p].list \in Lists
      BY <3>1 DEF SaveSteps, Todo
    <3>3. WithEntry(run[p].list, run[p].conv) \in Lists
      BY <3>2, ListsKept
    <3>4. /\ conversations' \in [Users -> Seq(Lists)] /\ overwritten' \subseteq Users
          /\ again' \in [Users -> [Convs -> Nat]]
      BY <2>6, <3>2, <3>3, SaveType DEF SaveList
    <3>5. run' \in [Procs -> Steps] /\ UNCHANGED calls
      BY <2>6, <3>2, GoOnType DEF SaveList
    <3> QED
      BY <2>6, <3>4, <3>5 DEF SaveList, TypeOK
  <2>7. ASSUME NEW p \in Procs, NEW u \in Users, Get(p, u) PROVE TypeOK'
    <3>1. [at |-> "getLoad", user |-> u] \in Steps
      BY DEF Steps, GetSteps
    <3> QED
      BY <2>7, <3>1 DEF Get, Start, TypeOK
  <2>8. ASSUME NEW p \in Procs, GetLoad(p) PROVE TypeOK'
    <3>1. run[p].user \in Users
      BY <2>8, AtTells DEF GetLoad, TypeOK, GetSteps
    <3>2. conversations[run[p].user] # <<>> =>
          [at |-> "getCount", user |-> run[p].user, list |-> conversations[run[p].user][1]] \in Steps
      BY <3>1 DEF TypeOK, Steps, GetCountSteps
    <3>3. NoList \in Lists
      BY DEF NoList, Lists
    <3> QED
      BY <2>0, <2>8, <3>1, <3>2, <3>3 DEF GetLoad, Return, Goto, TypeOK
  <2>9. ASSUME NEW p \in Procs, GetCount(p) PROVE TypeOK'
    <3>1. run[p].user \in Users /\ run[p].list \in Lists
      BY <2>9, AtTells DEF GetCount, TypeOK, GetCountSteps
    <3>2. ToRead(run[p].list) \in Lists
      BY <3>1, TotalIsNat DEF ToRead, Lists, Unlisted
    <3> QED
      BY <2>0, <2>9, <3>1, <3>2 DEF GetCount, Return, Goto, TypeOK
  <2>10. ASSUME NEW p \in Procs, NEW u \in Users, NEW c \in Convs, NEW n \in 0..MaxLogs,
                Put(p, u, c, n)
         PROVE TypeOK'
    <3>1. n \in Nat
      BY DEF BoundsAssumption
    <3>2. [NoList EXCEPT ![c] = n] \in Lists /\ NoList \in Lists
      BY <3>1, ListsKept DEF NoList, Lists
    <3>3. [at |-> "putLoad", user |-> u, reads |-> [NoList EXCEPT ![c] = n], tries |-> 1] \in Steps
      BY <3>2 DEF Steps, PutSteps
    <3> QED
      BY <2>10, <3>2, <3>3 DEF Put, Start, TypeOK
  <2>11. ASSUME NEW p \in Procs, PutLoad(p) PROVE TypeOK'
    <3>1. run[p] \in PutSteps
      BY <2>11, AtTells DEF PutLoad, TypeOK
    <3>2. conversations[run[p].user] # <<>> =>
          [at |-> "putSave", user |-> run[p].user, reads |-> run[p].reads,
           tries |-> run[p].tries, list |-> conversations[run[p].user][1]] \in Steps
      BY <3>1 DEF TypeOK, Steps, PutSaveSteps, PutSteps
    <3> QED
      BY <2>0, <2>11, <3>2 DEF PutLoad, Return, Goto, TypeOK
  <2>12. ASSUME NEW p \in Procs, PutSave(p) PROVE TypeOK'
    <3>1. run[p] \in PutSaveSteps
      BY <2>12, AtTells DEF PutSave, TypeOK
    <3>2. run[p].user \in Users /\ run[p].list \in Lists /\ AddReads(run[p].list, run[p].reads) \in Lists
      <4>1. CASE Convs = {}
        BY <3>1, <4>1 DEF PutSaveSteps, AddReads, Lists
      <4>2. CASE Convs # {}
        BY <3>1, <4>2, ListsKept DEF PutSaveSteps
      <4> QED
        BY <4>1, <4>2
    <3>3. /\ conversations' \in [Users -> Seq(Lists)] /\ overwritten' \subseteq Users
          /\ again' \in [Users -> [Convs -> Nat]]
      BY <2>12, <3>2, SaveType DEF PutSave
    <3>4. [at |-> "putAnswer", user |-> run[p].user, reads |-> run[p].reads,
           tries |-> run[p].tries] \in Steps
      BY <3>1 DEF Steps, PutSteps, PutSaveSteps
    <3> QED
      BY <2>12, <3>3, <3>4 DEF PutSave, Goto, TypeOK
  <2>13. ASSUME NEW p \in Procs, PutRetry(p) PROVE TypeOK'
    <3>1. run[p] \in PutSteps \cup PutSaveSteps
      BY <2>13, AtTells DEF PutRetry, TypeOK
    <3>2. [at |-> "putLoad", user |-> run[p].user, reads |-> run[p].reads,
           tries |-> run[p].tries + 1] \in Steps
      BY <3>1 DEF Steps, PutSteps, PutSaveSteps
    <3>3. again' \in [Users -> [Convs -> Nat]]
      <4>1. run[p].user \in Users /\ run[p].reads \in Lists
        BY <3>1 DEF PutSteps, PutSaveSteps
      <4>2. [c \in Convs |-> Read(run[p].reads, c)] \in [Convs -> Nat]
        BY <4>1 DEF Lists, Read, Unlisted
      <4>3. CASE Twice(run[p].user, [c \in Convs |-> Read(run[p].reads, c)])
        BY <4>1, <4>2, <4>3, NowTwice
      <4> QED
        BY <2>13, <4>3 DEF PutRetry, TypeOK
    <3> QED
      BY <2>13, <3>1, <3>2, <3>3 DEF PutRetry, Goto, TypeOK
  <2>14. ASSUME NEW p \in Procs, NEW c \in Convs, Consume(p, c) PROVE TypeOK'
    <3>1. [at |-> "log", conv |-> c] \in Steps
      BY DEF Steps, LogSteps
    <3> QED
      BY <2>14, <3>1 DEF Consume, Start, TypeOK
  <2>15. ASSUME NEW p \in Procs, StoreLog(p) PROVE TypeOK'
    <3>1. run[p].conv \in Convs
      BY <2>15, AtTells DEF StoreLog, TypeOK, LogSteps
    <3>2. [at |-> "count", conv |-> run[p].conv, msg |-> logs[run[p].conv] + 1] \in Steps
      BY <3>1 DEF Steps, CountSteps, TypeOK
    <3> QED
      BY <2>15, <3>1, <3>2 DEF StoreLog, Goto, TypeOK
  <2>16. ASSUME NEW p \in Procs, UpdateMsg(p) PROVE TypeOK'
    <3> DEFINE c == run[p].conv
               doc == [total |-> conversation[c][1].total + 1, msg |-> run[p].msg]
    <3>1. c \in Convs /\ run[p].msg \in Nat
      BY <2>16, AtTells DEF UpdateMsg, TypeOK, CountSteps
    <3>2. conversation[c] # <<>> => doc \in Doc
      BY <3>1, TotalIsNat DEF Doc
    <3>3. conversation[c] # <<>> => [conversation[c] EXCEPT ![1] = doc] \in Seq(Doc)
      BY <3>1, <3>2, FirstReplaced DEF TypeOK
    <3>4. conversation' \in [Convs -> Seq(Doc)]
      BY <2>16, <3>1, <3>3 DEF UpdateMsg, TypeOK
    <3> QED
      BY <2>0, <2>16, <3>4 DEF UpdateMsg, Return, Goto, TypeOK
  <2>17. ASSUME NEW p \in Procs, PutAnswer(p) PROVE TypeOK'
    BY <2>0, <2>17 DEF PutAnswer, Return, Goto, TypeOK
  <2>18. ASSUME NEW p \in Procs, Fail(p) PROVE TypeOK'
    BY <2>0, <2>18, AtTells DEF Fail, Return, Goto, TypeOK, LoadSteps, SaveSteps
  <2>19. CASE UNCHANGED vars
    BY <2>19 DEF vars, TypeOK
  <2> QED
    BY <2>1, <2>2, <2>3, <2>4, <2>5, <2>6, <2>7, <2>8, <2>9, <2>10, <2>11, <2>12,
       <2>13, <2>14, <2>15, <2>16, <2>17, <2>18, <2>19 DEF Next, Call, Step
<1> QED
  BY <1>1, <1>2, PTL DEF Spec

-----------------------------------------------------------------------------
(* Facts about steps that several proofs use. *)

(* A step changes what one goroutine is about to do.                        *)
LEMMA OneMoves ==
  ASSUME TypeOK, NEW p \in Procs, Call(p) \/ Step(p) \/ PutRetry(p) \/ Fail(p)
  PROVE  \A q \in Procs \ {p} : run'[q] = run[q]
BY DEF TypeOK, Call, Step, SetUp, CreateGroup, Get, Put, Consume, FindConversation,
       InsertConversation, LoadList, SaveList, GetLoad, GetCount, PutLoad, PutSave,
       PutAnswer, PutRetry, StoreLog, UpdateMsg, Fail, GoOn, Start, Goto, Return

(* A conversation is never removed and its total never falls.               *)
LEMMA ConversationGrows ==
  ASSUME TypeOK, [Next]_vars
  PROVE  \A c \in Convs : /\ conversation[c] # <<>> => conversation'[c] # <<>>
                          /\ Total(c) <= Total(c)'
<1> SUFFICES ASSUME NEW c \in Convs
             PROVE  /\ conversation[c] # <<>> => conversation'[c] # <<>>
                    /\ Total(c) <= Total(c)'
  OBVIOUS
<1>0. Total(c) \in Nat
  BY TotalIsNat
<1>1. CASE UNCHANGED conversation
  BY <1>0, <1>1 DEF Total
<1>2. ASSUME NEW p \in Procs, InsertConversation(p)
      PROVE  /\ conversation[c] # <<>> => conversation'[c] # <<>>
             /\ Total(c) <= Total(c)'
  <2> DEFINE d == [total |-> 0, msg |-> 0]
  <2>1. conversation[c] \in Seq(Doc) /\ d \in Doc
    BY DEF TypeOK, Doc
  <2>2. conversation'[c] \in {conversation[c], Append(conversation[c], d)}
    BY <1>2 DEF InsertConversation, TypeOK
  <2>3. /\ Append(conversation[c], d) # <<>>
        /\ conversation[c] = <<>> => Append(conversation[c], d)[1] = d
        /\ conversation[c] # <<>> => Append(conversation[c], d)[1] = conversation[c][1]
    BY <2>1
  <2> QED
    BY <1>0, <2>2, <2>3 DEF Total
<1>3. ASSUME NEW p \in Procs, UpdateMsg(p)
      PROVE  /\ conversation[c] # <<>> => conversation'[c] # <<>>
             /\ Total(c) <= Total(c)'
  <2> DEFINE d == [total |-> conversation[c][1].total + 1, msg |-> run[p].msg]
  <2>1. run[p] \in CountSteps
    BY <1>3, AtTells DEF UpdateMsg, TypeOK
  <2>2. \/ conversation'[c] = conversation[c]
        \/ conversation[c] # <<>> /\ conversation'[c] = [conversation[c] EXCEPT ![1] = d]
    <3>1. conversation \in [Convs -> Seq(Doc)]
      BY DEF TypeOK
    <3>2. CASE c # run[p].conv \/ conversation[c] = <<>>
      BY <1>3, <2>1, <3>1, <3>2 DEF UpdateMsg, CountSteps
    <3>3. CASE c = run[p].conv /\ conversation[c] # <<>>
      BY <1>3, <3>1, <3>3 DEF UpdateMsg
    <3> QED
      BY <3>2, <3>3
  <2>3. CASE conversation'[c] = conversation[c]
    BY <1>0, <2>3 DEF Total
  <2>4. CASE conversation[c] # <<>> /\ conversation'[c] = [conversation[c] EXCEPT ![1] = d]
    <3>1. conversation[c] \in Seq(Doc) /\ d \in Doc
      BY <2>1, <2>4, TotalIsNat DEF TypeOK, Doc, CountSteps
    <3>2. conversation'[c] # <<>> /\ conversation'[c][1] = d
      BY <2>4, <3>1, FirstReplaced
    <3> QED
      BY <1>0, <2>4, <3>2 DEF Total
  <2> QED
    BY <2>2, <2>3, <2>4
<1> QED
  BY <1>1, <1>2, <1>3
  DEF Next, vars, store, history, Call, Step, SetUp, CreateGroup, Get, Put, Consume,
      FindConversation, LoadList, SaveList, GetLoad, GetCount, PutLoad, PutSave,
      PutAnswer, PutRetry, StoreLog, Fail

(* After a save every document is one that was there, or the saved list.    *)
LEMMA SavedDocs ==
  ASSUME TypeOK, NEW u \in Users, NEW list, NEW new, NEW list2 \in Lists,
         Save(u, list, new, list2)
  PROVE  \A v \in Users : \A i \in DOMAIN conversations'[v] :
           \/ v = u /\ conversations'[v][i] = list2
           \/ i \in DOMAIN conversations[v] /\ conversations'[v][i] = conversations[v][i]
<1> SUFFICES ASSUME NEW v \in Users, NEW i \in DOMAIN conversations'[v]
             PROVE  \/ v = u /\ conversations'[v][i] = list2
                    \/ i \in DOMAIN conversations[v] /\ conversations'[v][i] = conversations[v][i]
  OBVIOUS
<1> DEFINE docs == conversations[u]
<1>0. docs \in Seq(Lists)
  BY DEF TypeOK
<1>1. CASE v # u
  BY <1>1 DEF Save, TypeOK
<1>2. CASE v = u /\ conversations'[u] = Append(docs, list2)
  BY <1>0, <1>2
<1>3. CASE v = u /\ conversations'[u] = [docs EXCEPT ![1] = list2]
  <2>1. i \in 1..Len(docs)
    BY <1>0, <1>3
  <2>2. i = 1 => [docs EXCEPT ![1] = list2][i] = list2
    BY <2>1
  <2> QED
    BY <1>0, <1>3, <2>1, <2>2
<1> QED
  BY <1>1, <1>2, <1>3 DEF Save, TypeOK

-----------------------------------------------------------------------------
(* ListedExists and NoEmptyList.  Conversations travel from the store to    *)
(* the lists through goroutines and clients: whatever a goroutine or a      *)
(* client holds names conversations that exist.                             *)

BackedBy(docs, list) == \A c \in Listed(list) : docs[c] # <<>>
StepBackedBy(docs, r) ==
  /\ r.at \in {"load", "save"} => docs[r.conv] # <<>>
  /\ r.at \in {"save", "getCount", "putSave"} => BackedBy(docs, r.list)
  /\ r.at \in {"putLoad", "putSave", "putAnswer"} => BackedBy(docs, r.reads) /\ r.reads # NoList
ListInv ==
  /\ ListedExists /\ NoEmptyList
  /\ \A p \in Procs : StepBackedBy(conversation, run[p])
  /\ \A u \in Users : BackedBy(conversation, answer[u])

LEMMA StaysBacked ==
  ASSUME TypeOK, TypeOK', [Next]_vars
  PROVE  /\ \A list : BackedBy(conversation, list) => BackedBy(conversation', list)
         /\ \A r \in Steps : StepBackedBy(conversation, r) => StepBackedBy(conversation', r)
<1>1. ASSUME NEW list, BackedBy(conversation, list) PROVE BackedBy(conversation', list)
  BY <1>1, ConversationGrows DEF BackedBy, Listed
<1>2. ASSUME NEW r \in Steps, StepBackedBy(conversation, r) PROVE StepBackedBy(conversation', r)
  <2>1. r.at \in {"load", "save"} => r.conv \in Convs
    BY AtTells DEF LoadSteps, SaveSteps
  <2> QED
    BY <1>1, <1>2, <2>1, ConversationGrows DEF StepBackedBy
<1> QED
  BY <1>1, <1>2

(* What is made of backed lists is backed, and has an entry.                *)
LEMMA MadeBacked ==
  ASSUME NEW list \in Lists, NEW reads \in Lists, BackedBy(conversation, list)
  PROVE  /\ BackedBy(conversation, NoList)
         /\ BackedBy(conversation, reads) => BackedBy(conversation, AddReads(list, reads))
         /\ reads # NoList => AddReads(list, reads) # NoList
         /\ \A c \in Convs : conversation[c] # <<>> =>
              BackedBy(conversation, WithEntry(list, c)) /\ WithEntry(list, c) # NoList
<1>1. \A d \in Convs : Read(list, d) \in Nat
  BY DEF Lists, Read, Unlisted
<1>2. BackedBy(conversation, reads) => BackedBy(conversation, AddReads(list, reads))
  BY DEF BackedBy, Listed, AddReads
<1>3. ASSUME reads # NoList PROVE AddReads(list, reads) # NoList
  <2>1. PICK c \in Convs : reads[c] # Unlisted
    BY <1>3 DEF Lists, NoList
  <2>2. AddReads(list, reads)[c] # Unlisted
    BY <1>1, <2>1 DEF AddReads, Lists, Unlisted
  <2> QED
    BY <2>2 DEF NoList
<1>4. ASSUME NEW c \in Convs, conversation[c] # <<>>
      PROVE  BackedBy(conversation, WithEntry(list, c)) /\ WithEntry(list, c) # NoList
  BY <1>4 DEF BackedBy, Listed, WithEntry, NoList, Lists, Unlisted
<1>5. BackedBy(conversation, NoList)
  BY DEF BackedBy, Listed, NoList
<1> QED
  BY <1>2, <1>3, <1>4, <1>5

(* Nobody's list names a conversation that does not exist, and no stored    *)
(* list is empty.                                                           *)
THEOREM ListsAreBacked == Spec => [](ListedExists /\ NoEmptyList)
<1>1. Init => ListInv
  BY DEF Init, ListInv, ListedExists, NoEmptyList, StepBackedBy, BackedBy, Listed, NoList, Idle
<1>2. TypeOK /\ TypeOK' /\ ListInv /\ [Next]_vars => ListInv'
  <2> SUFFICES ASSUME TypeOK, TypeOK', ListInv, [Next]_vars PROVE ListInv'
    OBVIOUS
  <2> USE DEF store, history
  <2>0. /\ \A list : BackedBy(conversation, list) => BackedBy(conversation', list)
        /\ \A r \in Steps : StepBackedBy(conversation, r) => StepBackedBy(conversation', r)
    BY StaysBacked
  <2>00. /\ StepBackedBy(conversation', Idle) /\ Idle \in Steps
         /\ \A p \in Procs : run[p] \in Steps
    BY DEF StepBackedBy, Idle, Steps, TypeOK
  (* What the goroutine that moves holds next is enough, if documents and   *)
  (* answers are in order.                                                  *)
  <2>a. ASSUME NEW p \in Procs, Call(p) \/ Step(p) \/ PutRetry(p) \/ Fail(p),
               StepBackedBy(conversation', run'[p])
        PROVE  \A q \in Procs : StepBackedBy(conversation', run'[q])
    BY <2>a, <2>0, <2>00, OneMoves DEF ListInv
  <2>b. ASSUME UNCHANGED conversations PROVE ListedExists' /\ NoEmptyList'
    BY <2>b, <2>0 DEF ListInv, ListedExists, NoEmptyList, BackedBy
  <2>c. ASSUME UNCHANGED answer PROVE \A u \in Users : BackedBy(conversation', answer'[u])
    BY <2>c, <2>0 DEF ListInv
  <2>d. ASSUME NEW u \in Users, NEW list, NEW new, NEW list2 \in Lists,
               Save(u, list, new, list2), BackedBy(conversation, list2), list2 # NoList
        PROVE  ListedExists' /\ NoEmptyList'
    <3>1. ASSUME NEW v \in Users, NEW i \in DOMAIN conversations'[v]
          PROVE  BackedBy(conversation, conversations'[v][i]) /\ conversations'[v][i] # NoList
      <4>1. CASE v = u /\ conversations'[v][i] = list2
        BY <2>d, <4>1
      <4>2. CASE i \in DOMAIN conversations[v] /\ conversations'[v][i] = conversations[v][i]
        BY <4>2 DEF ListInv, ListedExists, NoEmptyList, BackedBy
      <4> QED
        BY <2>d, <4>1, <4>2, SavedDocs
    <3> QED
      BY <3>1, <2>0 DEF ListedExists, NoEmptyList, BackedBy
  (* Steps that leave the goroutine with nothing, or with a conversation id *)
  (* only.                                                                  *)
  <2>e. ASSUME NEW p \in Procs, NEW r, run' = [run EXCEPT ![p] = r],
               r.at \in {"idle", "find", "insert", "getLoad", "log", "count"}
        PROVE  StepBackedBy(conversation', run'[p])
    BY <2>e DEF StepBackedBy, TypeOK
  <2>f. ASSUME NEW p \in Procs, NEW todo, GoOn(p, todo), conversation'[run[p].conv] # <<>>
        PROVE  StepBackedBy(conversation', run'[p])
    <3>1. CASE todo = <<>>
      BY <2>f, <3>1, <2>00 DEF GoOn, Return, Goto, TypeOK
    <3>2. CASE todo # <<>>
      <4> DEFINE r == [at |-> "load", conv |-> run[p].conv, todo |-> todo]
      <4>1. run'[p] = r
        BY <2>f, <3>2 DEF GoOn, Goto, TypeOK
      <4>2. StepBackedBy(conversation', r)
        BY <2>f DEF StepBackedBy
      <4> QED
        BY <4>1, <4>2
    <3> QED
      BY <3>1, <3>2
  <2>1. ASSUME NEW p \in Procs,
               \/ \E u, v \in Users : SetUp(p, u, v)
               \/ \E g \in Groups : CreateGroup(p, g)
               \/ \E u \in Users : Get(p, u)
               \/ \E c \in Convs : Consume(p, c)
               \/ StoreLog(p) \/ UpdateMsg(p) \/ PutAnswer(p) \/ Fail(p) \/ FindConversation(p)
        PROVE  ListInv'
    <3>1. UNCHANGED <<conversations, answer>>
      BY <2>1 DEF SetUp, CreateGroup, Get, Consume, StoreLog, UpdateMsg, PutAnswer, Fail,
                  FindConversation
    <3>2. StepBackedBy(conversation', run'[p])
      <4>1. CASE FindConversation(p)
        <5>1. run[p] \in FindSteps
          BY <4>1, AtTells DEF FindConversation, TypeOK
        <5>2. [run[p] EXCEPT !.at = "insert"].at = "insert"
          BY <5>1 DEF FindSteps
        <5>3. CASE Return(p)
          BY <5>3, <2>e DEF Return, Goto, Idle
        <5>4. CASE Goto(p, [run[p] EXCEPT !.at = "insert"])
          BY <5>2, <5>4, <2>e DEF Goto
        <5> QED
          BY <4>1, <5>3, <5>4 DEF FindConversation
      <4>2. CASE ~FindConversation(p)
        BY <2>1, <4>2, <2>e DEF SetUp, CreateGroup, Get, Consume, StoreLog, UpdateMsg, PutAnswer,
                                Fail, Return, Goto, Start, Idle
      <4> QED
        BY <4>1, <4>2
    <3> QED
      BY <2>1, <3>1, <3>2, <2>a, <2>b, <2>c DEF ListInv, Call, Step
  <2>2. ASSUME NEW p \in Procs, InsertConversation(p) PROVE ListInv'
    <3>1. run[p] \in FindSteps
      BY <2>2, AtTells DEF InsertConversation, TypeOK
    <3>2. conversation'[run[p].conv] # <<>>
      <4>1. run[p].conv \in Convs /\ conversation \in [Convs -> Seq(Doc)] /\ [total |-> 0, msg |-> 0] \in Doc
        BY <3>1 DEF TypeOK, FindSteps, Doc
      <4>2. conversation'[run[p].conv] = Append(conversation[run[p].conv], [total |-> 0, msg |-> 0])
        BY <2>2, <4>1 DEF InsertConversation
      <4> QED
        BY <4>1, <4>2, AppendProperties
    <3> QED
      BY <2>2, <3>2, <2>a, <2>b, <2>c, <2>f DEF InsertConversation, ListInv, Step
  <2>3. ASSUME NEW p \in Procs, LoadList(p) PROVE ListInv'
    <3> DEFINE docs == conversations[Head(run[p].todo)]
               r == [at |-> "save", conv |-> run[p].conv, todo |-> run[p].todo,
                     list |-> First(docs), new |-> docs = <<>>]
    <3>1. run[p] \in LoadSteps
      BY <2>3, AtTells DEF LoadList, TypeOK
    <3>2. conversation'[run[p].conv] # <<>>
      BY <2>3, <3>1 DEF LoadList, ListInv, StepBackedBy
    <3>3. docs \in Seq(Lists)
      BY <3>1 DEF LoadSteps, Todo, TypeOK
    <3>4. docs # <<>> => 1 \in DOMAIN docs
      BY <3>3
    <3>5. BackedBy(conversation, r.list)
      BY <3>1, <3>4 DEF ListInv, ListedExists, BackedBy, Listed, First, NoList, LoadSteps, Todo
    <3>6. StepBackedBy(conversation', r)
      BY <3>2, <3>5, <2>0 DEF StepBackedBy
    <3>7. StepBackedBy(conversation', run'[p])
      <4>1. CASE GoOn(p, Tail(run[p].todo))
        BY <4>1, <3>2, <2>f
      <4>2. CASE Goto(p, r)
        <5>1. run'[p] = r
          BY <4>2 DEF Goto, TypeOK
        <5> QED
          BY <5>1, <3>6
      <4> QED
        BY <2>3, <4>1, <4>2 DEF LoadList
    <3>8. UNCHANGED <<conversations, answer>>
      BY <2>3 DEF LoadList
    <3> QED
      BY <2>3, <3>7, <3>8, <2>a, <2>b, <2>c DEF ListInv, Step
  <2>4. ASSUME NEW p \in Procs, SaveList(p) PROVE ListInv'
    <3>1. run[p] \in SaveSteps
      BY <2>4, AtTells DEF SaveList, TypeOK
    <3>2. /\ conversation[run[p].conv] # <<>> /\ BackedBy(conversation, run[p].list)
          /\ UNCHANGED <<conversation, answer>>
      BY <2>4 DEF SaveList, ListInv, StepBackedBy
    <3> DEFINE list2 == WithEntry(run[p].list, run[p].conv)
    <3>3. list2 \in Lists /\ BackedBy(conversation, list2) /\ list2 # NoList
      BY <3>1, <3>2, MadeBacked, ListsKept DEF SaveSteps
    <3>4. Head(run[p].todo) \in Users
      BY <3>1 DEF SaveSteps, Todo
    <3>5. ListedExists' /\ NoEmptyList'
      BY <2>4, <3>3, <3>4, <2>d DEF SaveList
    <3>6. StepBackedBy(conversation', run'[p])
      BY <2>4, <3>2, <2>f DEF SaveList
    <3> QED
      BY <2>4, <3>2, <3>5, <3>6, <2>a, <2>c DEF ListInv, Step
  <2>5. ASSUME NEW p \in Procs, GetLoad(p) PROVE ListInv'
    <3> DEFINE u == run[p].user
               r == [at |-> "getCount", user |-> u, list |-> conversations[u][1]]
    <3>1. u \in Users
      BY <2>5, AtTells DEF GetLoad, TypeOK, GetSteps
    <3>2. CASE conversations[u] = <<>>
      <4>1. StepBackedBy(conversation', run'[p])
        BY <2>5, <3>2, <2>00 DEF GetLoad, Return, Goto, TypeOK
      <4>2. \A v \in Users : BackedBy(conversation, answer'[v])
        <5>1. answer' = [answer EXCEPT ![u] = NoList] /\ UNCHANGED conversation
          BY <2>5, <3>2 DEF GetLoad
        <5>2. BackedBy(conversation, NoList)
          BY DEF BackedBy, Listed, NoList
        <5> QED
          BY <5>1, <5>2 DEF ListInv, TypeOK
      <4>3. \A v \in Users : BackedBy(conversation', answer'[v])
        BY <4>2, <2>0
      <4> QED
        BY <2>5, <4>1, <4>3, <2>a, <2>b DEF GetLoad, ListInv, Step
    <3>3. CASE conversations[u] # <<>>
      <4>1. 1 \in DOMAIN conversations[u]
        BY <3>1, <3>3 DEF TypeOK
      <4>2. BackedBy(conversation, conversations[u][1])
        BY <3>1, <4>1 DEF ListInv, ListedExists, BackedBy
      <4>3. StepBackedBy(conversation', r)
        BY <4>2, <2>0 DEF StepBackedBy
      <4>4. run'[p] = r /\ UNCHANGED <<conversations, answer>>
        BY <2>5, <3>3 DEF GetLoad, Goto, TypeOK
      <4>5. StepBackedBy(conversation', run'[p])
        BY <4>3, <4>4
      <4> QED
        BY <2>5, <4>4, <4>5, <2>a, <2>b, <2>c DEF ListInv, Step
    <3> QED
      BY <3>2, <3>3
  <2>6. ASSUME NEW p \in Procs, GetCount(p) PROVE ListInv'
    <3>1. run[p] \in GetCountSteps
      BY <2>6, AtTells DEF GetCount, TypeOK
    <3>2. BackedBy(conversation, run[p].list)
      BY <2>6 DEF GetCount, ListInv, StepBackedBy
    <3>3. BackedBy(conversation, ToRead(run[p].list))
      BY <3>1, <3>2 DEF BackedBy, Listed, ToRead
    <3>4. \A v \in Users : BackedBy(conversation, answer'[v])
      BY <2>6, <3>1, <3>3 DEF GetCount, ListInv, TypeOK, GetCountSteps
    <3>5. \A v \in Users : BackedBy(conversation', answer'[v])
      BY <3>4, <2>0
    <3>6. StepBackedBy(conversation', run'[p])
      BY <2>6, <2>00 DEF GetCount, Return, Goto, TypeOK
    <3> QED
      BY <2>6, <3>5, <3>6, <2>a, <2>b DEF GetCount, ListInv, Step
  <2>7. ASSUME NEW p \in Procs, NEW u \in Users, NEW c \in Convs, NEW n \in 0..MaxLogs,
               Put(p, u, c, n)
        PROVE  ListInv'
    <3> DEFINE reads == [NoList EXCEPT ![c] = n]
               r == [at |-> "putLoad", user |-> u, reads |-> reads, tries |-> 1]
    <3>1. reads # NoList /\ Listed(reads) = {c}
      BY DEF Listed, NoList, Unlisted
    <3>2. conversation[c] # <<>>
      <4>1. CASE c \in Groups /\ conversation[c] # <<>>
        BY <4>1
      <4>2. CASE n <= answer[u][c]
        <5>1. answer[u] \in Lists
          BY DEF TypeOK
        <5>2. c \in Listed(answer[u])
          BY <4>2, <5>1 DEF Listed, Lists, Unlisted
        <5> QED
          BY <5>2 DEF ListInv, BackedBy
      <4> QED
        BY <2>7, <4>1, <4>2 DEF Put
    <3>3. StepBackedBy(conversation, r)
      BY <3>1, <3>2 DEF StepBackedBy, BackedBy
    <3>4. StepBackedBy(conversation', r)
      BY <2>7, <3>3 DEF Put, StepBackedBy, BackedBy
    <3>5. run'[p] = r
      BY <2>7 DEF Put, Start, TypeOK
    <3>6. StepBackedBy(conversation', run'[p])
      BY <3>4, <3>5
    <3>7. \A v \in Users : BackedBy(conversation, answer'[v])
      BY <2>7 DEF Put, ListInv, TypeOK, BackedBy, Listed, NoList
    <3>8. \A v \in Users : BackedBy(conversation', answer'[v])
      BY <3>7, <2>0
    <3>9. Call(p)
      BY <2>7 DEF Call
    <3> QED
      BY <2>7, <3>6, <3>8, <3>9, <2>a, <2>b DEF Put, ListInv
  <2>8. ASSUME NEW p \in Procs, PutLoad(p) PROVE ListInv'
    <3> DEFINE u == run[p].user
               r == [at |-> "putSave", user |-> u, reads |-> run[p].reads,
                     tries |-> run[p].tries, list |-> conversations[u][1]]
    <3>1. u \in Users
      BY <2>8, AtTells DEF PutLoad, TypeOK, PutSteps
    <3>2. BackedBy(conversation, run[p].reads) /\ run[p].reads # NoList
      BY <2>8 DEF PutLoad, ListInv, StepBackedBy
    <3>3. StepBackedBy(conversation', run'[p])
      <4>1. CASE conversations[u] = <<>>
        BY <2>8, <4>1, <2>00 DEF PutLoad, Return, Goto, TypeOK
      <4>2. CASE conversations[u] # <<>>
        <5>1. 1 \in DOMAIN conversations[u]
          BY <3>1, <4>2 DEF TypeOK
        <5>2. BackedBy(conversation, conversations[u][1])
          BY <3>1, <5>1 DEF ListInv, ListedExists, BackedBy
        <5>3. StepBackedBy(conversation', r)
          BY <3>2, <5>2, <2>0 DEF StepBackedBy
        <5>4. run'[p] = r
          BY <2>8, <4>2 DEF PutLoad, Goto, TypeOK
        <5> QED
          BY <5>3, <5>4
      <4> QED
        BY <4>1, <4>2
    <3> QED
      BY <2>8, <3>3, <2>a, <2>b, <2>c DEF PutLoad, ListInv, Step
  <2>9. ASSUME NEW p \in Procs, PutSave(p) PROVE ListInv'
    <3>1. run[p] \in PutSaveSteps
      BY <2>9, AtTells DEF PutSave, TypeOK
    <3>2. /\ BackedBy(conversation, run[p].reads) /\ run[p].reads # NoList /\ BackedBy(conversation, run[p].list)
          /\ UNCHANGED <<conversation, answer>>
      BY <2>9 DEF PutSave, ListInv, StepBackedBy
    <3> DEFINE list2 == AddReads(run[p].list, run[p].reads)
    <3>3. Convs # {}
      BY <3>1, <3>2 DEF PutSaveSteps, Lists, NoList
    <3>4. list2 \in Lists /\ BackedBy(conversation, list2) /\ list2 # NoList
      BY <3>1, <3>2, <3>3, MadeBacked, ListsKept DEF PutSaveSteps
    <3>5. ListedExists' /\ NoEmptyList'
      BY <2>9, <3>1, <3>4, <2>d DEF PutSave, PutSaveSteps
    <3> DEFINE r == [at |-> "putAnswer", user |-> run[p].user, reads |-> run[p].reads,
                     tries |-> run[p].tries]
    <3>6. StepBackedBy(conversation', r)
      BY <3>2, <2>0 DEF StepBackedBy
    <3>7. run'[p] = r
      BY <2>9 DEF PutSave, Goto, TypeOK
    <3>8. StepBackedBy(conversation', run'[p])
      BY <3>6, <3>7
    <3> QED
      BY <2>9, <3>2, <3>5, <3>8, <2>a, <2>c DEF ListInv, Step
  <2>10. ASSUME NEW p \in Procs, PutRetry(p) PROVE ListInv'
    <3> DEFINE r == [at |-> "putLoad", user |-> run[p].user, reads |-> run[p].reads,
                     tries |-> run[p].tries + 1]
    <3>1. BackedBy(conversation, run[p].reads) /\ run[p].reads # NoList
      BY <2>10 DEF PutRetry, ListInv, StepBackedBy
    <3>2. StepBackedBy(conversation', r)
      BY <3>1, <2>0 DEF StepBackedBy
    <3>3. run'[p] = r
      BY <2>10 DEF PutRetry, Goto, TypeOK
    <3>4. StepBackedBy(conversation', run'[p])
      BY <3>2, <3>3
    <3> QED
      BY <2>10, <3>4, <2>a, <2>b, <2>c DEF PutRetry, ListInv
  <2>11. CASE UNCHANGED vars
    <3>1. UNCHANGED <<run, conversations, answer>>
      BY <2>11 DEF vars
    <3> QED
      BY <3>1, <2>0, <2>00, <2>b, <2>c DEF ListInv
  <2> QED
    BY <2>1, <2>2, <2>3, <2>4, <2>5, <2>6, <2>7, <2>8, <2>9, <2>10, <2>11 DEF Next, Call, Step
<1> QED
  BY <1>1, <1>2, TypeCorrect, PTL DEF Spec, ListInv

-----------------------------------------------------------------------------
(* CountedIsStored.  A message is on its way between addChatLog's two       *)
(* commands; what is counted and what is on its way is stored.              *)

PendingIn(rs, c) == {p \in Procs : rs[p].at = "count" /\ rs[p].conv = c}
Pending(c) == PendingIn(run, c)
CountInv ==
  /\ \A c \in Convs :
       /\ Cardinality(Pending(c)) <= logs[c]
       /\ \A i \in DOMAIN conversation[c] :
            /\ conversation[c][i].total + Cardinality(Pending(c)) <= logs[c]
            /\ conversation[c][i].msg <= logs[c]
  /\ \A p \in Procs : run[p].at = "count" => run[p].msg <= logs[run[p].conv]

LEMMA PendingCounts ==
  ASSUME NEW c \in Convs
  PROVE  \A rs : IsFiniteSet(PendingIn(rs, c)) /\ Cardinality(PendingIn(rs, c)) \in Nat
BY ProcsAssumption, FS_Subset, FS_CardinalityType DEF PendingIn

(* A conversation never counts more messages than are stored, and its last  *)
(* message is one of them.                                                  *)
THEOREM CountedAreStored == Spec => []CountedIsStored
<1>1. Init => CountInv
  <2> SUFFICES ASSUME Init PROVE CountInv
    OBVIOUS
  <2>1. \A c \in Convs : Pending(c) = {}
    BY DEF Init, Pending, PendingIn, Idle
  <2> QED
    <3>1. Cardinality({}) = 0
      BY FS_EmptySet
    <3>2. \A c \in Convs : conversation[c] = <<>> /\ logs[c] = 0 /\ Cardinality(Pending(c)) = 0
      BY <2>1, <3>1 DEF Init
    <3>3. \A p \in Procs : run[p].at # "count"
      BY DEF Init, Idle
    <3> QED
      BY <3>2, <3>3 DEF CountInv
<1>2. TypeOK /\ TypeOK' /\ CountInv /\ [Next]_vars => CountInv'
  <2> SUFFICES ASSUME TypeOK, TypeOK', CountInv, [Next]_vars PROVE CountInv'
    OBVIOUS
  <2> USE DEF store, history
  <2>0. /\ \A c \in Convs : /\ conversation[c] \in Seq(Doc) /\ logs[c] \in Nat
                            /\ \A i \in DOMAIN conversation[c] : conversation[c][i] \in Doc
        /\ \A c \in Convs : Cardinality(Pending(c)) \in Nat /\ Cardinality(Pending(c)') \in Nat
    <3>1. \A c \in Convs : conversation[c] \in Seq(Doc) /\ logs[c] \in Nat
      BY DEF TypeOK
    <3> QED
      BY <3>1, PendingCounts DEF Pending
  (* Fewer on their way, nothing else that matters changed. *)
  <2>a. ASSUME UNCHANGED <<conversation, logs>>,
               \A p \in Procs : run'[p].at = "count" => run'[p] = run[p]
        PROVE  CountInv'
    <3>1. ASSUME NEW c \in Convs PROVE Cardinality(Pending(c)') <= Cardinality(Pending(c))
      <4>1. Pending(c)' \subseteq Pending(c)
        BY <2>a DEF Pending, PendingIn
      <4> QED
        BY <4>1, PendingCounts, FS_Subset DEF Pending
    <3>2. ASSUME NEW c \in Convs
          PROVE  /\ Cardinality(Pending(c)') <= logs'[c]
                 /\ \A i \in DOMAIN conversation'[c] :
                      /\ conversation'[c][i].total + Cardinality(Pending(c)') <= logs'[c]
                      /\ conversation'[c][i].msg <= logs'[c]
      BY <3>1, <2>a, <2>0 DEF CountInv, Doc
    <3>3. \A p \in Procs : run'[p].at = "count" => run'[p].msg <= logs'[run'[p].conv]
      BY <2>a DEF CountInv
    <3> QED
      BY <3>2, <3>3 DEF CountInv
  <2>b. ASSUME NEW p \in Procs, NEW r, run' = [run EXCEPT ![p] = r], r.at # "count"
        PROVE  \A q \in Procs : run'[q].at = "count" => run'[q] = run[q]
    BY <2>b DEF TypeOK
  <2>c. ASSUME NEW p \in Procs, NEW todo, GoOn(p, todo)
        PROVE  \A q \in Procs : run'[q].at = "count" => run'[q] = run[q]
    <3>1. Idle.at # "count"
      BY DEF Idle
    <3> QED
      BY <2>b, <2>c, <3>1 DEF GoOn, Goto, Return
  <2>1. ASSUME NEW p \in Procs,
               \/ Call(p) \/ PutRetry(p) \/ Fail(p)
               \/ FindConversation(p) \/ LoadList(p) \/ SaveList(p) \/ GetLoad(p) \/ GetCount(p)
               \/ PutLoad(p) \/ PutSave(p) \/ PutAnswer(p)
        PROVE  CountInv'
    <3>1. UNCHANGED <<conversation, logs>>
      BY <2>1 DEF Call, SetUp, CreateGroup, Get, Put, Consume, PutRetry, Fail, FindConversation,
                  LoadList, SaveList, GetLoad, GetCount, PutLoad, PutSave, PutAnswer
    <3>2. \A q \in Procs : run'[q].at = "count" => run'[q] = run[q]
      <4>1. CASE Call(p)
        <5>1. ASSUME NEW r, Start(p, r), r.at # "count"
              PROVE  \A q \in Procs : run'[q].at = "count" => run'[q] = run[q]
          BY <5>1, <2>b DEF Start
        <5>2. ASSUME NEW u \in Users, NEW v \in Users, SetUp(p, u, v)
              PROVE  \A q \in Procs : run'[q].at = "count" => run'[q] = run[q]
          <6> DEFINE r == [at |-> "find", conv |-> {u, v}, todo |-> <<u, v>>]
          <6>1. Start(p, r) /\ r.at # "count"
            BY <5>2 DEF SetUp
          <6> HIDE DEF r
          <6> QED
            BY <6>1, <5>1
        <5>3. ASSUME NEW g \in Groups, CreateGroup(p, g)
              PROVE  \A q \in Procs : run'[q].at = "count" => run'[q] = run[q]
          BY <5>3, <5>1 DEF CreateGroup
        <5>4. ASSUME NEW u \in Users, Get(p, u)
              PROVE  \A q \in Procs : run'[q].at = "count" => run'[q] = run[q]
          BY <5>4, <5>1 DEF Get
        <5>5. ASSUME NEW u \in Users, NEW c \in Convs, NEW n \in 0..MaxLogs, Put(p, u, c, n)
              PROVE  \A q \in Procs : run'[q].at = "count" => run'[q] = run[q]
          <6> DEFINE r == [at |-> "putLoad", user |-> u, reads |-> [NoList EXCEPT ![c] = n],
                           tries |-> 1]
          <6>1. Start(p, r) /\ r.at # "count"
            BY <5>5 DEF Put
          <6> HIDE DEF r
          <6> QED
            BY <6>1, <5>1
        <5>6. ASSUME NEW c \in Convs, Consume(p, c)
              PROVE  \A q \in Procs : run'[q].at = "count" => run'[q] = run[q]
          BY <5>6, <5>1 DEF Consume
        <5> QED
          BY <4>1, <5>2, <5>3, <5>4, <5>5, <5>6 DEF Call
      <4>2. CASE FindConversation(p)
        <5>1. run[p] \in FindSteps
          BY <4>2, AtTells DEF FindConversation, TypeOK
        <5>2. [run[p] EXCEPT !.at = "insert"].at = "insert"
          BY <5>1 DEF FindSteps
        <5> QED
          BY <4>2, <5>2, <2>b DEF FindConversation, Return, Goto, Idle
      <4>3. CASE LoadList(p)
        BY <4>3, <2>b, <2>c DEF LoadList, Goto
      <4>4. CASE SaveList(p)
        BY <4>4, <2>c DEF SaveList
      <4>0. ASSUME NEW r, Goto(p, r), r.at # "count"
            PROVE  \A q \in Procs : run'[q].at = "count" => run'[q] = run[q]
        BY <4>0, <2>b DEF Goto
      <4>5. ASSUME Return(p)
            PROVE  \A q \in Procs : run'[q].at = "count" => run'[q] = run[q]
        BY <4>5, <4>0 DEF Return, Idle
      <4>6. CASE Fail(p) \/ GetCount(p) \/ PutAnswer(p)
        BY <4>6, <4>5 DEF Fail, GetCount, PutAnswer
      <4>7. CASE GetLoad(p)
        BY <4>7, <4>5, <4>0 DEF GetLoad
      <4>8. CASE PutLoad(p)
        BY <4>8, <4>5, <4>0 DEF PutLoad
      <4>9. CASE PutSave(p)
        BY <4>9, <4>0 DEF PutSave
      <4>10. CASE PutRetry(p)
        BY <4>10, <4>0 DEF PutRetry
      <4> QED
        BY <2>1, <4>1, <4>2, <4>3, <4>4, <4>6, <4>7, <4>8, <4>9, <4>10
    <3> QED
      BY <3>1, <3>2, <2>a
  <2>2. ASSUME NEW p \in Procs, InsertConversation(p) PROVE CountInv'
    <3> DEFINE d == [total |-> 0, msg |-> 0]
    <3>1. \A q \in Procs : run'[q].at = "count" => run'[q] = run[q]
      BY <2>2, <2>c DEF InsertConversation
    <3>2. ASSUME NEW c \in Convs PROVE Cardinality(Pending(c)') <= Cardinality(Pending(c))
      <4>1. Pending(c)' \subseteq Pending(c)
        BY <3>1 DEF Pending, PendingIn
      <4> QED
        BY <4>1, PendingCounts, FS_Subset DEF Pending
    <3>3. ASSUME NEW c \in Convs, NEW i \in DOMAIN conversation'[c]
          PROVE  \/ i \in DOMAIN conversation[c] /\ conversation'[c][i] = conversation[c][i]
                 \/ conversation'[c][i] = d
      <4>1. conversation'[c] \in {conversation[c], Append(conversation[c], d)}
        BY <2>2 DEF InsertConversation, TypeOK
      <4> QED
        <5>1. CASE conversation'[c] = conversation[c]
          BY <5>1
        <5>2. CASE conversation'[c] = Append(conversation[c], d)
          BY <5>2, <2>0
        <5> QED
          BY <4>1, <5>1, <5>2
    <3>4. UNCHANGED logs
      BY <2>2 DEF InsertConversation
    <3>5. ASSUME NEW c \in Convs
          PROVE  /\ Cardinality(Pending(c)') <= logs'[c]
                 /\ \A i \in DOMAIN conversation'[c] :
                      /\ conversation'[c][i].total + Cardinality(Pending(c)') <= logs'[c]
                      /\ conversation'[c][i].msg <= logs'[c]
      <4>1. /\ Cardinality(Pending(c)') <= Cardinality(Pending(c))
            /\ Cardinality(Pending(c)') <= logs[c]
        BY <3>2, <2>0 DEF CountInv
      <4>2. ASSUME NEW i \in DOMAIN conversation'[c]
            PROVE  /\ conversation'[c][i].total + Cardinality(Pending(c)') <= logs[c]
                   /\ conversation'[c][i].msg <= logs[c]
        <5>1. CASE i \in DOMAIN conversation[c] /\ conversation'[c][i] = conversation[c][i]
          BY <4>1, <5>1, <2>0 DEF CountInv, Doc
        <5>2. CASE conversation'[c][i] = d
          BY <4>1, <5>2, <2>0
        <5> QED
          BY <3>3, <5>1, <5>2
      <4> QED
        BY <3>4, <4>1, <4>2
    <3>6. \A q \in Procs : run'[q].at = "count" => run'[q].msg <= logs'[run'[q].conv]
      BY <3>1, <3>4 DEF CountInv
    <3> QED
      BY <3>5, <3>6 DEF CountInv
  <2>3. ASSUME NEW p \in Procs, StoreLog(p) PROVE CountInv'
    <3> DEFINE k == run[p].conv
               r == [at |-> "count", conv |-> k, msg |-> logs[k] + 1]
    <3>1. k \in Convs /\ run[p].at = "log"
      BY <2>3, AtTells DEF StoreLog, TypeOK, LogSteps
    <3>2. run' = [run EXCEPT ![p] = r] /\ logs' = [logs EXCEPT ![k] = @ + 1]
          /\ UNCHANGED conversation
      BY <2>3 DEF StoreLog, Goto
    <3>3. Pending(k)' = Pending(k) \cup {p} /\ p \notin Pending(k)
      BY <3>1, <3>2 DEF Pending, PendingIn, TypeOK
    <3>4. Cardinality(Pending(k)') = Cardinality(Pending(k)) + 1
      BY <3>1, <3>3, PendingCounts, FS_AddElement DEF Pending
    <3>5. ASSUME NEW c \in Convs, c # k PROVE Pending(c)' = Pending(c)
      BY <3>1, <3>2, <3>5 DEF Pending, PendingIn, TypeOK
    <3>6. ASSUME NEW c \in Convs
          PROVE  /\ Cardinality(Pending(c)') <= logs'[c]
                 /\ \A i \in DOMAIN conversation'[c] :
                      /\ conversation'[c][i].total + Cardinality(Pending(c)') <= logs'[c]
                      /\ conversation'[c][i].msg <= logs'[c]
      <4>1. CASE c = k
        <5>1. logs'[k] = logs[k] + 1
          BY <3>1, <3>2 DEF TypeOK
        <5> QED
          <6>1. \A i \in DOMAIN conversation[k] :
                  /\ conversation[k][i].total \in Nat /\ conversation[k][i].msg \in Nat
                  /\ conversation[k][i].total + Cardinality(Pending(k)) <= logs[k]
                  /\ conversation[k][i].msg <= logs[k]
            BY <3>1, <2>0 DEF CountInv, Doc
          <6>2. Cardinality(Pending(k)) <= logs[k]
            BY <3>1 DEF CountInv
          <6> QED
            BY <4>1, <5>1, <6>1, <6>2, <3>1, <3>2, <3>4, <2>0
      <4>2. CASE c # k
        <5>1. logs'[c] = logs[c] /\ Pending(c)' = Pending(c)
          BY <4>2, <3>1, <3>2, <3>5 DEF TypeOK
        <5> QED
          BY <5>1, <3>2, <2>0 DEF CountInv, Doc
      <4> QED
        BY <4>1, <4>2
    <3>7. ASSUME NEW q \in Procs, run'[q].at = "count"
          PROVE  run'[q].msg <= logs'[run'[q].conv]
      <4>1. CASE q = p
        BY <4>1, <3>1, <3>2, <2>0 DEF TypeOK
      <4>2. CASE q # p
        <5>1. run'[q] = run[q] /\ run[q] \in CountSteps
          BY <3>2, <3>7, <4>2, AtTells DEF TypeOK
        <5> QED
          <6>1. run[q].conv \in Convs /\ run[q].msg \in Nat /\ run[q].msg <= logs[run[q].conv]
            BY <5>1, <3>7 DEF CountInv, CountSteps
          <6>2. logs[run[q].conv] <= logs'[run[q].conv]
            BY <6>1, <3>1, <3>2, <2>0 DEF TypeOK
          <6> QED
            BY <5>1, <6>1, <6>2, <2>0 DEF TypeOK
      <4> QED
        BY <4>1, <4>2
    <3> QED
      BY <3>6, <3>7 DEF CountInv
  <2>4. ASSUME NEW p \in Procs, UpdateMsg(p) PROVE CountInv'
    <3>0. PICK k \in Convs, m \in Nat : run[p].conv = k /\ run[p].msg = m
      BY <2>4, AtTells DEF UpdateMsg, TypeOK, CountSteps
    <3>1. /\ run[p] \in CountSteps /\ p \in Pending(k)
          /\ m <= logs[k]
      BY <2>4, <3>0, AtTells DEF UpdateMsg, TypeOK, CountInv, Pending, PendingIn
    <3>2. run' = [run EXCEPT ![p] = Idle] /\ UNCHANGED logs
      BY <2>4 DEF UpdateMsg, Return, Goto
    <3>3. \A q \in Procs : run'[q].at = "count" => run'[q] = run[q]
      BY <3>2, <2>b DEF Idle
    <3>4. Pending(k)' = Pending(k) \ {p}
      BY <3>0, <3>1, <3>2, <3>3 DEF Pending, PendingIn, TypeOK, Idle
    <3>5. /\ Cardinality(Pending(k)) \in Nat /\ Cardinality(Pending(k)') \in Nat /\ logs[k] \in Nat
          /\ Cardinality(Pending(k)') = Cardinality(Pending(k)) - 1
      <4>1. IsFiniteSet(Pending(k))
        BY PendingCounts DEF Pending
      <4>2. Cardinality(Pending(k) \ {p}) = Cardinality(Pending(k)) - 1
        BY <4>1, <3>1, FS_RemoveElement
      <4> QED
        BY <4>2, <3>4, <2>0
    <3>6. ASSUME NEW c \in Convs, c # k PROVE Pending(c)' = Pending(c)
      <4>1. \A q \in Procs : q # p => run'[q] = run[q]
        BY <3>2 DEF TypeOK
      <4>2. run[p].conv # c /\ run'[p].at # "count"
        BY <3>0, <3>2, <3>6 DEF TypeOK, Idle
      <4> QED
        BY <4>1, <4>2 DEF Pending, PendingIn
    <3>7. ASSUME NEW c \in Convs
          PROVE  /\ Cardinality(Pending(c)') <= logs'[c]
                 /\ \A i \in DOMAIN conversation'[c] :
                      /\ conversation'[c][i].total + Cardinality(Pending(c)') <= logs'[c]
                      /\ conversation'[c][i].msg <= logs'[c]
      <4>1. CASE c # k
        <5>1. conversation'[c] = conversation[c] /\ Pending(c)' = Pending(c)
          BY <2>4, <3>0, <3>6, <4>1 DEF UpdateMsg, TypeOK
        <5> QED
          BY <5>1, <3>2, <2>0 DEF CountInv, Doc
      <4>2. CASE c = k /\ conversation[k] = <<>>
        <5>1. conversation'[c] = conversation[c]
          BY <2>4, <3>0, <4>2 DEF UpdateMsg
        <5> QED
          <6>1. Cardinality(Pending(k)) <= logs[k] /\ DOMAIN conversation[k] = {}
            BY <3>1, <4>2 DEF CountInv
          <6> QED
            BY <4>2, <5>1, <6>1, <3>1, <3>2, <3>5, <2>0
      <4>3. CASE c = k /\ conversation[k] # <<>>
        <5>1. PICK d \in Doc : /\ d.total = conversation[k][1].total + 1 /\ d.msg = m
                               /\ conversation'[k] = [conversation[k] EXCEPT ![1] = d]
          <6> DEFINE e == [total |-> conversation[k][1].total + 1, msg |-> m]
          <6>1. conversation[k][1] \in Doc
            BY <4>3, <2>0
          <6>2. e \in Doc
            BY <6>1 DEF Doc
          <6>3. conversation'[k] = [conversation[k] EXCEPT ![1] = e]
            BY <2>4, <3>0, <4>3 DEF UpdateMsg, TypeOK
          <6> QED
            BY <6>2, <6>3
        <5>2. 1 \in DOMAIN conversation[k]
          BY <3>1, <4>3, <2>0
        <5>3. ASSUME NEW i \in DOMAIN conversation'[k]
              PROVE  /\ i \in DOMAIN conversation[k]
                     /\ conversation'[k][i] = IF i = 1 THEN d ELSE conversation[k][i]
          BY <3>1, <5>1, <5>2, <2>0
        <5>4. /\ d.total + Cardinality(Pending(k)') <= logs[k]
              /\ d.msg <= logs[k]
          <6>1. /\ conversation[k][1].total \in Nat
                /\ conversation[k][1].total + Cardinality(Pending(k)) <= logs[k]
            BY <3>1, <5>2, <2>0 DEF CountInv, Doc
          <6> QED
            BY <6>1, <5>1, <3>1, <3>5
        <5>5. Cardinality(Pending(k)') <= Cardinality(Pending(k))
          BY <3>5
        <5> QED
          <6>1. ASSUME NEW i \in DOMAIN conversation'[k]
                PROVE  /\ conversation'[k][i].total + Cardinality(Pending(k)') <= logs[k]
                       /\ conversation'[k][i].msg <= logs[k]
            <7>1. CASE i = 1
              BY <5>3, <5>4, <7>1
            <7>2. CASE i # 1
              <8>1. /\ conversation[k][i].total \in Nat
                    /\ conversation[k][i].total + Cardinality(Pending(k)) <= logs[k]
                    /\ conversation[k][i].msg <= logs[k]
                BY <5>3, <6>1, <3>1, <2>0 DEF CountInv, Doc
              <8> QED
                BY <8>1, <5>3, <5>5, <7>2, <3>1, <2>0
            <7> QED
              BY <7>1, <7>2
          <6>2. Cardinality(Pending(k)) <= logs[k]
            BY <3>1 DEF CountInv
          <6> QED
            BY <4>3, <5>5, <6>1, <6>2, <3>1, <3>2, <2>0
      <4> QED
        BY <4>1, <4>2, <4>3
    <3>8. \A q \in Procs : run'[q].at = "count" => run'[q].msg <= logs'[run'[q].conv]
      BY <3>2, <3>3 DEF CountInv
    <3> QED
      BY <3>7, <3>8 DEF CountInv
  <2>5. CASE UNCHANGED vars
    BY <2>5, <2>a DEF vars
  <2> QED
    BY <2>1, <2>2, <2>3, <2>4, <2>5 DEF Next, Step
<1>3. TypeOK /\ CountInv => CountedIsStored
  <2> SUFFICES ASSUME TypeOK, CountInv, NEW c \in Convs, NEW i \in DOMAIN conversation[c]
               PROVE  conversation[c][i].total <= logs[c] /\ conversation[c][i].msg <= logs[c]
    BY DEF CountedIsStored
  <2>1. conversation[c][i].total \in Nat /\ logs[c] \in Nat
    <3>1. conversation[c] \in Seq(Doc) /\ logs[c] \in Nat
      BY DEF TypeOK
    <3>2. conversation[c][i] \in Doc
      BY <3>1
    <3> QED
      BY <3>1, <3>2 DEF Doc
  <2> QED
    BY <2>1, PendingCounts DEF CountInv, Pending
<1> QED
  BY <1>1, <1>2, <1>3, TypeCorrect, PTL DEF Spec

-----------------------------------------------------------------------------
(* EstablishedIsListed.  Between the insert of a conversation and the save  *)
(* of a list there is always a goroutine that has the user to do.           *)

Left(todo) == {todo[i] : i \in DOMAIN todo}
SettingUp(p, u, c) == run[p].at \in {"load", "save"} /\ run[p].conv = c /\ u \in Left(run[p].todo)
HasIt(u, c) == conversations[u] # <<>> /\ c \in Listed(conversations[u][1])
SetUpInv ==
  /\ \A p \in Procs : run[p].at \in {"find", "insert"} /\ run[p].conv \in Pairs =>
       run[p].conv \subseteq Left(run[p].todo)
  /\ \A p \in Procs : run[p].at = "save" /\ ~run[p].new => conversations[Head(run[p].todo)] # <<>>
  /\ \A c \in Pairs \ broken : conversation[c] # <<>> =>
       \A u \in c \ overwritten : HasIt(u, c) \/ \E p \in Procs : SettingUp(p, u, c)

LEMMA PairsAre ==
  ASSUME NEW c \in Pairs
  PROVE  c \subseteq Users /\ c \in Convs /\ c \notin Groups
BY GroupsAssumption DEF Pairs, Convs

(* Who is left to do but the first is left when the first is done.          *)
LEMMA LeftAfter ==
  ASSUME NEW todo \in Todo
  PROVE  /\ Head(todo) \in Users /\ Tail(todo) \in Seq(Users)
         /\ \A u \in Left(todo) : u = Head(todo) \/ u \in Left(Tail(todo))
         /\ Tail(todo) = <<>> => Left(todo) = {Head(todo)}
<1>1. todo \in Seq(Users) /\ todo # <<>>
  BY DEF Todo
<1>2. ASSUME NEW i \in DOMAIN todo PROVE todo[i] = Head(todo) \/ todo[i] \in Left(Tail(todo))
  <2>1. i \in 1..Len(todo) /\ Len(Tail(todo)) = Len(todo) - 1 /\ Head(todo) = todo[1]
    BY <1>1, <1>2
  <2>2. CASE i # 1
    <3>1. i - 1 \in 1..Len(Tail(todo)) /\ Tail(todo)[i - 1] = todo[i]
      BY <1>1, <2>1, <2>2
    <3> QED
      BY <1>1, <3>1 DEF Left
  <2> QED
    BY <2>1, <2>2
<1>3. Left(<<>>) = {}
  BY DEF Left
<1>4. Head(todo) \in Left(todo)
  BY <1>1 DEF Left
<1> QED
  BY <1>1, <1>2, <1>3, <1>4 DEF Left

(* What the one whose list is saved has then.                               *)
LEMMA SaveGives ==
  ASSUME TypeOK, NEW v \in Users, NEW list, NEW new \in BOOLEAN, NEW list2 \in Lists,
         Save(v, list, new, list2)
  PROVE  /\ \A u \in Users \ {v} : conversations'[u] = conversations[u]
         /\ v \notin overwritten' => Current(v, list, new)
         /\ new = TRUE => conversations'[v] # <<>>
         /\ new = TRUE /\ v \notin overwritten' => conversations'[v] = <<list2>>
         /\ new = FALSE => Len(conversations'[v]) = Len(conversations[v])
         /\ new = FALSE /\ conversations[v] # <<>> => conversations'[v] # <<>>
         /\ new = FALSE /\ conversations[v] # <<>> => conversations'[v][1] = list2
<1> DEFINE docs == conversations[v]
<1>1. docs \in Seq(Lists) /\ v \in DOMAIN conversations
  BY DEF TypeOK
<1>2. conversations'[v] = IF new THEN Append(docs, list2) ELSE [docs EXCEPT ![1] = list2]
  BY <1>1 DEF Save, TypeOK
<1>3. /\ Append(docs, list2) # <<>>
      /\ docs = <<>> => Append(docs, list2) = <<list2>>
      /\ docs # <<>> => [docs EXCEPT ![1] = list2] # <<>> /\ [docs EXCEPT ![1] = list2][1] = list2
      /\ Len([docs EXCEPT ![1] = list2]) = Len(docs)
  BY <1>1, FirstReplaced
<1>4. v \notin overwritten' => Current(v, list, new)
  BY DEF Save
<1>5. \A u \in Users \ {v} : conversations'[u] = conversations[u]
  BY DEF Save, TypeOK
<1> QED
  BY <1>2, <1>3, <1>4, <1>5 DEF Current

(* A list is saved in place of the one it was made of, or as the first:     *)
(* what the user's list named it names.                                     *)
LEMMA SaveKeeps ==
  ASSUME TypeOK, NEW u \in Users, NEW v \in Users, NEW list, NEW new \in BOOLEAN, NEW list2 \in Lists,
         Save(v, list, new, list2), Listed(list) \subseteq Listed(list2)
  PROVE  /\ conversations[u] # <<>> => conversations'[u] # <<>>
         /\ \A c \in Convs : u \notin overwritten' /\ HasIt(u, c) => HasIt(u, c)'
<1>1. conversations[u] # <<>> => conversations'[u] # <<>>
  <2>1. CASE u # v
    BY <2>1, SaveGives
  <2>2. CASE u = v
    <3>1. CASE new = TRUE
      BY <2>2, <3>1, SaveGives
    <3>2. CASE new = FALSE
      BY <2>2, <3>2, SaveGives
    <3> QED
      BY <3>1, <3>2
  <2> QED
    BY <2>1, <2>2
<1>2. ASSUME NEW c \in Convs, u \notin overwritten', HasIt(u, c) PROVE HasIt(u, c)'
  <2>1. CASE u # v
    <3>1. conversations'[u] = conversations[u]
      BY <2>1, SaveGives
    <3> QED
      BY <1>2, <3>1 DEF HasIt
  <2>2. CASE u = v
    <3>1. new = FALSE /\ conversations[v][1] = list
      BY <1>2, <2>2, SaveGives DEF HasIt, Current
    <3> QED
      BY <1>2, <2>2, <3>1, SaveGives DEF HasIt
  <2> QED
    BY <2>1, <2>2
<1> QED
  BY <1>1, <1>2

(* The two steps that save a list.                                          *)
LEMMA SetUpSaves ==
  ASSUME TypeOK, NEW p \in Procs, SaveList(p)
  PROVE  /\ run[p] \in SaveSteps /\ Head(run[p].todo) \in Users
         /\ WithEntry(run[p].list, run[p].conv) \in Lists
         /\ Save(Head(run[p].todo), run[p].list, run[p].new, WithEntry(run[p].list, run[p].conv))
         /\ Listed(run[p].list) \cup {run[p].conv} \subseteq Listed(WithEntry(run[p].list, run[p].conv))
<1>1. run[p] \in SaveSteps
  BY AtTells DEF SaveList, TypeOK
<1>2. run[p].list \in Lists /\ run[p].conv \in Convs /\ Head(run[p].todo) \in Users
  BY <1>1 DEF SaveSteps, Todo
<1>3. WithEntry(run[p].list, run[p].conv) \in Lists
  BY <1>2, ListsKept
<1>4. Listed(run[p].list) \cup {run[p].conv} \subseteq Listed(WithEntry(run[p].list, run[p].conv))
  BY <1>2 DEF Listed, WithEntry, Lists, Unlisted
<1> QED
  BY <1>1, <1>2, <1>3, <1>4 DEF SaveList

LEMMA PutSaves ==
  ASSUME TypeOK, NEW p \in Procs, PutSave(p)
  PROVE  /\ run[p] \in PutSaveSteps
         /\ AddReads(run[p].list, run[p].reads) \in Lists
         /\ Save(run[p].user, run[p].list, FALSE, AddReads(run[p].list, run[p].reads))
         /\ Listed(run[p].list) \subseteq Listed(AddReads(run[p].list, run[p].reads))
<1>1. run[p] \in PutSaveSteps
  BY AtTells DEF PutSave, TypeOK
<1>2. run[p].list \in Lists /\ run[p].reads \in Lists
  BY <1>1 DEF PutSaveSteps
<1>3. AddReads(run[p].list, run[p].reads) \in Lists
  <2>1. CASE Convs = {}
    BY <1>2, <2>1 DEF AddReads, Lists
  <2>2. CASE Convs # {}
    BY <1>2, <2>2, ListsKept
  <2> QED
    BY <2>1, <2>2
<1>4. Listed(run[p].list) \subseteq Listed(AddReads(run[p].list, run[p].reads))
  BY <1>2 DEF Listed, AddReads, Read, Lists, Unlisted
<1> QED
  BY <1>1, <1>3, <1>4 DEF PutSave

(* No document is ever removed, and a list that nobody overwrites keeps     *)
(* what it names.                                                           *)
LEMMA HasItStays ==
  ASSUME TypeOK, [Next]_vars, NEW u \in Users
  PROVE  /\ conversations[u] # <<>> => conversations'[u] # <<>>
         /\ \A c \in Convs : u \notin overwritten' /\ HasIt(u, c) => HasIt(u, c)'
<1>1. CASE UNCHANGED conversations
  BY <1>1 DEF HasIt
<1>2. CASE \E p \in Procs : SaveList(p)
  <2>1. PICK p \in Procs : SaveList(p)
    BY <1>2
  <2>2. run[p].new \in BOOLEAN
    BY <2>1, SetUpSaves DEF SaveSteps
  <2> QED
    BY <2>1, <2>2, SetUpSaves, SaveKeeps
<1>3. CASE \E p \in Procs : PutSave(p)
  <2>1. PICK p \in Procs : PutSave(p)
    BY <1>3
  <2> QED
    <3>1. run[p].user \in Users
      BY <2>1, PutSaves DEF PutSaveSteps
    <3>2. Save(run[p].user, run[p].list, FALSE, AddReads(run[p].list, run[p].reads))
      BY <2>1, PutSaves
    <3> QED
      BY <2>1, <3>1, <3>2, PutSaves, SaveKeeps
<1> QED
  BY <1>1, <1>2, <1>3
  DEF Next, vars, store, history, Call, Step, SetUp, CreateGroup, Get, Put, Consume,
      FindConversation, InsertConversation, LoadList, GetLoad, GetCount, PutLoad,
      PutAnswer, PutRetry, StoreLog, UpdateMsg, Fail

(* A goroutine stays where it is unless it takes the step.                  *)
LEMMA StaysOrMoves ==
  ASSUME TypeOK, [Next]_vars, NEW p \in Procs
  PROVE  run'[p] = run[p] \/ Call(p) \/ Step(p) \/ PutRetry(p) \/ Fail(p)
BY OneMoves DEF Next, vars

(* A conversation appears when one who looked for it inserts it.            *)
LEMMA OneInserts ==
  ASSUME TypeOK, [Next]_vars, NEW c \in Convs, conversation[c] = <<>>, conversation'[c] # <<>>
  PROVE  \E p \in Procs : InsertConversation(p) /\ run[p].conv = c
<1>1. CASE \E p \in Procs : InsertConversation(p)
  BY <1>1 DEF InsertConversation, TypeOK
<1>2. ASSUME NEW p \in Procs, UpdateMsg(p) PROVE FALSE
  <2>1. conversation'[c] = conversation[c]
    BY <1>2 DEF UpdateMsg, TypeOK
  <2> QED
    BY <2>1
<1> QED
  BY <1>1, <1>2
  DEF Next, vars, store, history, Call, Step, SetUp, CreateGroup, Get, Put, Consume,
      FindConversation, LoadList, SaveList, GetLoad, GetCount, PutLoad, PutSave,
      PutAnswer, PutRetry, StoreLog, Fail

(* A set-up goes on until the user has the conversation, or it breaks.      *)
LEMMA SetUpGoesOn ==
  ASSUME TypeOK, SetUpInv, [Next]_vars, NEW c \in Pairs, NEW u \in c, NEW p \in Procs,
         c \notin broken', u \notin overwritten', SettingUp(p, u, c)
  PROVE  HasIt(u, c)' \/ SettingUp(p, u, c)'
<1>0. u \in Users /\ c \in Convs
  BY PairsAre
<1>1. CASE run'[p] = run[p]
  BY <1>1 DEF SettingUp
<1>2. CASE LoadList(p)
  <2> DEFINE docs == conversations[Head(run[p].todo)]
  <2>1. run[p] \in LoadSteps
    BY <1>2, AtTells DEF LoadList, TypeOK
  <2>2. run[p].todo \in Todo
    BY <2>1 DEF LoadSteps
  <2>3. CASE docs # <<>> /\ c \in Listed(docs[1])
    <3>1. CASE u = Head(run[p].todo)
      BY <1>2, <2>3, <3>1 DEF LoadList, HasIt, store
    <3>2. CASE u # Head(run[p].todo)
      <4>1. u \in Left(Tail(run[p].todo))
        BY <2>2, <3>2, LeftAfter DEF SettingUp
      <4>2. Tail(run[p].todo) # <<>>
        BY <4>1 DEF Left
      <4>3. run'[p] = [at |-> "load", conv |-> c, todo |-> Tail(run[p].todo)]
        BY <1>2, <2>3, <4>2 DEF LoadList, GoOn, Goto, SettingUp, TypeOK
      <4> QED
        BY <4>1, <4>3 DEF SettingUp, Left
    <3> QED
      BY <3>1, <3>2
  <2>4. CASE ~(docs # <<>> /\ c \in Listed(docs[1]))
    BY <1>2, <2>4 DEF LoadList, Goto, SettingUp, TypeOK
  <2> QED
    BY <2>3, <2>4
<1>3. CASE SaveList(p)
  <2>1. run[p] \in SaveSteps /\ run[p].todo \in Todo /\ Head(run[p].todo) \in Users
        /\ run[p].new \in BOOLEAN /\ run[p].conv = c
    BY <1>3, SetUpSaves DEF SaveSteps, SettingUp
  <2>2. CASE u = Head(run[p].todo)
    <3>0. /\ Save(u, run[p].list, run[p].new, WithEntry(run[p].list, c))
          /\ WithEntry(run[p].list, c) \in Lists
      BY <1>3, <2>1, <2>2, SetUpSaves
    <3>1. conversations'[u] # <<>> /\ conversations'[u][1] = WithEntry(run[p].list, c)
      <4>1. CASE run[p].new = TRUE
        <5>1. conversations'[u] = <<WithEntry(run[p].list, c)>>
          BY <1>0, <2>1, <3>0, <4>1, SaveGives
        <5> QED
          BY <5>1
      <4>2. CASE run[p].new = FALSE
        <5>1. conversations[u] # <<>>
          BY <1>3, <2>2, <4>2 DEF SetUpInv, SaveList
        <5> QED
          <6>1. conversations'[u] # <<>>
            BY <1>0, <2>1, <3>0, <4>2, <5>1, SaveGives
          <6>2. conversations'[u] = [conversations[u] EXCEPT ![1] = WithEntry(run[p].list, c)]
            BY <1>0, <3>0, <4>2 DEF Save, TypeOK
          <6>3. conversations[u] \in Seq(Lists)
            BY <1>0 DEF TypeOK
          <6> QED
            BY <3>0, <5>1, <6>1, <6>2, <6>3, FirstReplaced
      <4> QED
        BY <2>1, <4>1, <4>2
    <3>2. c \in Listed(WithEntry(run[p].list, c))
      BY <1>3, SetUpSaves DEF SettingUp
    <3> QED
      BY <3>1, <3>2 DEF HasIt, Listed
  <2>3. CASE u # Head(run[p].todo)
    <3>1. u \in Left(Tail(run[p].todo))
      BY <2>1, <2>3, LeftAfter DEF SettingUp
    <3>2. Tail(run[p].todo) # <<>>
      BY <3>1 DEF Left
    <3>3. run'[p] = [at |-> "load", conv |-> c, todo |-> Tail(run[p].todo)]
      BY <1>3, <3>2 DEF SaveList, GoOn, Goto, SettingUp, TypeOK
    <3> QED
      BY <3>1, <3>3 DEF SettingUp, Left
  <2> QED
    BY <2>2, <2>3
<1>4. CASE Fail(p)
  BY <1>4 DEF Fail, SettingUp
<1>5. run'[p] = run[p] \/ LoadList(p) \/ SaveList(p) \/ Fail(p)
  <2>1. run[p].at \in {"load", "save"}
    BY DEF SettingUp
  <2>2. ~Call(p)
    BY <2>1 DEF Call, Start, Idle, SetUp, CreateGroup, Get, Put, Consume
  <2>3. ~PutRetry(p)
    BY <2>1 DEF PutRetry
  <2>4. Step(p) => LoadList(p) \/ SaveList(p)
    BY <2>1 DEF Step, FindConversation, InsertConversation, GetLoad, GetCount, PutLoad,
                PutSave, PutAnswer, StoreLog, UpdateMsg
  <2> QED
    BY <2>2, <2>3, <2>4, StaysOrMoves
<1> QED
  BY <1>1, <1>2, <1>3, <1>4, <1>5

(* The calls about reading, and the task MQ, have no part in a set-up.      *)
LEMMA OthersSetUpNothing ==
  ASSUME TypeOK, NEW p \in Procs,
         \/ GetLoad(p) \/ GetCount(p) \/ PutLoad(p) \/ PutSave(p) \/ PutAnswer(p)
         \/ StoreLog(p) \/ UpdateMsg(p) \/ PutRetry(p) \/ Fail(p)
  PROVE  run'[p].at \notin {"find", "insert", "load", "save"}
<1>1. CASE GetLoad(p) \/ GetCount(p)
  BY <1>1 DEF GetLoad, GetCount, Goto, Return, Idle, TypeOK
<1>2. CASE PutLoad(p) \/ PutAnswer(p)
  BY <1>2 DEF PutLoad, PutAnswer, Goto, Return, Idle, TypeOK
<1>3. CASE PutSave(p) \/ PutRetry(p)
  <2>1. CASE PutSave(p)
    BY <2>1 DEF PutSave, Goto, TypeOK
  <2>2. CASE PutRetry(p)
    BY <2>2 DEF PutRetry, Goto, TypeOK
  <2> QED
    BY <1>3, <2>1, <2>2
<1>4. CASE StoreLog(p) \/ UpdateMsg(p)
  BY <1>4 DEF StoreLog, UpdateMsg, Goto, Return, Idle, TypeOK
<1>5. CASE Fail(p)
  BY <1>5 DEF Fail, Goto, Return, Idle, TypeOK
<1> QED
  BY <1>1, <1>2, <1>3, <1>4, <1>5

(* EstablishedConversationsAreListed: once the set-up of a single chat is   *)
(* over, both find it in their lists, unless the set-up failed half way or  *)
(* somebody saved a stale copy of the list.                                 *)
THEOREM EstablishedConversationsAreListed == Spec => []EstablishedIsListed
<1>1. Init => SetUpInv
  BY PairsAre DEF Init, SetUpInv, Idle
<1>2. TypeOK /\ SetUpInv /\ [Next]_vars => SetUpInv'
  <2> SUFFICES ASSUME TypeOK, SetUpInv, [Next]_vars PROVE SetUpInv'
    OBVIOUS
  <2>1. ASSUME NEW p \in Procs, run'[p].at \in {"find", "insert"}, run'[p].conv \in Pairs
        PROVE  run'[p].conv \subseteq Left(run'[p].todo)
    <3>1. CASE run'[p] = run[p]
      BY <2>1, <3>1 DEF SetUpInv
    <3>2. ASSUME NEW u \in Users, NEW v \in Users, SetUp(p, u, v)
          PROVE  run'[p].conv \subseteq Left(run'[p].todo)
      <4>1. run'[p] = [at |-> "find", conv |-> {u, v}, todo |-> <<u, v>>]
        BY <3>2 DEF SetUp, Start, TypeOK
      <4>2. 1 \in DOMAIN <<u, v>> /\ 2 \in DOMAIN <<u, v>>
        OBVIOUS
      <4> QED
        BY <4>1, <4>2 DEF Left
    <3>3. ASSUME NEW g \in Groups, CreateGroup(p, g) PROVE FALSE
      BY <2>1, <3>3, PairsAre DEF CreateGroup, Start, TypeOK
    <3>4. CASE FindConversation(p)
      <4>1. run[p] \in FindSteps
        BY <3>4, AtTells DEF FindConversation, TypeOK
      <4>2. run'[p].conv = run[p].conv /\ run'[p].todo = run[p].todo /\ run[p].at = "find"
        BY <2>1, <3>4, <4>1 DEF FindConversation, Return, Goto, Idle, TypeOK, FindSteps
      <4> QED
        BY <2>1, <4>2 DEF SetUpInv
    <3>5. ASSUME InsertConversation(p) \/ LoadList(p) \/ SaveList(p) PROVE FALSE
      BY <2>1, <3>5 DEF InsertConversation, LoadList, SaveList, GoOn, Goto, Return, Idle, TypeOK
    <3>6. ASSUME Call(p) PROVE (\E u, v \in Users : SetUp(p, u, v)) \/ \E g \in Groups : CreateGroup(p, g)
      BY <2>1, <3>6 DEF Call, Get, Put, Consume, Start, TypeOK
    <3>7. ASSUME \/ GetLoad(p) \/ GetCount(p) \/ PutLoad(p) \/ PutSave(p) \/ PutAnswer(p)
                 \/ StoreLog(p) \/ UpdateMsg(p) \/ PutRetry(p) \/ Fail(p)
          PROVE  FALSE
      BY <2>1, <3>7, OthersSetUpNothing
    <3> QED
      BY <3>1, <3>2, <3>3, <3>4, <3>5, <3>6, <3>7, StaysOrMoves DEF Step
  <2>2. ASSUME NEW p \in Procs, run'[p].at = "save", ~run'[p].new
        PROVE  conversations'[Head(run'[p].todo)] # <<>>
    <3>1. CASE run'[p] = run[p]
      <4>1. run[p] \in SaveSteps
        BY <2>2, <3>1, AtTells DEF TypeOK
      <4>2. Head(run[p].todo) \in Users
        BY <4>1, LeftAfter DEF SaveSteps
      <4> QED
        BY <2>2, <3>1, <4>2, HasItStays DEF SetUpInv
    <3>2. CASE LoadList(p)
      <4> DEFINE docs == conversations[Head(run[p].todo)]
      <4>1. CASE docs # <<>> /\ run[p].conv \in Listed(docs[1])
        BY <2>2, <3>2, <4>1 DEF LoadList, GoOn, Goto, Return, Idle, TypeOK
      <4>2. CASE ~(docs # <<>> /\ run[p].conv \in Listed(docs[1]))
        <5>1. PICK r : r = run'[p]
          OBVIOUS
        <5>2. r = [at |-> "save", conv |-> run[p].conv, todo |-> run[p].todo,
                   list |-> First(docs), new |-> docs = <<>>]
          BY <3>2, <4>2, <5>1 DEF LoadList, Goto, TypeOK
        <5>3. (r.new <=> docs = <<>>) /\ r.todo = run[p].todo
          BY <5>2
        <5> QED
          BY <2>2, <3>2, <5>1, <5>3 DEF LoadList, store
      <4> QED
        BY <4>1, <4>2
    <3>3. ASSUME Call(p) PROVE FALSE
      BY <2>2, <3>3 DEF Call, SetUp, CreateGroup, Get, Put, Consume, Start, TypeOK
    <3>4. ASSUME FindConversation(p) PROVE FALSE
      BY <2>2, <3>4, AtTells DEF FindConversation, FindSteps, Goto, Return, Idle, TypeOK
    <3>5. ASSUME InsertConversation(p) \/ SaveList(p) PROVE FALSE
      BY <2>2, <3>5 DEF InsertConversation, SaveList, GoOn, Goto, Return, Idle, TypeOK
    <3>6. ASSUME \/ GetLoad(p) \/ GetCount(p) \/ PutLoad(p) \/ PutSave(p) \/ PutAnswer(p)
                 \/ StoreLog(p) \/ UpdateMsg(p) \/ PutRetry(p) \/ Fail(p)
          PROVE  FALSE
      BY <2>2, <3>6, OthersSetUpNothing
    <3> QED
      BY <3>1, <3>2, <3>3, <3>4, <3>5, <3>6, StaysOrMoves DEF Step
  <2>3. ASSUME NEW c \in Pairs, c \notin broken', conversation'[c] # <<>>, NEW u \in c, u \notin overwritten'
        PROVE  HasIt(u, c)' \/ \E p \in Procs : SettingUp(p, u, c)'
    <3>0. u \in Users /\ c \in Convs
      BY PairsAre
    <3>1. CASE conversation[c] = <<>>
      <4>1. PICK p \in Procs : InsertConversation(p) /\ run[p].conv = c
        BY <2>3, <3>0, <3>1, OneInserts
      <4>2. u \in Left(run[p].todo)
        BY <4>1 DEF SetUpInv, InsertConversation
      <4>3. run'[p] = [at |-> "load", conv |-> c, todo |-> run[p].todo]
        BY <4>1, <4>2 DEF InsertConversation, GoOn, Goto, TypeOK, Left
      <4> QED
        BY <4>2, <4>3 DEF SettingUp, Left
    <3>2. CASE conversation[c] # <<>>
      <4>1. broken \subseteq broken' /\ overwritten \subseteq overwritten'
        BY DEF Next, vars, history, Call, Step, SetUp, CreateGroup, Get, Put, Consume,
               FindConversation, InsertConversation, LoadList, SaveList, GetLoad, GetCount,
               PutLoad, PutSave, PutAnswer, PutRetry, StoreLog, UpdateMsg, Fail, Save
      <4>2. HasIt(u, c) \/ \E p \in Procs : SettingUp(p, u, c)
        BY <2>3, <3>2, <4>1 DEF SetUpInv
      <4>3. CASE HasIt(u, c)
        BY <2>3, <3>0, <4>3, HasItStays
      <4>4. CASE \E p \in Procs : SettingUp(p, u, c)
        <5>1. PICK p \in Procs : SettingUp(p, u, c)
          BY <4>4
        <5>2. HasIt(u, c)' \/ SettingUp(p, u, c)'
          BY <2>3, <5>1, SetUpGoesOn
        <5> QED
          BY <5>2
      <4> QED
        BY <4>2, <4>3, <4>4
    <3> QED
      BY <3>1, <3>2
  <2>4. \A p \in Procs : run'[p].at \in {"find", "insert"} /\ run'[p].conv \in Pairs =>
           run'[p].conv \subseteq Left(run'[p].todo)
    BY <2>1
  <2>5. \A p \in Procs : run'[p].at = "save" /\ ~run'[p].new => conversations'[Head(run'[p].todo)] # <<>>
    BY <2>2
  <2>6. \A c \in Pairs \ broken' : conversation'[c] # <<>> =>
           \A u \in c \ overwritten' : HasIt(u, c)' \/ \E p \in Procs : SettingUp(p, u, c)'
    BY <2>3
  <2> QED
    BY <2>4, <2>5, <2>6 DEF SetUpInv, Left
<1>3. SetUpInv => EstablishedIsListed
  BY DEF SetUpInv, EstablishedIsListed, SettingUp, HasIt
<1> QED
  BY <1>1, <1>2, <1>3, TypeCorrect, PTL DEF Spec

-----------------------------------------------------------------------------
(* ReadWithinTotal.  What a client was told of as unread and has not yet    *)
(* reported is still there to be read, and so is what is being reported,    *)
(* but for what is counted twice.                                           *)

Waits(p, u) == run[p].at \in {"getLoad", "getCount", "putLoad", "putSave", "putAnswer"} /\ run[p].user = u
HasRead(docs, c) == Read(First(docs), c)
Totals == [c \in Convs |-> Total(c)]
StepReads(u, docs, told, more, totals, r) ==
  /\ r.at = "getCount" /\ r.user = u =>
       \A c \in Convs : HasRead(docs, c) <= Read(r.list, c) + more[c]
  /\ r.at \in {"putLoad", "putSave"} /\ r.user = u =>
       \A c \in Convs : HasRead(docs, c) + Read(r.reads, c) <= totals[c] + more[c]
  /\ r.at \in {"putLoad", "putSave", "putAnswer"} /\ r.user = u => told = NoList
(* Documents that no lookup finds hold no reads.                            *)
LaterUnread(docs) == \A i \in DOMAIN docs : i # 1 => \A c \in Convs : docs[i][c] <= 0
UserReads(u, docs, told, more, totals, rs) ==
  /\ LaterUnread(docs)
  /\ \A c \in Convs : HasRead(docs, c) + Read(told, c) <= totals[c] + more[c]
  /\ \A p \in Procs : StepReads(u, docs, told, more, totals, rs[p])
ReadInv ==
  /\ \A p, q \in Procs, u \in Users : Waits(p, u) /\ Waits(q, u) => p = q
  /\ \A p \in Procs : run[p].at = "save" /\ run[p].new = TRUE => run[p].list = NoList
  /\ \A u \in Users : UserReads(u, conversations[u], answer[u], again[u], Totals, run)

(* What a list counts as read.                                              *)
LEMMA ListReads ==
  ASSUME NEW list \in Lists, NEW reads \in Lists, NEW c \in Convs, NEW d \in Convs
  PROVE  /\ Read(list, c) \in Nat /\ list[c] <= Read(list, c)
         /\ Read(NoList, c) = 0
         /\ Read(WithEntry(list, d), c) <= Read(list, c)
         /\ Read(AddReads(list, reads), c) = Read(reads, c) + Read(list, c)
BY DEF Lists, NoList, WithEntry, AddReads, Read, Unlisted

LEMMA HasReadIsNat ==
  ASSUME NEW docs \in Seq(Lists), NEW c \in Convs
  PROVE  /\ HasRead(docs, c) \in Nat
         /\ docs # <<>> => docs[1] \in Lists /\ HasRead(docs, c) = Read(docs[1], c)
BY FirstIsList, ListReads DEF HasRead

(* What was told is at most what a list leaves to be read.                  *)
LEMMA ToReads ==
  ASSUME TypeOK, NEW list \in Lists, NEW c \in Convs
  PROVE  /\ ToRead(list) \in Lists
         /\ Read(ToRead(list), c) = 0 \/ Read(ToRead(list), c) + Read(list, c) = Total(c)
<1>1. \A d \in Convs : Total(d) \in Nat
  BY TotalIsNat
<1> QED
  BY <1>1 DEF ToRead, Read, Lists, Unlisted

(* What a user has read once a copy of his document is saved, and what may  *)
(* be counted twice since.                                                  *)
LEMMA SaveReads ==
  ASSUME TypeOK, NEW u \in Users, NEW list \in Lists, NEW new \in BOOLEAN, NEW list2 \in Lists,
         Save(u, list, new, list2), LaterUnread(conversations[u]),
         new = TRUE => \A c \in Convs : Read(list2, c) = 0
  PROVE  /\ \A v \in Users \ {u} : conversations'[v] = conversations[v] /\ again'[v] = again[v]
         /\ LaterUnread(conversations'[u])
         /\ \A c \in Convs : /\ Read(list, c) + again[u][c] <= HasRead(conversations[u], c) + again'[u][c]
                             /\ again[u][c] <= again'[u][c]
                             /\ \/ HasRead(conversations'[u], c) = HasRead(conversations[u], c)
                                \/ HasRead(conversations'[u], c) = Read(list2, c)
<1> DEFINE docs == conversations[u]
           docs2 == IF new THEN Append(docs, list2) ELSE [docs EXCEPT ![1] = list2]
           amount == Ahead(list, First(docs))
<1>1. docs \in Seq(Lists) /\ First(docs) \in Lists
  BY FirstIsList DEF TypeOK
<1>2. conversations' = [conversations EXCEPT ![u] = docs2] /\ Twice(u, amount)
  BY DEF Save
<1>3. conversations'[u] = docs2 /\ \A v \in Users \ {u} : conversations'[v] = conversations[v]
  BY <1>2 DEF TypeOK
<1>4. /\ amount \in [Convs -> Nat]
      /\ \A c \in Convs : Read(list, c) <= Read(First(docs), c) + amount[c]
  BY <1>1, AheadIs
<1>5. /\ \A c \in Convs : again'[u][c] = again[u][c] + amount[c]
      /\ \A v \in Users \ {u} : again'[v] = again[v]
  BY <1>2, <1>4, NowTwice
<1>6. \A c \in Convs : /\ Read(list, c) \in Nat /\ HasRead(docs, c) \in Nat
                       /\ again[u][c] \in Nat /\ amount[c] \in Nat
  BY <1>1, <1>4, ListReads, HasReadIsNat DEF TypeOK
<1> HIDE DEF amount
<1>7. \A c \in Convs : /\ Read(list, c) + again[u][c] <= HasRead(docs, c) + again'[u][c]
                       /\ again[u][c] <= again'[u][c]
  BY <1>4, <1>5, <1>6 DEF HasRead
<1>8. \A c \in Convs : list2[c] <= Read(list2, c)
  BY ListReads
<1>9. CASE new = TRUE
  <2>1. /\ docs2 = Append(docs, list2) /\ Len(docs2) = Len(docs) + 1 /\ docs2 # <<>>
        /\ DOMAIN docs2 = 1..(Len(docs) + 1) /\ DOMAIN docs = 1..Len(docs) /\ Len(docs) \in Nat
        /\ \A i \in 1..Len(docs) : docs2[i] = docs[i]
        /\ docs2[Len(docs) + 1] = list2
    BY <1>1, <1>9
  <2>2. LaterUnread(docs2)
    <3> SUFFICES ASSUME NEW i \in DOMAIN docs2, i # 1, NEW c \in Convs PROVE docs2[i][c] <= 0
      BY DEF LaterUnread
    <3>1. CASE i \in DOMAIN docs
      BY <2>1, <3>1 DEF LaterUnread
    <3>2. CASE i = Len(docs) + 1
      BY <1>8, <1>9, <2>1, <3>2
    <3> QED
      BY <2>1, <3>1, <3>2
  <2>3. First(docs2) = First(docs) \/ First(docs2) = list2
    <3>1. CASE docs = <<>>
      BY <2>1, <3>1 DEF First
    <3>2. CASE docs # <<>>
      <4>1. 1 \in 1..Len(docs)
        BY <1>1, <3>2
      <4> QED
        BY <2>1, <3>2, <4>1 DEF First
    <3> QED
      BY <3>1, <3>2
  <2> QED
    BY <1>3, <1>5, <1>7, <2>2, <2>3 DEF HasRead
<1>10. CASE new = FALSE
  <2>1. docs2 = [docs EXCEPT ![1] = list2]
    BY <1>10
  <2>2. /\ docs2 \in Seq(Lists) /\ Len(docs2) = Len(docs)
        /\ docs # <<>> => docs2[1] = list2
        /\ \A i \in 2..Len(docs) : docs2[i] = docs[i]
    BY <1>1, <2>1, FirstReplaced
  <2>3. DOMAIN docs2 = 1..Len(docs) /\ DOMAIN docs = 1..Len(docs) /\ Len(docs) \in Nat
    BY <1>1, <2>2
  <2>4. LaterUnread(docs2)
    <3> SUFFICES ASSUME NEW i \in DOMAIN docs2, i # 1, NEW c \in Convs PROVE docs2[i][c] <= 0
      BY DEF LaterUnread
    <3>1. i \in 2..Len(docs) /\ i \in DOMAIN docs
      BY <2>3
    <3> QED
      BY <2>2, <3>1 DEF LaterUnread
  <2>5. First(docs2) = First(docs) \/ First(docs2) = list2
    <3>1. docs = <<>> <=> docs2 = <<>>
      BY <1>1, <2>2
    <3> QED
      BY <2>2, <3>1 DEF First
  <2> QED
    BY <1>3, <1>5, <1>7, <2>4, <2>5 DEF HasRead
<1> QED
  BY <1>9, <1>10

(* A user is not concerned by a step that adds to his reads no more than to *)
(* what is counted twice, and leaves what he was told and whoever works for *)
(* him alone.                                                               *)
LEMMA ReadsStay ==
  ASSUME NEW u \in Users, NEW docs, NEW docs2, NEW told, NEW rs, NEW rs2,
         NEW more \in [Convs -> Nat], NEW more2 \in [Convs -> Nat],
         NEW totals \in [Convs -> Nat], NEW totals2 \in [Convs -> Nat],
         docs \in Seq(Lists), told \in Lists, docs2 \in Seq(Lists),
         \A p \in Procs : rs[p] \in Steps,
         UserReads(u, docs, told, more, totals, rs),
         \A c \in Convs : totals[c] <= totals2[c],
         LaterUnread(docs2), \A c \in Convs : HasRead(docs2, c) + more[c] <= HasRead(docs, c) + more2[c],
         \A p \in Procs : \/ rs2[p] = rs[p]
                          \/ rs2[p].at \notin {"getCount", "putLoad", "putSave", "putAnswer"}
                          \/ rs2[p].user # u
  PROVE  UserReads(u, docs2, told, more2, totals2, rs2)
<1>1. \A c \in Convs : /\ HasRead(docs, c) \in Nat /\ HasRead(docs2, c) \in Nat
                       /\ Read(told, c) \in Nat /\ more[c] \in Nat /\ more2[c] \in Nat
                       /\ totals[c] \in Nat /\ totals2[c] \in Nat
  BY HasReadIsNat, ListReads
<1>a. ASSUME NEW c \in Convs, NEW n \in Nat, HasRead(docs, c) + n <= totals[c] + more[c]
      PROVE  HasRead(docs2, c) + n <= totals2[c] + more2[c]
  BY <1>1, <1>a
<1>2. \A c \in Convs : HasRead(docs2, c) + Read(told, c) <= totals2[c] + more2[c]
  BY <1>1, <1>a DEF UserReads
<1>3. ASSUME NEW p \in Procs, rs2[p] = rs[p] PROVE StepReads(u, docs2, told, more2, totals2, rs2[p])
  <2> DEFINE r == rs[p]
  <2>0. StepReads(u, docs, told, more, totals, r)
    BY DEF UserReads
  <2>1. ASSUME r.at = "getCount", r.user = u, NEW c \in Convs
        PROVE  HasRead(docs2, c) <= Read(r.list, c) + more2[c]
    <3>1. r.list \in Lists
      BY <2>1, AtTells DEF GetCountSteps
    <3>2. Read(r.list, c) \in Nat
      BY <3>1, ListReads
    <3>3. HasRead(docs, c) <= Read(r.list, c) + more[c]
      BY <2>0, <2>1 DEF StepReads
    <3> QED
      BY <1>1, <3>2, <3>3
  <2>2. ASSUME r.at \in {"putLoad", "putSave"}, r.user = u, NEW c \in Convs
        PROVE  HasRead(docs2, c) + Read(r.reads, c) <= totals2[c] + more2[c]
    <3>1. r.reads \in Lists
      BY <2>2, AtTells DEF PutSteps, PutSaveSteps
    <3>2. Read(r.reads, c) \in Nat
      BY <3>1, ListReads
    <3>3. HasRead(docs, c) + Read(r.reads, c) <= totals[c] + more[c]
      BY <2>0, <2>2 DEF StepReads
    <3> QED
      BY <1>a, <3>2, <3>3
  <2> QED
    BY <1>3, <2>0, <2>1, <2>2 DEF StepReads
<1>4. ASSUME NEW p \in Procs, \/ rs2[p].at \notin {"getCount", "putLoad", "putSave", "putAnswer"}
                              \/ rs2[p].user # u
      PROVE  StepReads(u, docs2, told, more2, totals2, rs2[p])
  BY <1>4 DEF StepReads
<1> QED
  BY <1>2, <1>3, <1>4 DEF UserReads

(* The only one who works for a user takes a step.                          *)
LEMMA ReadsMove ==
  ASSUME NEW u \in Users, NEW p \in Procs, NEW docs, NEW told, NEW more, NEW totals, NEW rs,
         LaterUnread(docs), \A c \in Convs : HasRead(docs, c) + Read(told, c) <= totals[c] + more[c],
         StepReads(u, docs, told, more, totals, rs[p]),
         \A q \in Procs \ {p} : ~(/\ rs[q].at \in {"getLoad", "getCount", "putLoad", "putSave", "putAnswer"}
                                  /\ rs[q].user = u)
  PROVE  UserReads(u, docs, told, more, totals, rs)
BY DEF UserReads, StepReads

(* The totals of the conversations, as one function.                        *)
LEMMA TotalsGrow ==
  ASSUME TypeOK, TypeOK', [Next]_vars
  PROVE  /\ Totals \in [Convs -> Nat] /\ Totals' \in [Convs -> Nat]
         /\ \A c \in Convs : Totals[c] = Total(c) /\ Totals[c] <= Totals'[c]
<1>1. \A c \in Convs : Total(c) \in Nat
  BY TotalIsNat
<1>2. ASSUME NEW c \in Convs PROVE Total(c)' \in Nat
  <2>1. conversation'[c] \in Seq(Doc)
    BY DEF TypeOK
  <2>2. conversation'[c] # <<>> => conversation'[c][1] \in Doc
    BY <2>1
  <2> QED
    BY <2>2 DEF Total, Doc
<1>3. \A c \in Convs : Total(c) <= Total(c)'
  BY ConversationGrows
<1> QED
  BY <1>1, <1>2, <1>3 DEF Totals

(* What holds of a user before any step.                                    *)
LEMMA ReadFacts ==
  ASSUME TypeOK, TypeOK', ReadInv, [Next]_vars, NEW u \in Users
  PROVE  /\ UserReads(u, conversations[u], answer[u], again[u], Totals, run)
         /\ conversations[u] \in Seq(Lists) /\ answer[u] \in Lists
         /\ conversations'[u] \in Seq(Lists) /\ answer'[u] \in Lists
         /\ again[u] \in [Convs -> Nat] /\ again'[u] \in [Convs -> Nat]
         /\ \A c \in Convs : /\ HasRead(conversations[u], c) \in Nat
                             /\ Read(answer[u], c) \in Nat
                             /\ Totals[c] \in Nat /\ Totals'[c] \in Nat
                             /\ again[u][c] \in Nat /\ again'[u][c] \in Nat
                             /\ Totals[c] = Total(c) /\ Totals[c] <= Totals'[c]
                             /\ HasRead(conversations[u], c) + Read(answer[u], c) <= Totals[c] + again[u][c]
         /\ LaterUnread(conversations[u])
         /\ Totals \in [Convs -> Nat] /\ Totals' \in [Convs -> Nat]
         /\ \A p \in Procs : run[p] \in Steps
<1>2. UserReads(u, conversations[u], answer[u], again[u], Totals, run)
  BY DEF ReadInv
<1>3. /\ conversations[u] \in Seq(Lists) /\ answer[u] \in Lists /\ \A p \in Procs : run[p] \in Steps
      /\ conversations'[u] \in Seq(Lists) /\ answer'[u] \in Lists
      /\ again[u] \in [Convs -> Nat] /\ again'[u] \in [Convs -> Nat]
  BY DEF TypeOK
<1>4. \A c \in Convs : HasRead(conversations[u], c) \in Nat /\ Read(answer[u], c) \in Nat
  BY <1>3, HasReadIsNat, ListReads
<1> QED
  BY <1>2, <1>3, <1>4, TotalsGrow DEF UserReads

(* The save of a set-up adds nothing that was read.                         *)
LEMMA SetUpReads ==
  ASSUME TypeOK, TypeOK', ReadInv, [Next]_vars, NEW u \in Users, NEW p \in Procs, SaveList(p)
  PROVE  /\ LaterUnread(conversations'[u])
         /\ \A c \in Convs : HasRead(conversations'[u], c) + again[u][c]
                               <= HasRead(conversations[u], c) + again'[u][c]
<1> DEFINE v == Head(run[p].todo)
           list == run[p].list
           list2 == WithEntry(run[p].list, run[p].conv)
<1>1. /\ run[p] \in SaveSteps /\ v \in Users /\ list2 \in Lists
      /\ Save(v, list, run[p].new, list2)
  BY SetUpSaves
<1>2. list \in Lists /\ run[p].conv \in Convs /\ run[p].new \in BOOLEAN /\ run[p].at = "save"
  BY <1>1 DEF SaveSteps
<1>3. \A c \in Convs : /\ Read(list2, c) \in Nat /\ Read(list, c) \in Nat /\ Read(NoList, c) = 0
                       /\ Read(list2, c) <= Read(list, c)
  BY <1>1, <1>2, ListReads
<1>4. run[p].new = TRUE => \A c \in Convs : Read(list2, c) = 0
  BY <1>2, <1>3 DEF ReadInv
<1>5. /\ LaterUnread(conversations[v]) /\ LaterUnread(conversations[u])
      /\ \A c \in Convs : /\ HasRead(conversations[v], c) \in Nat /\ HasRead(conversations[u], c) \in Nat
                          /\ again[v][c] \in Nat /\ again'[v][c] \in Nat /\ again[u][c] \in Nat
  BY <1>1, ReadFacts
<1> HIDE DEF v, list, list2
<1>6. /\ \A w \in Users \ {v} : conversations'[w] = conversations[w] /\ again'[w] = again[w]
      /\ LaterUnread(conversations'[v])
      /\ \A c \in Convs : /\ Read(list, c) + again[v][c] <= HasRead(conversations[v], c) + again'[v][c]
                          /\ again[v][c] <= again'[v][c]
                          /\ \/ HasRead(conversations'[v], c) = HasRead(conversations[v], c)
                             \/ HasRead(conversations'[v], c) = Read(list2, c)
  BY <1>1, <1>2, <1>4, <1>5, SaveReads
<1>7. CASE u # v
  <2>1. conversations'[u] = conversations[u] /\ again'[u] = again[u]
    BY <1>6, <1>7
  <2> QED
    BY <1>5, <2>1
<1>8. CASE u = v
  BY <1>3, <1>5, <1>6, <1>8
<1> QED
  BY <1>7, <1>8

(* A step that leaves the user alone, and the save of his list by a set-up. *)
LEMMA ReadsElsewhere ==
  ASSUME TypeOK, TypeOK', ReadInv, [Next]_vars, NEW u \in Users,
         NEW p \in Procs, \A q \in Procs \ {p} : run'[q] = run[q],
         \/ run'[p].at \notin {"getCount", "putLoad", "putSave", "putAnswer"}
         \/ run'[p].user # u,
         answer'[u] = answer[u],
         \/ conversations'[u] = conversations[u] /\ again'[u] = again[u]
         \/ SaveList(p)
  PROVE  UserReads(u, conversations'[u], answer'[u], again'[u], Totals', run')
<1>0. /\ UserReads(u, conversations[u], answer[u], again[u], Totals, run)
      /\ conversations[u] \in Seq(Lists) /\ answer[u] \in Lists
      /\ conversations'[u] \in Seq(Lists) /\ answer'[u] \in Lists
      /\ again[u] \in [Convs -> Nat] /\ again'[u] \in [Convs -> Nat]
      /\ Totals \in [Convs -> Nat] /\ Totals' \in [Convs -> Nat]
      /\ \A q \in Procs : run[q] \in Steps
      /\ \A c \in Convs : Totals[c] <= Totals'[c]
      /\ LaterUnread(conversations[u])
      /\ \A c \in Convs : HasRead(conversations[u], c) \in Nat /\ again[u][c] \in Nat
  BY ReadFacts
<1>1. /\ LaterUnread(conversations'[u])
      /\ \A c \in Convs : HasRead(conversations'[u], c) + again[u][c]
                            <= HasRead(conversations[u], c) + again'[u][c]
  <2>1. CASE conversations'[u] = conversations[u] /\ again'[u] = again[u]
    BY <1>0, <2>1
  <2> QED
    BY <2>1, SetUpReads
<1>2. \A q \in Procs : \/ run'[q] = run[q]
                       \/ run'[q].at \notin {"getCount", "putLoad", "putSave", "putAnswer"}
                       \/ run'[q].user # u
  OBVIOUS
<1> DEFINE docs == conversations[u]
           docs2 == conversations'[u]
           told == answer[u]
           more == again[u]
           more2 == again'[u]
           totals == Totals
           totals2 == Totals'
           rs == run
           rs2 == run'
<1>3. /\ more \in [Convs -> Nat] /\ more2 \in [Convs -> Nat]
      /\ totals \in [Convs -> Nat] /\ totals2 \in [Convs -> Nat]
      /\ docs \in Seq(Lists) /\ told \in Lists /\ docs2 \in Seq(Lists)
      /\ \A q \in Procs : rs[q] \in Steps
      /\ UserReads(u, docs, told, more, totals, rs)
      /\ \A c \in Convs : totals[c] <= totals2[c]
      /\ LaterUnread(docs2)
      /\ \A c \in Convs : HasRead(docs2, c) + more[c] <= HasRead(docs, c) + more2[c]
      /\ \A q \in Procs : \/ rs2[q] = rs[q]
                          \/ rs2[q].at \notin {"getCount", "putLoad", "putSave", "putAnswer"}
                          \/ rs2[q].user # u
  BY <1>0, <1>1, <1>2
<1>4. answer'[u] = told
  OBVIOUS
<1>5. SUFFICES UserReads(u, docs2, told, more2, totals2, rs2)
  BY <1>4
<1> HIDE DEF docs, docs2, told, more, more2, totals, totals2, rs, rs2
<1> QED
  BY <1>3, ReadsStay

(* The steps of one who works for the user, nobody else doing so.           *)
LEMMA ReadsForHim ==
  ASSUME TypeOK, TypeOK', ReadInv, [Next]_vars, NEW u \in Users,
         NEW p \in Procs, \A q \in Procs \ {p} : run'[q] = run[q],
         run[p].user = u,
         GetLoad(p) \/ GetCount(p) \/ PutLoad(p) \/ PutSave(p) \/ PutRetry(p)
  PROVE  UserReads(u, conversations'[u], answer'[u], again'[u], Totals', run')
<1>0. /\ UserReads(u, conversations[u], answer[u], again[u], Totals, run)
      /\ conversations[u] \in Seq(Lists) /\ answer[u] \in Lists
      /\ LaterUnread(conversations[u])
      /\ \A c \in Convs : /\ HasRead(conversations[u], c) \in Nat /\ Read(answer[u], c) \in Nat
                          /\ Totals[c] \in Nat /\ Totals'[c] \in Nat
                          /\ again[u][c] \in Nat /\ again'[u][c] \in Nat
                          /\ Totals[c] = Total(c) /\ Totals[c] <= Totals'[c]
                          /\ HasRead(conversations[u], c) + Read(answer[u], c) <= Totals[c] + again[u][c]
  BY ReadFacts
<1>1. /\ StepReads(u, conversations[u], answer[u], again[u], Totals, run[p])
      /\ run[p].at \in {"getLoad", "getCount", "putLoad", "putSave", "putAnswer"}
  BY <1>0 DEF UserReads, GetLoad, GetCount, PutLoad, PutSave, PutRetry
<1>2. \A q \in Procs \ {p} : ~(/\ run'[q].at \in {"getLoad", "getCount", "putLoad", "putSave", "putAnswer"}
                              /\ run'[q].user = u)
  BY <1>1 DEF ReadInv, Waits
<1>3. \A c \in Convs : NoList \in Lists /\ Read(NoList, c) = 0
  <2>1. NoList \in Lists
    BY DEF NoList, Lists
  <2> QED
    BY <2>1, ListReads
<1>4. SUFFICES /\ LaterUnread(conversations'[u])
               /\ \A c \in Convs : HasRead(conversations'[u], c) + Read(answer'[u], c) <= Totals'[c] + again'[u][c]
               /\ StepReads(u, conversations'[u], answer'[u], again'[u], Totals', run'[p])
  BY <1>2, ReadsMove
<1>5. CASE GetLoad(p)
  <2>1. CASE conversations[u] = <<>>
    <3>1. /\ conversations' = conversations /\ again' = again /\ answer'[u] = NoList
          /\ run'[p] = Idle
      BY <1>5, <2>1 DEF GetLoad, Return, Goto, TypeOK, store, history
    <3>2. \A c \in Convs : HasRead(conversations[u], c) + 0 <= Totals'[c] + again[u][c]
      BY <1>0
    <3> QED
      BY <1>0, <1>3, <3>1, <3>2 DEF StepReads, Idle
  <2>2. CASE conversations[u] # <<>>
    <3>1. /\ conversations' = conversations /\ again' = again /\ answer' = answer
          /\ run'[p] = [at |-> "getCount", user |-> u, list |-> conversations[u][1]]
      BY <1>5, <2>2 DEF GetLoad, Goto, TypeOK, store, history
    <3>2. \A c \in Convs : HasRead(conversations[u], c) = Read(conversations[u][1], c)
      BY <1>0, <2>2, HasReadIsNat
    <3>3. StepReads(u, conversations'[u], answer'[u], again'[u], Totals', run'[p])
      BY <1>0, <3>1, <3>2 DEF StepReads
    <3> QED
      BY <1>0, <3>1, <3>3
  <2> QED
    BY <2>1, <2>2
<1>6. CASE GetCount(p)
  <2>1. run[p].list \in Lists /\ run[p].at = "getCount"
    BY <1>6, AtTells DEF GetCount, TypeOK, GetCountSteps
  <2>2. /\ conversations' = conversations /\ again' = again
        /\ answer'[u] = ToRead(run[p].list) /\ run'[p] = Idle
    BY <1>6 DEF GetCount, Return, Goto, TypeOK, store, history
  <2>3. ASSUME NEW c \in Convs
        PROVE  HasRead(conversations[u], c) + Read(ToRead(run[p].list), c) <= Totals'[c] + again[u][c]
    <3>1. HasRead(conversations[u], c) <= Read(run[p].list, c) + again[u][c]
      BY <1>1, <2>1, <1>6 DEF StepReads
    <3>2. \/ Read(ToRead(run[p].list), c) = 0
          \/ Read(ToRead(run[p].list), c) + Read(run[p].list, c) = Total(c)
      BY <2>1, ToReads
    <3>3. Read(ToRead(run[p].list), c) \in Nat /\ Read(run[p].list, c) \in Nat
      BY <2>1, ToReads, ListReads
    <3> QED
      BY <1>0, <3>1, <3>2, <3>3
  <2> QED
    BY <1>0, <2>2, <2>3 DEF StepReads, Idle
<1>7. CASE PutLoad(p)
  <2>1. run[p].at = "putLoad" /\ conversations' = conversations /\ again' = again /\ answer' = answer
    BY <1>7 DEF PutLoad, store, history
  <2>2. run'[p] = Idle \/ (run'[p].at = "putSave" /\ run'[p].reads = run[p].reads)
    BY <1>7 DEF PutLoad, Return, Goto, TypeOK
  <2>3. answer[u] = NoList
    BY <1>1, <2>1 DEF StepReads
  <2>4. ASSUME run'[p].at = "putSave", NEW c \in Convs
        PROVE  HasRead(conversations[u], c) + Read(run[p].reads, c) <= Totals'[c] + again[u][c]
    <3>1. run[p].reads \in Lists
      BY <2>1, AtTells DEF TypeOK, PutSteps
    <3>2. Read(run[p].reads, c) \in Nat
      BY <3>1, ListReads
    <3>3. HasRead(conversations[u], c) + Read(run[p].reads, c) <= Totals[c] + again[u][c]
      BY <1>1, <2>1 DEF StepReads
    <3> QED
      BY <1>0, <3>2, <3>3
  <2>5. \A c \in Convs : HasRead(conversations[u], c) + Read(answer[u], c) <= Totals'[c] + again[u][c]
    BY <1>0
  <2> QED
    BY <1>0, <2>1, <2>2, <2>3, <2>4, <2>5 DEF StepReads, Idle
<1>8. CASE PutRetry(p)
  <2>1. conversations' = conversations /\ answer' = answer
    BY <1>8 DEF PutRetry, store
  <2>2. run[p].at \in {"putLoad", "putSave", "putAnswer"}
    BY <1>8 DEF PutRetry
  <2>3. run'[p].at = "putLoad" /\ run'[p].reads = run[p].reads
    BY <1>8 DEF PutRetry, Goto, TypeOK
  <2>4. answer[u] = NoList
    BY <1>1, <2>2 DEF StepReads
  <2>5. ASSUME NEW c \in Convs
        PROVE  /\ HasRead(conversations[u], c) + Read(run[p].reads, c) <= Totals'[c] + again'[u][c]
               /\ HasRead(conversations[u], c) + Read(answer[u], c) <= Totals'[c] + again'[u][c]
    <3>1. run[p].reads \in Lists
      BY <2>2, AtTells DEF TypeOK, PutSteps, PutSaveSteps
    <3>2. Read(run[p].reads, c) \in Nat
      BY <3>1, ListReads
    <3>3. CASE run[p].at # "putAnswer"
      <4>1. again' = again
        BY <1>8, <3>3 DEF PutRetry
      <4>2. HasRead(conversations[u], c) + Read(run[p].reads, c) <= Totals[c] + again[u][c]
        BY <1>1, <2>2, <3>3 DEF StepReads
      <4> QED
        BY <1>0, <3>2, <4>1, <4>2
    <3>4. CASE run[p].at = "putAnswer"
      <4>1. Twice(u, [d \in Convs |-> Read(run[p].reads, d)])
        BY <1>8, <3>4 DEF PutRetry
      <4>2. [d \in Convs |-> Read(run[p].reads, d)] \in [Convs -> Nat]
        BY <3>1, ListReads
      <4>3. again'[u][c] = again[u][c] + Read(run[p].reads, c)
        BY <4>1, <4>2, NowTwice
      <4> DEFINE has == HasRead(conversations[u], c)
                 told == Read(answer[u], c)
                 reads == Read(run[p].reads, c)
                 more == again[u][c]
                 more2 == again'[u][c]
      <4>4. /\ has \in Nat /\ told \in Nat /\ reads \in Nat /\ more \in Nat
            /\ Totals[c] \in Nat /\ Totals'[c] \in Nat /\ Totals[c] <= Totals'[c]
            /\ has + told <= Totals[c] + more /\ told = 0 /\ more2 = more + reads
        BY <1>0, <1>3, <2>4, <3>2, <4>3
      <4>5. SUFFICES has + reads <= Totals'[c] + more2 /\ has + told <= Totals'[c] + more2
        OBVIOUS
      <4> HIDE DEF has, told, reads, more, more2
      <4> QED
        BY <4>4
    <3> QED
      BY <3>3, <3>4
  <2> QED
    BY <1>0, <2>1, <2>3, <2>4, <2>5 DEF StepReads
<1>9. CASE PutSave(p)
  <2> DEFINE list == run[p].list
             list2 == AddReads(run[p].list, run[p].reads)
  <2>1. /\ run[p] \in PutSaveSteps /\ list2 \in Lists
        /\ Save(u, list, FALSE, list2)
    BY <1>9, PutSaves
  <2>2. list \in Lists /\ run[p].reads \in Lists /\ run[p].at = "putSave"
    BY <2>1 DEF PutSaveSteps
  <2>3. answer' = answer /\ answer[u] = NoList
    BY <1>1, <1>9, <2>2 DEF StepReads, PutSave
  <2>4. run'[p].at = "putAnswer"
    BY <1>9 DEF PutSave, Goto, TypeOK
  <2>5. ASSUME NEW c \in Convs
        PROVE  /\ Read(list2, c) = Read(run[p].reads, c) + Read(list, c)
               /\ Read(run[p].reads, c) \in Nat /\ Read(list, c) \in Nat
               /\ HasRead(conversations[u], c) + Read(run[p].reads, c) <= Totals[c] + again[u][c]
    BY <1>1, <2>2, ListReads DEF StepReads
  <2> HIDE DEF list, list2
  <2>6. /\ LaterUnread(conversations'[u])
        /\ \A c \in Convs : /\ Read(list, c) + again[u][c] <= HasRead(conversations[u], c) + again'[u][c]
                            /\ again[u][c] <= again'[u][c]
                            /\ \/ HasRead(conversations'[u], c) = HasRead(conversations[u], c)
                               \/ HasRead(conversations'[u], c) = Read(list2, c)
    BY <1>0, <2>1, <2>2, SaveReads
  <2>7. ASSUME NEW c \in Convs PROVE HasRead(conversations'[u], c) + 0 <= Totals'[c] + again'[u][c]
    <3> DEFINE has == HasRead(conversations[u], c)
               has2 == HasRead(conversations'[u], c)
               old == Read(list, c)
               reads == Read(run[p].reads, c)
               more == again[u][c]
               more2 == again'[u][c]
    <3>1. /\ has \in Nat /\ old \in Nat /\ reads \in Nat /\ more \in Nat /\ more2 \in Nat
          /\ Totals[c] \in Nat /\ Totals'[c] \in Nat /\ Totals[c] <= Totals'[c]
          /\ has + reads <= Totals[c] + more
      BY <1>0, <2>5
    <3>2. /\ old + more <= has + more2 /\ more <= more2
          /\ has2 = has \/ has2 = reads + old
      BY <2>5, <2>6
    <3>3. SUFFICES has2 + 0 <= Totals'[c] + more2
      OBVIOUS
    <3> HIDE DEF has, has2, old, reads, more, more2
    <3> QED
      BY <3>1, <3>2
  <2> QED
    BY <1>3, <2>3, <2>4, <2>6, <2>7 DEF StepReads
<1> QED
  BY <1>5, <1>6, <1>7, <1>8, <1>9

(* A client reports what it was told of, and forgets what it was told.      *)
LEMMA ReadsReported ==
  ASSUME TypeOK, TypeOK', ReadInv, [Next]_vars, NEW u \in Users,
         NEW p \in Procs, \A q \in Procs \ {p} : run'[q] = run[q],
         NEW d \in Convs, NEW n \in 0..MaxLogs, Put(p, u, d, n)
  PROVE  UserReads(u, conversations'[u], answer'[u], again'[u], Totals', run')
<1>0. /\ UserReads(u, conversations[u], answer[u], again[u], Totals, run)
      /\ conversations[u] \in Seq(Lists) /\ answer[u] \in Lists
      /\ LaterUnread(conversations[u])
      /\ \A c \in Convs : /\ HasRead(conversations[u], c) \in Nat /\ Read(answer[u], c) \in Nat
                          /\ Totals[c] \in Nat /\ Totals'[c] \in Nat /\ again[u][c] \in Nat
                          /\ Totals[c] <= Totals'[c]
                          /\ HasRead(conversations[u], c) + Read(answer[u], c) <= Totals[c] + again[u][c]
  BY ReadFacts
<1>1. \A q \in Procs \ {p} : ~(/\ run'[q].at \in {"getLoad", "getCount", "putLoad", "putSave", "putAnswer"}
                              /\ run'[q].user = u)
  BY DEF Put, Waiting
<1>2. /\ conversations' = conversations /\ again' = again /\ answer'[u] = NoList
      /\ run'[p] = [at |-> "putLoad", user |-> u, reads |-> [NoList EXCEPT ![d] = n], tries |-> 1]
  BY DEF Put, Start, store, history, TypeOK
<1>3. (n \in Nat /\ n <= Read(answer[u], d)) \/ n = 0
  BY <1>0, BoundsAssumption DEF Put, Read, Lists, Unlisted
<1>4. ASSUME NEW c \in Convs
      PROVE  /\ Read(NoList, c) = 0
             /\ Read([NoList EXCEPT ![d] = n], c) <= Read(answer[u], c)
             /\ Read([NoList EXCEPT ![d] = n], c) \in Nat
  BY <1>0, <1>3 DEF Read, NoList, Unlisted
<1>5. ASSUME NEW c \in Convs
      PROVE  HasRead(conversations[u], c) + Read([NoList EXCEPT ![d] = n], c) <= Totals'[c] + again[u][c]
  <2> DEFINE old == HasRead(conversations[u], c)
             told == Read(answer[u], c)
             reported == Read([NoList EXCEPT ![d] = n], c)
             more == again[u][c]
  <2>1. old \in Nat /\ told \in Nat /\ more \in Nat /\ Totals[c] \in Nat /\ Totals'[c] \in Nat
    BY <1>0
  <2>2. Totals[c] <= Totals'[c] /\ old + told <= Totals[c] + more
    BY <1>0
  <2>3. reported <= told /\ reported \in Nat
    BY <1>4
  <2> HIDE DEF old, told, reported, more
  <2>4. old + reported <= Totals'[c] + more
    BY <2>1, <2>2, <2>3
  <2> QED
    BY <2>4 DEF old, reported, more
<1>6. \A c \in Convs : HasRead(conversations[u], c) + Read(NoList, c) <= Totals'[c] + again[u][c]
  BY <1>0, <1>4
<1>7. StepReads(u, conversations'[u], answer'[u], again'[u], Totals', run'[p])
  <2>1. run'[p].at = "putLoad" /\ run'[p].reads = [NoList EXCEPT ![d] = n]
    BY <1>2
  <2> QED
    BY <1>2, <1>5, <2>1 DEF StepReads
<1> QED
  BY <1>0, <1>1, <1>2, <1>6, <1>7, ReadsMove

(* Who waits for an answer was waiting, or nobody did for his user.         *)
LEMMA WaitsOn ==
  ASSUME TypeOK, [Next]_vars, NEW p \in Procs, NEW u \in Users, Waits(p, u)'
  PROVE  Waits(p, u) \/ ~Waiting(u)
<1>1. CASE run'[p] = run[p]
  BY <1>1 DEF Waits
<1>2. CASE Call(p)
  <2>1. ASSUME NEW v \in Users, Get(p, v) \/ \E c \in Convs, n \in 0..MaxLogs : Put(p, v, c, n)
        PROVE  ~Waiting(u)
    <3>1. run'[p].user = v /\ ~Waiting(v)
      BY <2>1 DEF Get, Put, Start, TypeOK
    <3> QED
      BY <3>1 DEF Waits
  <2>2. ASSUME \/ \E v, w \in Users : SetUp(p, v, w)
               \/ \E g \in Groups : CreateGroup(p, g)
               \/ \E c \in Convs : Consume(p, c)
        PROVE  FALSE
    BY <2>2 DEF SetUp, CreateGroup, Consume, Start, Waits, TypeOK
  <2> QED
    BY <1>2, <2>1, <2>2 DEF Call
<1>3. CASE GetLoad(p) \/ PutLoad(p) \/ PutSave(p) \/ PutRetry(p)
  <2>1. run'[p].user = u
    BY DEF Waits
  <2>2. run'[p].user = run[p].user \/ run'[p] = Idle
    <3>1. CASE GetLoad(p)
      BY <3>1 DEF GetLoad, Return, Goto, TypeOK
    <3>2. CASE PutLoad(p)
      BY <3>2 DEF PutLoad, Return, Goto, TypeOK
    <3>3. CASE PutSave(p)
      BY <3>3 DEF PutSave, Goto, TypeOK
    <3>4. CASE PutRetry(p)
      BY <3>4 DEF PutRetry, Goto, TypeOK
    <3> QED
      BY <1>3, <3>1, <3>2, <3>3, <3>4
  <2>3. run'[p] # Idle
    BY DEF Waits, Idle
  <2>4. run[p].at \in {"getLoad", "putLoad", "putSave", "putAnswer"}
    BY <1>3 DEF GetLoad, PutLoad, PutSave, PutRetry
  <2> QED
    BY <2>1, <2>2, <2>3, <2>4 DEF Waits
<1>4. ASSUME \/ GetCount(p) \/ PutAnswer(p) \/ UpdateMsg(p) \/ Fail(p) PROVE FALSE
  BY <1>4 DEF GetCount, PutAnswer, UpdateMsg, Fail, Return, Goto, Idle, Waits, TypeOK
<1>5. ASSUME FindConversation(p) \/ InsertConversation(p) PROVE FALSE
  <2>1. run[p] \in FindSteps
    BY <1>5, AtTells DEF FindConversation, InsertConversation, TypeOK
  <2> QED
    BY <1>5, <2>1 DEF FindConversation, InsertConversation, GoOn, Return, Goto, Idle, Waits,
                      TypeOK, FindSteps
<1>6. ASSUME LoadList(p) \/ SaveList(p) PROVE FALSE
  BY <1>6 DEF LoadList, SaveList, GoOn, Return, Goto, Idle, Waits, TypeOK
<1>7. ASSUME StoreLog(p) PROVE FALSE
  BY <1>7 DEF StoreLog, Goto, Waits, TypeOK
<1> QED
  BY <1>1, <1>2, <1>3, <1>4, <1>5, <1>6, <1>7, StaysOrMoves DEF Step

(* ReadsStayWithinTotal: whatever fails, races or is sent again, a user has *)
(* read no more messages of a conversation than it counts and than were     *)
(* counted twice, by a report whose answer was lost after the save, or by a *)
(* stale copy that brought back what another had undone.                    *)
THEOREM ReadsStayWithinTotal == Spec => []ReadWithinTotal
<1>1. Init => ReadInv
  <2> SUFFICES ASSUME Init PROVE ReadInv
    OBVIOUS
  <2>1. \A c \in Convs : Read(NoList, c) = 0 /\ Total(c) = 0
    BY DEF Init, Total, Read, NoList
  <2>2. ASSUME NEW u \in Users PROVE UserReads(u, conversations[u], answer[u], again[u], Totals, run)
    BY <2>1 DEF Init, UserReads, LaterUnread, StepReads, HasRead, First, Totals, Idle
  <2> QED
    BY <2>2 DEF Init, ReadInv, Waits, Idle
<1>2. TypeOK /\ TypeOK' /\ ReadInv /\ [Next]_vars => ReadInv'
  <2> SUFFICES ASSUME TypeOK, TypeOK', ReadInv, [Next]_vars PROVE ReadInv'
    OBVIOUS
  <2>1. ASSUME NEW p \in Procs, NEW q \in Procs, NEW u \in Users, Waits(p, u)', Waits(q, u)', p # q
        PROVE  FALSE
    <3>1. run'[p] = run[p] \/ run'[q] = run[q]
      BY <2>1, OneMoves DEF Next, vars
    <3>2. (Waits(p, u) \/ ~Waiting(u)) /\ (Waits(q, u) \/ ~Waiting(u))
      BY <2>1, WaitsOn
    <3>3. CASE run'[p] = run[p]
      <4>1. Waits(p, u) /\ Waiting(u)
        BY <2>1, <3>3 DEF Waits, Waiting
      <4> QED
        BY <2>1, <3>2, <4>1 DEF ReadInv
    <3>4. CASE run'[q] = run[q]
      <4>1. Waits(q, u) /\ Waiting(u)
        BY <2>1, <3>4 DEF Waits, Waiting
      <4> QED
        BY <2>1, <3>2, <4>1 DEF ReadInv
    <3> QED
      BY <3>1, <3>3, <3>4
  <2>2. ASSUME NEW p \in Procs, run'[p].at = "save", run'[p].new = TRUE
        PROVE  run'[p].list = NoList
    <3>1. CASE run'[p] = run[p]
      BY <2>2, <3>1 DEF ReadInv
    <3>2. CASE LoadList(p)
      <4> DEFINE docs == conversations[Head(run[p].todo)]
      <4>1. CASE docs # <<>> /\ run[p].conv \in Listed(docs[1])
        BY <2>2, <3>2, <4>1 DEF LoadList, GoOn, Goto, Return, Idle, TypeOK
      <4>2. CASE ~(docs # <<>> /\ run[p].conv \in Listed(docs[1]))
        <5>1. PICK r : r = run'[p]
          OBVIOUS
        <5>2. r = [at |-> "save", conv |-> run[p].conv, todo |-> run[p].todo,
                   list |-> First(docs), new |-> docs = <<>>]
          BY <3>2, <4>2, <5>1 DEF LoadList, Goto, TypeOK
        <5>3. (r.new <=> docs = <<>>) /\ (docs = <<>> => r.list = NoList)
          BY <5>2 DEF First
        <5> QED
          BY <2>2, <5>1, <5>3
      <4> QED
        BY <4>1, <4>2
    <3>3. ASSUME Call(p) PROVE FALSE
      BY <2>2, <3>3 DEF Call, SetUp, CreateGroup, Get, Put, Consume, Start, TypeOK
    <3>4. ASSUME FindConversation(p) PROVE FALSE
      BY <2>2, <3>4, AtTells DEF FindConversation, FindSteps, Goto, Return, Idle, TypeOK
    <3>5. ASSUME InsertConversation(p) \/ SaveList(p) PROVE FALSE
      BY <2>2, <3>5 DEF InsertConversation, SaveList, GoOn, Goto, Return, Idle, TypeOK
    <3>6. ASSUME \/ GetLoad(p) \/ GetCount(p) \/ PutLoad(p) \/ PutSave(p) \/ PutAnswer(p)
                 \/ StoreLog(p) \/ UpdateMsg(p) \/ PutRetry(p) \/ Fail(p)
          PROVE  FALSE
      BY <2>2, <3>6, OthersSetUpNothing
    <3> QED
      BY <3>1, <3>2, <3>3, <3>4, <3>5, <3>6, StaysOrMoves DEF Step
  <2>3. ASSUME NEW u \in Users
        PROVE  UserReads(u, conversations'[u], answer'[u], again'[u], Totals', run')
    <3>1. CASE UNCHANGED vars
      <4>1. Totals' = Totals
        BY <3>1 DEF vars, Totals, Total
      <4> QED
        BY <2>3, <3>1, <4>1, ReadFacts DEF vars
    <3>2. ASSUME NEW p \in Procs, Call(p) \/ Step(p) \/ PutRetry(p) \/ Fail(p)
          PROVE  UserReads(u, conversations'[u], answer'[u], again'[u], Totals', run')
      <4>0. \A q \in Procs \ {p} : run'[q] = run[q]
        BY <3>2, OneMoves
      <4>1. CASE GetLoad(p) \/ GetCount(p) \/ PutLoad(p) \/ PutSave(p) \/ PutRetry(p)
        <5>1. CASE run[p].user = u
          BY <2>3, <4>0, <4>1, <5>1, ReadsForHim
        <5>2. CASE run[p].user # u
          <6>1. answer'[u] = answer[u] /\ conversations'[u] = conversations[u] /\ again'[u] = again[u]
            BY <4>1, <5>2 DEF GetLoad, GetCount, PutLoad, PutSave, PutRetry, Save, Twice, store, history, TypeOK
          <6>2. run'[p] = Idle \/ run'[p].user = run[p].user
            <7>1. CASE GetLoad(p) \/ GetCount(p)
              BY <7>1 DEF GetLoad, GetCount, Return, Goto, TypeOK
            <7>2. CASE PutLoad(p)
              BY <7>2 DEF PutLoad, Return, Goto, TypeOK
            <7>3. CASE PutSave(p)
              BY <7>3 DEF PutSave, Goto, TypeOK
            <7>4. CASE PutRetry(p)
              BY <7>4 DEF PutRetry, Goto, TypeOK
            <7> QED
              BY <4>1, <7>1, <7>2, <7>3, <7>4
          <6>3. \/ run'[p].at \notin {"getCount", "putLoad", "putSave", "putAnswer"}
                \/ run'[p].user # u
            BY <5>2, <6>2 DEF Idle
          <6> QED
            BY <2>3, <4>0, <6>1, <6>3, ReadsElsewhere
        <5> QED
          BY <5>1, <5>2
      <4>2. ASSUME NEW v \in Users, NEW c \in Convs, NEW n \in 0..MaxLogs, Put(p, v, c, n)
            PROVE  UserReads(u, conversations'[u], answer'[u], again'[u], Totals', run')
        <5>1. CASE v = u
          BY <2>3, <4>0, <4>2, <5>1, ReadsReported
        <5>2. CASE v # u
          <6>1. /\ answer'[u] = answer[u] /\ conversations'[u] = conversations[u] /\ again'[u] = again[u]
                /\ run'[p].user = v
            BY <4>2, <5>2 DEF Put, Start, store, history, TypeOK
          <6> QED
            BY <2>3, <4>0, <5>2, <6>1, ReadsElsewhere
        <5> QED
          BY <5>1, <5>2
      <4>3. CASE SaveList(p)
        <5>1. answer'[u] = answer[u] /\ run'[p].at \in {"idle", "load"}
          BY <4>3 DEF SaveList, GoOn, Return, Goto, Idle, TypeOK
        <5> QED
          BY <2>3, <4>0, <4>3, <5>1, ReadsElsewhere
      <4>4. CASE \/ \E v, w \in Users : SetUp(p, v, w)
                 \/ \E g \in Groups : CreateGroup(p, g)
                 \/ \E v \in Users : Get(p, v)
                 \/ \E c \in Convs : Consume(p, c)
        <5>1. /\ answer'[u] = answer[u] /\ conversations'[u] = conversations[u] /\ again'[u] = again[u]
              /\ run'[p].at \in {"find", "getLoad", "log"}
          BY <4>4 DEF SetUp, CreateGroup, Get, Consume, Start, store, history, TypeOK
        <5> QED
          BY <2>3, <4>0, <5>1, ReadsElsewhere
      <4>5. CASE FindConversation(p) \/ InsertConversation(p)
        <5>1. run[p] \in FindSteps
          BY <4>5, AtTells DEF FindConversation, InsertConversation, TypeOK
        <5>2. /\ answer'[u] = answer[u] /\ conversations'[u] = conversations[u] /\ again'[u] = again[u]
              /\ run'[p].at \in {"idle", "insert", "load"}
          BY <4>5, <5>1 DEF FindConversation, InsertConversation, GoOn, Return, Goto, Idle, store, history,
                            TypeOK, FindSteps
        <5> QED
          BY <2>3, <4>0, <5>2, ReadsElsewhere
      <4>6. CASE LoadList(p)
        <5>1. /\ answer'[u] = answer[u] /\ conversations'[u] = conversations[u] /\ again'[u] = again[u]
              /\ run'[p].at \in {"idle", "save", "load"}
          BY <4>6 DEF LoadList, GoOn, Return, Goto, Idle, store, history, TypeOK
        <5> QED
          BY <2>3, <4>0, <5>1, ReadsElsewhere
      <4>7. CASE PutAnswer(p) \/ StoreLog(p) \/ UpdateMsg(p) \/ Fail(p)
        <5>1. /\ answer'[u] = answer[u] /\ conversations'[u] = conversations[u] /\ again'[u] = again[u]
              /\ run'[p].at \in {"idle", "count"}
          BY <4>7 DEF PutAnswer, StoreLog, UpdateMsg, Fail, Return, Goto, Idle, store, history, TypeOK
        <5> QED
          BY <2>3, <4>0, <5>1, ReadsElsewhere
      <4> QED
        BY <3>2, <4>1, <4>2, <4>3, <4>4, <4>5, <4>6, <4>7 DEF Call, Step
    <3> QED
      BY <3>1, <3>2 DEF Next
  <2>4. \A p, q \in Procs, u \in Users : Waits(p, u)' /\ Waits(q, u)' => p = q
    BY <2>1
  <2>5. \A p \in Procs : run'[p].at = "save" /\ run'[p].new = TRUE => run'[p].list = NoList
    BY <2>2
  <2>6. \A u \in Users : UserReads(u, conversations'[u], answer'[u], again'[u], Totals', run')
    BY <2>3
  <2> QED
    BY <2>4, <2>5, <2>6 DEF ReadInv, UserReads, LaterUnread, StepReads, HasRead, First, Read
<1>3. TypeOK /\ ReadInv => ReadWithinTotal
  <2> SUFFICES ASSUME TypeOK, ReadInv, NEW u \in Users, NEW i \in DOMAIN conversations[u], NEW c \in Convs
               PROVE  conversations[u][i][c] <= Total(c) + again[u][c]
    BY DEF ReadWithinTotal
  <2> DEFINE docs == conversations[u]
  <2>1. docs \in Seq(Lists) /\ docs[i] \in Lists /\ answer[u] \in Lists
        /\ Total(c) \in Nat /\ again[u][c] \in Nat
    BY TotalIsNat DEF TypeOK
  <2>2. LaterUnread(docs) /\ HasRead(docs, c) + Read(answer[u], c) <= Total(c) + again[u][c]
    BY DEF ReadInv, UserReads, Totals
  <2>3. docs[i][c] \in Int
    BY <2>1 DEF Lists, Unlisted
  <2>4. CASE i = 1
    <3>1. docs # <<>> /\ HasRead(docs, c) = Read(docs[i], c)
      BY <2>1, <2>4, HasReadIsNat
    <3>2. docs[i][c] <= Read(docs[i], c) /\ Read(docs[i], c) \in Nat /\ Read(answer[u], c) \in Nat
      BY <2>1, ListReads
    <3> QED
      BY <2>1, <2>2, <2>3, <3>1, <3>2
  <2>5. CASE i # 1
    <3>1. docs[i][c] <= 0
      BY <2>2, <2>5 DEF LaterUnread
    <3> QED
      BY <2>1, <2>3, <3>1
  <2> QED
    BY <2>4, <2>5
<1> QED
  BY <1>1, <1>2, <1>3, TypeCorrect, PTL DEF Spec

-----------------------------------------------------------------------------
(***************************************************************************)
(* ReadRecords, for any readers, messages, hash and goroutines.            *)
(***************************************************************************)

Bits == {R!Place(u) : u \in Readers} \cup {0}
Reads == Readers \X R!Logs
Copies == R!Logs \X SUBSET Bits
Marks == [id : Nat, reader : Readers, logs : SUBSET R!Logs]
Hands == [pc : {"idle", "update"}, mark : Marks \cup {R!NoMark}, loaded : SUBSET Copies,
          todo : SUBSET R!Logs, res : SUBSET Copies, since : SUBSET Reads]

(* The ones of a bitmap are places of those who said to have read, or the   *)
(* byte of a single chat.                                                   *)
Claims(l, bits, said) ==
  \A b \in bits : \E v \in Readers : <<v, l>> \in said /\ b = IF l \in GroupLogs THEN R!Place(v) ELSE 0
MarkOK(m, said) == m \in Marks /\ \A l \in m.logs : <<m.reader, l>> \in said

(* A goroutine has a copy of each message of its mark, and, of those it is  *)
(* done with, the copy with the reader's bit; all they say was claimed.     *)
HandOK(x, said) == x.pc = "update" =>
  /\ MarkOK(x.mark, said) /\ x.todo \subseteq x.mark.logs
  /\ \A l \in x.mark.logs : \E d \in x.loaded : d[1] = l
  /\ \A l \in x.mark.logs \ x.todo : \E d \in x.res : d[1] = l
  /\ \A d \in x.loaded \cup x.res : Claims(d[1], d[2], said)
  /\ \A d \in x.res : d[1] \in x.mark.logs /\ R!Shows(d[2], <<x.mark.reader, d[1]>>)

(* Its copies show every stored read, but for what was stored since it      *)
(* loaded them.                                                             *)
Keeps(x, reads) == x.pc = "update" =>
  \A e \in reads :
    \/ e \in x.since
    \/ /\ e[2] \in x.todo => \A d \in x.loaded : d[1] = e[2] => R!Shows(d[2], e)
       /\ \A d \in x.res : d[1] = e[2] => R!Shows(d[2], e)

MarkTypes ==
  /\ records \in [R!Logs -> SUBSET Bits] /\ shown \in [R!Logs -> SUBSET Bits]
  /\ sent \in Nat /\ consumer \in [Procs -> Hands]
  /\ stored \subseteq Reads /\ handed \subseteq stored
ClaimInv ==
  /\ \A m \in marks \cup marksTaken : MarkOK(m, claimed)
  /\ \A l \in R!Logs : Claims(l, records[l], claimed) /\ Claims(l, shown[l], claimed)
  /\ \A p \in Procs : HandOK(consumer[p], claimed)
ShowInv ==
  /\ \A e \in stored \ overtaken : R!Shows(records[e[2]], e)
  /\ \A e \in handed \ (overtaken \cup hidden) : R!Shows(shown[e[2]], e)
  /\ \A p \in Procs : Keeps(consumer[p], stored \ overtaken)
RecordInv == MarkTypes /\ ClaimInv /\ ShowInv

LEMMA NothingInHand ==
  /\ R!Idle \in Hands /\ R!Idle.pc = "idle"
  /\ \A said : HandOK(R!Idle, said) /\ Keeps(R!Idle, said)
BY DEF R!Idle, R!NoMark, Hands, HandOK, Keeps

(* What is claimed stays claimed.                                           *)
LEMMA MoreClaims ==
  ASSUME NEW said, NEW said2, said \subseteq said2
  PROVE  /\ \A l, bits : Claims(l, bits, said) => Claims(l, bits, said2)
         /\ \A m : MarkOK(m, said) => MarkOK(m, said2)
         /\ \A x : HandOK(x, said) => HandOK(x, said2)
<1>1. \A l, bits : Claims(l, bits, said) => Claims(l, bits, said2)
  BY DEF Claims
<1>2. \A m : MarkOK(m, said) => MarkOK(m, said2)
  BY DEF MarkOK
<1> QED
  BY <1>1, <1>2 DEF HandOK

(* MarkRead: a mark, and what it claims.                                    *)
LEMMA MarkReadStep ==
  ASSUME RecordInv, NEW u \in Readers, NEW L \in SUBSET R!Logs, R!MarkRead(u, L)
  PROVE  RecordInv'
<1> DEFINE m == [id |-> sent + 1, reader |-> u, logs |-> L]
<1>1. /\ m \in Marks /\ m.reader = u /\ m.logs = L
      /\ marks' = marks \cup {m} /\ sent' = sent + 1
      /\ claimed' = claimed \cup {<<u, l>> : l \in L}
      /\ UNCHANGED <<records, marksTaken, consumer, shown, stored, overtaken, handed, hidden>>
  BY DEF R!MarkRead, RecordInv, MarkTypes, Marks
<1> HIDE DEF m
<1>2. MarkTypes'
  BY <1>1 DEF RecordInv, MarkTypes
<1>3. claimed \subseteq claimed' /\ MarkOK(m, claimed')
  BY <1>1 DEF MarkOK
<1>4. ClaimInv'
  BY <1>1, <1>3, MoreClaims DEF RecordInv, ClaimInv
<1>5. ShowInv'
  BY <1>1 DEF RecordInv, ShowInv
<1> QED
  BY <1>2, <1>4, <1>5 DEF RecordInv

(* A goroutine whose record changes, and nothing it could show.             *)
LEMMA HandStep ==
  ASSUME RecordInv, NEW p \in Procs, NEW x \in Hands, consumer' = [consumer EXCEPT ![p] = x],
         HandOK(x, claimed), Keeps(x, stored \ overtaken),
         UNCHANGED <<records, sent, shown, claimed, stored, overtaken, handed, hidden>>,
         marks' \cup marksTaken' \subseteq marks \cup marksTaken
  PROVE  RecordInv'
<1>1. consumer'[p] = x /\ \A q \in Procs : q # p => consumer'[q] = consumer[q]
  BY DEF RecordInv, MarkTypes
<1>2. MarkTypes'
  BY DEF RecordInv, MarkTypes
<1>3. ClaimInv'
  BY <1>1 DEF RecordInv, ClaimInv
<1>4. ShowInv'
  BY <1>1 DEF RecordInv, ShowInv
<1> QED
  BY <1>2, <1>3, <1>4 DEF RecordInv

(* ListByMsgIds: the copies are what is stored.                             *)
LEMMA TakeStep ==
  ASSUME RecordInv, NEW p \in Procs, NEW m \in marks, R!ListByMsgIds(p, m)
  PROVE  RecordInv'
<1> DEFINE x == [pc |-> "update", mark |-> m, loaded |-> {<<l, R!Load(records[l])>> : l \in m.logs},
                 todo |-> m.logs, res |-> {}, since |-> {}]
<1>1. /\ marks' = marks \ {m} /\ marksTaken' = marksTaken \cup {m}
      /\ consumer' = [consumer EXCEPT ![p] = x] \/ UNCHANGED consumer
      /\ UNCHANGED <<records, sent, shown, claimed, stored, overtaken, handed, hidden>>
  BY DEF R!ListByMsgIds
<1>2. MarkOK(m, claimed) /\ m \in Marks /\ m.logs \subseteq R!Logs
  BY DEF RecordInv, ClaimInv, MarkOK, Marks
<1>3. /\ x.pc = "update" /\ x.mark = m /\ x.todo = m.logs /\ x.res = {} /\ x.since = {}
      /\ x.loaded = {<<l, records[l]>> : l \in m.logs}
  BY DEF R!Load
<1>4. x.loaded \subseteq Copies
  BY <1>2, <1>3 DEF Copies, RecordInv, MarkTypes
<1>5. x \in Hands
  BY <1>2, <1>4 DEF Hands, Marks
<1> HIDE DEF x
<1>6. HandOK(x, claimed)
  <2>1. \A d \in x.loaded : d[1] \in R!Logs /\ d[2] = records[d[1]]
    BY <1>2, <1>3
  <2>2. \A d \in x.loaded \cup x.res : Claims(d[1], d[2], claimed)
    BY <1>3, <2>1 DEF RecordInv, ClaimInv
  <2>3. \A l \in x.mark.logs : \E d \in x.loaded : d[1] = l
    <3> SUFFICES ASSUME NEW l \in m.logs PROVE \E d \in x.loaded : d[1] = l
      BY <1>3
    <3>1. <<l, records[l]>> \in x.loaded /\ <<l, records[l]>>[1] = l
      BY <1>3
    <3> QED
      BY <3>1
  <2> QED
    BY <1>2, <1>3, <2>2, <2>3 DEF HandOK
<1>7. Keeps(x, stored \ overtaken)
  BY <1>2, <1>3 DEF Keeps, RecordInv, ShowInv
<1>8. CASE UNCHANGED consumer
  BY <1>1, <1>2, <1>8 DEF RecordInv, MarkTypes, ClaimInv, ShowInv
<1>9. CASE consumer' = [consumer EXCEPT ![p] = x]
  BY <1>1, <1>5, <1>6, <1>7, <1>9, HandStep
<1> QED
  BY <1>1, <1>8, <1>9

(* A bit set in a copy leaves the others.                                   *)
LEMMA MarkedShows ==
  ASSUME RecordInv, NEW p \in Procs, consumer[p].pc = "update", NEW l \in consumer[p].todo
  PROVE  LET u == consumer[p].mark.reader
             new == R!Marked(p, l)
         IN /\ l \in R!Logs /\ l \in consumer[p].mark.logs /\ u \in Readers /\ new \in SUBSET Bits
            /\ Claims(l, new, claimed) /\ R!Shows(new, <<u, l>>)
            /\ \A e \in stored \ overtaken :
                 e[2] = l => e \in consumer[p].since \/ R!Shows(new, e)
<1> DEFINE u == consumer[p].mark.reader
           new == R!Marked(p, l)
           copy == R!Copy(p, l)
<1>1. consumer[p] \in Hands /\ HandOK(consumer[p], claimed) /\ Keeps(consumer[p], stored \ overtaken)
  BY DEF RecordInv, MarkTypes, ClaimInv, ShowInv
<1>2. l \in R!Logs /\ l \in consumer[p].mark.logs /\ u \in Readers /\ <<u, l>> \in claimed
  BY <1>1 DEF HandOK, MarkOK, Marks
<1>3. \E d \in consumer[p].loaded : d[1] = l
  BY <1>1, <1>2 DEF HandOK
<1>4. PICK d \in consumer[p].loaded : d[1] = l /\ d[2] = copy
  BY <1>3 DEF R!Copy
<1>5. copy \in SUBSET Bits /\ Claims(l, copy, claimed)
  BY <1>1, <1>4 DEF HandOK, Hands, Copies
<1>6. \A e \in stored \ overtaken : e[2] = l => e \in consumer[p].since \/ R!Shows(copy, e)
  BY <1>1, <1>4 DEF Keeps
<1>7. new = IF l \in GroupLogs THEN copy \cup {R!Place(u)} ELSE {0}
  BY DEF R!Marked, R!Set, R!One
<1> HIDE DEF new, copy
<1>8. new \in SUBSET Bits
  BY <1>2, <1>5, <1>7 DEF Bits
<1>9. Claims(l, new, claimed)
  BY <1>2, <1>5, <1>7 DEF Claims
<1>10. R!Shows(new, <<u, l>>)
  BY <1>7 DEF R!Shows, R!IsSet, R!One
<1>11. \A e : e[2] = l /\ R!Shows(copy, e) => R!Shows(new, e)
  BY <1>7 DEF R!Shows, R!IsSet, R!One
<1> QED
  BY <1>2, <1>6, <1>8, <1>9, <1>10, <1>11 DEF new

(* A goroutine that is done with a message.                                 *)
LEMMA UpdatedHand ==
  ASSUME RecordInv, NEW p \in Procs, consumer[p].pc = "update", NEW l \in consumer[p].todo,
         NEW reads, reads \subseteq (stored \ overtaken) \cup {<<consumer[p].mark.reader, l>>}
  PROVE  LET x == R!Updated(p, l)
         IN x \in Hands /\ HandOK(x, claimed) /\ Keeps(x, reads)
<1> DEFINE u == consumer[p].mark.reader
           new == R!Marked(p, l)
           y == consumer[p]
           x == R!Updated(p, l)
<1>1. y \in Hands /\ HandOK(y, claimed) /\ Keeps(y, stored \ overtaken) /\ y.pc = "update"
  BY DEF RecordInv, MarkTypes, ClaimInv, ShowInv
<1>2. /\ l \in R!Logs /\ l \in y.mark.logs /\ u \in Readers /\ new \in SUBSET Bits
      /\ Claims(l, new, claimed) /\ R!Shows(new, <<u, l>>)
      /\ \A e \in stored \ overtaken : e[2] = l => e \in y.since \/ R!Shows(new, e)
  BY MarkedShows
<1>3. x = [y EXCEPT !.todo = @ \ {l}, !.res = @ \cup {<<l, new>>}]
  BY DEF R!Updated
<1> HIDE DEF x, new
<1>4. /\ x.pc = "update" /\ x.mark = y.mark /\ x.loaded = y.loaded /\ x.since = y.since
      /\ x.todo = y.todo \ {l} /\ x.res = y.res \cup {<<l, new>>}
  BY <1>1, <1>3 DEF Hands
<1>5. <<l, new>> \in Copies /\ <<l, new>>[1] = l /\ <<l, new>>[2] = new
  BY <1>2 DEF Copies
<1>6. x \in Hands
  BY <1>1, <1>3, <1>5 DEF Hands
<1>7. HandOK(x, claimed)
  <2>1. \A k \in x.mark.logs \ x.todo : \E d \in x.res : d[1] = k
    BY <1>1, <1>4, <1>5 DEF HandOK
  <2>2. \A d \in x.loaded \cup x.res : Claims(d[1], d[2], claimed)
    BY <1>1, <1>2, <1>4, <1>5 DEF HandOK
  <2>3. \A d \in x.res : d[1] \in x.mark.logs /\ R!Shows(d[2], <<u, d[1]>>)
    BY <1>1, <1>2, <1>4, <1>5 DEF HandOK
  <2> QED
    BY <1>1, <1>4, <2>1, <2>2, <2>3 DEF HandOK
<1>8. Keeps(x, reads)
  <2> SUFFICES ASSUME NEW e \in reads, e \notin x.since
               PROVE  /\ e[2] \in x.todo => \A d \in x.loaded : d[1] = e[2] => R!Shows(d[2], e)
                      /\ \A d \in x.res : d[1] = e[2] => R!Shows(d[2], e)
    BY DEF Keeps
  <2>1. CASE e = <<u, l>>
    <3>1. e[2] = l /\ e[2] \notin x.todo
      BY <1>4, <2>1
    <3>2. \A d \in x.res : d[1] = l => R!Shows(d[2], <<u, l>>)
      BY <1>1, <1>2, <1>4, <1>5 DEF HandOK
    <3> QED
      BY <2>1, <3>1, <3>2
  <2>2. CASE e \in stored \ overtaken
    BY <1>1, <1>2, <1>4, <1>5, <2>2 DEF Keeps
  <2> QED
    BY <2>1, <2>2
<1> QED
  BY <1>6, <1>7, <1>8 DEF x

LEMMA FailStep ==
  ASSUME RecordInv, NEW p \in Procs, NEW l \in R!Logs, R!UpdateFails(p, l)
  PROVE  RecordInv'
<1>1. /\ consumer[p].pc = "update" /\ l \in consumer[p].todo
      /\ consumer' = [consumer EXCEPT ![p] = R!Updated(p, l)]
      /\ UNCHANGED <<records, marks, marksTaken, sent, shown, claimed, stored, overtaken, handed, hidden>>
  BY DEF R!UpdateFails, R!queue
<1>2. R!Updated(p, l) \in Hands /\ HandOK(R!Updated(p, l), claimed)
      /\ Keeps(R!Updated(p, l), stored \ overtaken)
  BY <1>1, UpdatedHand
<1> QED
  BY <1>1, <1>2, HandStep

(* UpdateMakeRead: the others' copies are from before it.                   *)
LEMMA UpdateStep ==
  ASSUME RecordInv, NEW p \in Procs, NEW l \in R!Logs, R!UpdateMakeRead(p, l)
  PROVE  RecordInv'
<1> DEFINE u == consumer[p].mark.reader
           new == R!Marked(p, l)
           e0 == <<u, l>>
           x == R!Updated(p, l)
           since == consumer[p].since
           others(q) == [consumer[q] EXCEPT !.since = @ \cup ({e0} \cap (Readers \X consumer[q].mark.logs))]
<1>1. /\ consumer[p].pc = "update" /\ l \in consumer[p].todo
      /\ records' = [records EXCEPT ![l] = new]
      /\ consumer' = [q \in Procs |-> IF q = p THEN x ELSE others(q)]
      /\ stored' = stored \cup {e0}
      /\ overtaken' = (overtaken \cup {f \in since : f[2] = l}) \ {e0}
      /\ handed' = handed \ {e0}
      /\ UNCHANGED <<marks, marksTaken, sent, shown, claimed, hidden>>
  BY DEF R!UpdateMakeRead, R!queue
<1>2. /\ u \in Readers /\ new \in SUBSET Bits /\ e0[2] = l
      /\ Claims(l, new, claimed) /\ R!Shows(new, e0)
      /\ \A e \in stored \ overtaken : e[2] = l => e \in since \/ R!Shows(new, e)
  BY <1>1, MarkedShows
<1> DEFINE reads2 == stored' \ overtaken'
<1>3. /\ reads2 \subseteq (stored \ overtaken) \cup {e0}
      /\ \A e \in reads2 : e # e0 /\ e[2] = l => e \notin since
  BY <1>1
<1>4. x \in Hands /\ HandOK(x, claimed) /\ Keeps(x, reads2)
  BY <1>1, <1>3, UpdatedHand
<1>a. e0 \in Reads
  BY <1>2 DEF Reads
<1> HIDE DEF new, x, u, since, reads2, e0
<1>5. ASSUME NEW q \in Procs, q # p
      PROVE  /\ consumer'[q] \in Hands /\ HandOK(consumer'[q], claimed)
             /\ Keeps(consumer'[q], reads2)
  <2> DEFINE y == consumer[q]
             z == consumer'[q]
  <2>1. y \in Hands /\ HandOK(y, claimed) /\ Keeps(y, stored \ overtaken)
    BY DEF RecordInv, MarkTypes, ClaimInv, ShowInv
  <2>2. z = [y EXCEPT !.since = @ \cup ({e0} \cap (Readers \X y.mark.logs))]
    BY <1>1, <1>5
  <2> HIDE DEF z, y
  <2>3. /\ z.pc = y.pc /\ z.mark = y.mark /\ z.loaded = y.loaded /\ z.todo = y.todo /\ z.res = y.res
        /\ z.since = y.since \cup ({e0} \cap (Readers \X y.mark.logs))
    BY <2>1, <2>2 DEF Hands
  <2>4. z \in Hands
    BY <1>a, <2>1, <2>2 DEF Hands
  <2>5. HandOK(z, claimed)
    BY <2>1, <2>3 DEF HandOK
  <2>6. Keeps(z, reads2)
    <3> SUFFICES ASSUME z.pc = "update", NEW e \in reads2, e \notin z.since
                 PROVE  /\ e[2] \in z.todo => \A d \in z.loaded : d[1] = e[2] => R!Shows(d[2], e)
                        /\ \A d \in z.res : d[1] = e[2] => R!Shows(d[2], e)
      BY DEF Keeps
    <3>1. CASE e \in stored \ overtaken
      BY <2>1, <2>3, <3>1 DEF Keeps
    <3>2. CASE e = e0
      <4>1. l \notin y.mark.logs
        BY <1>2, <2>3, <3>2 DEF e0
      <4>2. e[2] = l /\ l \notin z.todo
        BY <1>2, <2>1, <2>3, <3>2, <4>1 DEF HandOK
      <4>3. \A d \in z.res : d[1] # l
        BY <2>1, <2>3, <4>1 DEF HandOK
      <4> QED
        BY <4>2, <4>3
    <3> QED
      BY <1>3, <3>1, <3>2
  <2> QED
    BY <2>4, <2>5, <2>6 DEF z
<1>6. MarkTypes'
  <2>1. consumer' \in [Procs -> Hands]
    BY <1>1, <1>4, <1>5
  <2>2. stored' \subseteq Reads /\ handed' \subseteq stored'
    BY <1>1, <1>a DEF RecordInv, MarkTypes
  <2> QED
    BY <1>1, <1>2, <2>1, <2>2 DEF RecordInv, MarkTypes
<1>7. ClaimInv'
  <2>1. \A q \in Procs : HandOK(consumer'[q], claimed)
    BY <1>1, <1>4, <1>5
  <2>2. \A k \in R!Logs : Claims(k, records'[k], claimed)
    BY <1>1, <1>2 DEF RecordInv, ClaimInv, MarkTypes
  <2> QED
    BY <1>1, <2>1, <2>2 DEF RecordInv, ClaimInv
<1>8. ShowInv'
  <2>1. \A q \in Procs : Keeps(consumer'[q], reads2)
    BY <1>1, <1>4, <1>5
  <2>2. ASSUME NEW e \in reads2 PROVE R!Shows(records'[e[2]], e)
    <3>0. e[2] \in R!Logs
      BY <1>3, <1>a DEF RecordInv, MarkTypes, Reads
    <3>1. CASE e = e0
      BY <1>1, <1>2, <3>1 DEF RecordInv, MarkTypes
    <3>2. CASE e # e0 /\ e[2] = l
      BY <1>1, <1>2, <1>3, <3>2 DEF RecordInv, MarkTypes
    <3>3. CASE e # e0 /\ e[2] # l
      BY <1>1, <1>3, <3>0, <3>3 DEF RecordInv, MarkTypes, ShowInv
    <3> QED
      BY <3>1, <3>2, <3>3
  <2>3. \A e \in handed' \ (overtaken' \cup hidden') : e \in handed \ (overtaken \cup hidden)
    BY <1>1
  <2> QED
    BY <1>1, <2>1, <2>2, <2>3 DEF RecordInv, ShowInv, reads2
<1> QED
  BY <1>6, <1>7, <1>8 DEF RecordInv

LEMMA MergeStep ==
  ASSUME RecordInv, NEW p \in Procs, R!MergeReceipt(p)
  PROVE  RecordInv'
<1> DEFINE y == consumer[p]
           mine == {<<y.mark.reader, l>> : l \in y.mark.logs}
           copy(l) == (CHOOSE d \in y.res : d[1] = l)[2]
<1>1. /\ y.pc = "update" /\ y.todo = {}
      /\ consumer' = [consumer EXCEPT ![p] = R!Idle]
      /\ shown' = [l \in R!Logs |-> IF l \in y.mark.logs THEN copy(l) ELSE shown[l]]
      /\ handed' = handed \cup (mine \cap stored)
      /\ hidden' = ({e \in hidden : e[2] \notin y.mark.logs} \cup y.since) \ mine
      /\ UNCHANGED <<records, marks, marksTaken, sent, claimed, stored, overtaken>>
  BY DEF R!MergeReceipt, R!queue
<1>2. y \in Hands /\ HandOK(y, claimed) /\ Keeps(y, stored \ overtaken)
  BY DEF RecordInv, MarkTypes, ClaimInv, ShowInv
<1>3. consumer'[p] = R!Idle /\ \A q \in Procs : q # p => consumer'[q] = consumer[q]
  BY <1>1 DEF RecordInv, MarkTypes
<1>4. ASSUME NEW l \in y.mark.logs
      PROVE  \E d \in y.res : d[1] = l /\ d[2] = copy(l)
  <2>1. \E d \in y.res : d[1] = l
    BY <1>1, <1>2 DEF HandOK
  <2> QED
    BY <2>1
<1> HIDE DEF copy
<1>5. \A l \in y.mark.logs : copy(l) \in SUBSET Bits /\ Claims(l, copy(l), claimed)
  BY <1>1, <1>2, <1>4 DEF HandOK, Hands, Copies
<1>6. MarkTypes'
  <2>1. consumer' \in [Procs -> Hands]
    BY <1>1, NothingInHand DEF RecordInv, MarkTypes
  <2> QED
    BY <1>1, <1>5, <2>1 DEF RecordInv, MarkTypes
<1>7. ClaimInv'
  <2>1. \A q \in Procs : HandOK(consumer'[q], claimed)
    BY <1>3, NothingInHand DEF RecordInv, ClaimInv
  <2>2. \A l \in R!Logs : Claims(l, shown'[l], claimed)
    BY <1>1, <1>5 DEF RecordInv, ClaimInv
  <2> QED
    BY <1>1, <2>1, <2>2 DEF RecordInv, ClaimInv
<1>8. ShowInv'
  <2>1. \A q \in Procs : Keeps(consumer'[q], stored \ overtaken)
    BY <1>3, NothingInHand DEF RecordInv, ShowInv
  <2>2. ASSUME NEW e \in handed' \ (overtaken \cup hidden') PROVE R!Shows(shown'[e[2]], e)
    <3>1. e \in stored /\ e[2] \in R!Logs
      BY <1>1 DEF RecordInv, MarkTypes, Reads
    <3>2. CASE e[2] \notin y.mark.logs
      <4>1. e \in handed \ (overtaken \cup hidden)
        <5>1. e \notin mine
          BY <3>2
        <5> QED
          BY <1>1, <3>2, <5>1
      <4>2. shown'[e[2]] = shown[e[2]]
        BY <1>1, <3>1, <3>2
      <4> QED
        BY <4>1, <4>2 DEF RecordInv, ShowInv
    <3>3. CASE e[2] \in y.mark.logs
      <4>1. PICK d \in y.res : d[1] = e[2] /\ d[2] = copy(e[2])
        BY <1>4, <3>3
      <4>2. shown'[e[2]] = d[2]
        BY <1>1, <3>1, <3>3, <4>1
      <4>3. CASE e \in mine
        <5>1. e = <<y.mark.reader, d[1]>>
          BY <4>1, <4>3
        <5> QED
          BY <1>1, <1>2, <4>2, <5>1 DEF HandOK
      <4>4. CASE e \notin mine
        <5>1. e \notin y.since
          BY <1>1, <4>4
        <5> QED
          BY <1>1, <1>2, <3>1, <4>1, <4>2, <5>1 DEF Keeps
      <4> QED
        BY <4>3, <4>4
    <3> QED
      BY <3>2, <3>3
  <2> QED
    BY <1>1, <2>1, <2>2 DEF RecordInv, ShowInv
<1> QED
  BY <1>6, <1>7, <1>8 DEF RecordInv

(* The queue goes back, and the process restarts.                           *)
LEMMA AgainStep ==
  ASSUME RecordInv, (\E m \in marksTaken : R!ComeAgain(m)) \/ R!Restart
  PROVE  RecordInv'
<1>1. /\ marks' \cup marksTaken' \subseteq marks \cup marksTaken
      /\ \/ UNCHANGED consumer
         \/ consumer' = [p \in Procs |-> R!Idle]
      /\ UNCHANGED <<records, sent, shown, claimed, stored, overtaken, handed, hidden>>
  BY DEF R!ComeAgain, R!Restart, R!queue
<1>2. \A p \in Procs : consumer'[p] = consumer[p] \/ consumer'[p] = R!Idle
  BY <1>1
<1>3. MarkTypes'
  BY <1>1, NothingInHand DEF RecordInv, MarkTypes
<1>4. ClaimInv'
  BY <1>1, <1>2, NothingInHand DEF RecordInv, ClaimInv
<1>5. ShowInv'
  BY <1>1, <1>2, NothingInHand DEF RecordInv, ShowInv
<1> QED
  BY <1>3, <1>4, <1>5 DEF RecordInv

(* ReadRecordsAreTrue: every bit of a message's read_records, in the chat   *)
(* log and in the receipt handed on last, is that of a user who sent a mark *)
(* for the message (or the byte of a single chat somebody sent one for),    *)
(* whatever goroutines race, updates fail, marks come again and processes   *)
(* restart.  A read that was stored keeps its bit but when a copy loaded    *)
(* before is stored over it; a read whose receipt was handed on is in the   *)
(* last receipt but when that one was computed from copies loaded before    *)
(* the read was stored.  That these two do lose reads is what the theorem   *)
(* leaves, and all it leaves.                                               *)
THEOREM ReadRecordsAreTrue == ChatSpec => []RecordsAreTrue
<1>1. ChatInit => RecordInv
  <2> SUFFICES ASSUME R!Init PROVE RecordInv
    BY DEF ChatInit
  <2>1. MarkTypes
    BY NothingInHand DEF R!Init, MarkTypes
  <2>2. ClaimInv
    BY NothingInHand DEF R!Init, ClaimInv, Claims
  <2>3. ShowInv
    BY NothingInHand DEF R!Init, ShowInv
  <2> QED
    BY <2>1, <2>2, <2>3 DEF RecordInv
<1>2. RecordInv /\ [ChatNext]_<<part, vars, recordVars, deliveryVars>> => RecordInv'
  <2> SUFFICES ASSUME RecordInv, R!Next \/ UNCHANGED recordVars PROVE RecordInv'
    BY DEF ChatNext
  <2>1. CASE R!Next
    BY <2>1, MarkReadStep, TakeStep, UpdateStep, FailStep, MergeStep, AgainStep DEF R!Next
  <2>2. CASE UNCHANGED recordVars
    BY <2>2 DEF recordVars, RecordInv, MarkTypes, ClaimInv, ShowInv
  <2> QED
    BY <2>1, <2>2
<1>3. RecordInv => RecordsAreTrue
  <2> SUFFICES ASSUME RecordInv PROVE R!RecordsAreTrue
    BY DEF RecordsAreTrue
  <2>1. \A l \in R!Logs : \A b \in records[l] \cup shown[l] :
          \E u \in Readers : <<u, l>> \in claimed /\ b = IF l \in GroupLogs THEN R!Place(u) ELSE 0
    BY DEF RecordInv, ClaimInv, Claims
  <2>2. /\ \A e \in stored \ overtaken : R!Shows(records[e[2]], e)
        /\ \A e \in handed \ (overtaken \cup hidden) : R!Shows(shown[e[2]], e)
    BY DEF RecordInv, ShowInv
  <2> QED
    BY <2>1, <2>2 DEF R!RecordsAreTrue
<1> QED
  BY <1>1, <1>2, <1>3, PTL DEF ChatSpec

-----------------------------------------------------------------------------
(***************************************************************************)
(* Delivery, with the conversations' users, groups and goroutines.  Its    *)
(* proofs, in Delivery_proof, are about the same formulas: SameDelivery.   *)
(***************************************************************************)
DP == INSTANCE Delivery_proof WITH Chatters <- Users, Rooms <- Groups, InRoom <- [c \in Groups |-> Users],
       Handlers <- Procs
(* Delivery, as MCConversation and as its proofs have it.                   *)
LEMMA SameDelivery ==
  /\ D!Init <=> DP!Init
  /\ D!Next <=> DP!Next
  /\ D!PushesAccounted <=> DP!PushesAccounted
<1> USE DEF D!Waiting, DP!Waiting, D!NoChat, DP!NoChat, D!Recipients, DP!Recipients,
            D!Holding, DP!Holding
<1>1. D!Init <=> DP!Init
  BY DEF D!Init, DP!Init
<1>2. D!PushesAccounted <=> DP!PushesAccounted
  <2>1. D!EachRowOnce <=> DP!EachRowOnce
    BY DEF D!EachRowOnce, DP!EachRowOnce
  <2>2. \A m, u : (D!Received(m, u) <=> DP!Received(m, u)) /\ (D!OnTheWay(m, u) <=> DP!OnTheWay(m, u))
    BY DEF D!Received, DP!Received, D!OnTheWay, DP!OnTheWay
  <2> QED
    BY <2>1, <2>2 DEF D!PushesAccounted, DP!PushesAccounted
<1>3. D!Next <=> DP!Next
  <2> USE DEF D!queue, DP!queue, D!server, DP!server, D!Rest, DP!Rest, D!Unlock, DP!Unlock
  <2>0. \A h : D!Undelivered(h) = DP!Undelivered(h)
    BY DEF D!Undelivered, DP!Undelivered
  <2>1. \A u, to : D!Publish(u, to) <=> DP!Publish(u, to)
    BY DEF D!Publish, DP!Publish
  <2>2. \A u : (D!Connect(u) <=> DP!Connect(u)) /\ (D!Disconnect(u) <=> DP!Disconnect(u))
    BY DEF D!Connect, DP!Connect, D!Disconnect, DP!Disconnect, D!Closed, DP!Closed
  <2>3. \A h, c : (D!Fetch(h, c) <=> DP!Fetch(h, c)) /\ (D!ComeAgain(c) <=> DP!ComeAgain(c))
    BY DEF D!Fetch, DP!Fetch, D!ComeAgain, DP!ComeAgain
  <2>4. \A h : D!Insert(h) <=> DP!Insert(h)
    BY DEF D!Insert, DP!Insert, D!Row, DP!Row, D!ConversationId, DP!ConversationId,
           D!CombineId, DP!CombineId
  <2>5. D!Restart <=> DP!Restart
    <3>1. UNION {D!Undelivered(h) : h \in {k \in Procs : D!Holding(k)}}
            = UNION {DP!Undelivered(h) : h \in {k \in Procs : DP!Holding(k)}}
      BY <2>0
    <3> QED
      BY <3>1 DEF D!Restart, DP!Restart
  <2>6. \A h : /\ D!InsertFails(h) <=> DP!InsertFails(h)
               /\ D!UpdateMsgFails(h) <=> DP!UpdateMsgFails(h)
               /\ D!Members(h) <=> DP!Members(h)
    BY <2>0 DEF D!InsertFails, DP!InsertFails, D!UpdateMsgFails, DP!UpdateMsgFails,
                D!Members, DP!Members
  <2>7. \A h : /\ D!Lock(h) <=> DP!Lock(h)
               /\ D!Write(h) <=> DP!Write(h)
               /\ D!DialFails(h) <=> DP!DialFails(h)
               /\ D!Redial(h) <=> DP!Redial(h)
    BY <2>0 DEF D!Lock, DP!Lock, D!Write, DP!Write, D!DialFails, DP!DialFails,
                D!Redial, DP!Redial, D!Frame, DP!Frame
  <2>8. (\A n : D!LinkBreaks(n) <=> DP!LinkBreaks(n)) /\ (D!ServerDies <=> DP!ServerDies)
    BY DEF D!LinkBreaks, DP!LinkBreaks, D!ServerDies, DP!ServerDies, D!Unread, DP!Unread,
           D!Undone, DP!Undone
  <2>9. D!Push <=> DP!Push
    BY DEF D!Push, DP!Push
  <2>10. \A t : (D!GetConn(t) <=> DP!GetConn(t)) /\ (D!SendTo(t) <=> DP!SendTo(t))
    BY DEF D!GetConn, DP!GetConn, D!SendTo, DP!SendTo
  <2> QED
    BY <2>1, <2>2, <2>3, <2>4, <2>5, <2>6, <2>7, <2>8, <2>9, <2>10 DEF D!Next, DP!Next
<1> QED
  BY <1>1, <1>2, <1>3

(* PushesAreAccounted: EveryPushIsAccounted, of the users, groups and       *)
(* goroutines of the conversations: a stored message reaches each of its    *)
(* recipients at most once, and does not only where this code gives up.     *)
THEOREM PushesAreAccounted == ChatSpec => []PushesAccounted
<1>1. ChatInit => DP!Init
  BY SameDelivery DEF ChatInit
<1>2. [ChatNext]_<<part, vars, recordVars, deliveryVars>> => [DP!Next]_(DP!vars)
  BY SameDelivery DEF ChatNext, deliveryVars, DP!vars, DP!queue, DP!server
<1>3. DP!Setting
  BY DEF DP!Setting
<1>4. DP!PushesAccounted => PushesAccounted
  BY SameDelivery DEF PushesAccounted
<1> QED
  BY <1>1, <1>2, <1>3, <1>4, DP!EveryPushIsAccounted, PTL DEF ChatSpec, DP!Spec
=============================================================================
