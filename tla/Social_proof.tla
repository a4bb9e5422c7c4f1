----------------------------- MODULE Social_proof -----------------------------
(***************************************************************************)
(* Proofs about Friends, for any users, calls and number of requests, and  *)
(* about the components MCSocial sets beside it: Groups (whose proofs are  *)
(* those of Groups_proof), Users and Gateway.                              *)
(***************************************************************************)
EXTENDS MCSocial, SequenceTheorems, TLAPS

(* The places of a table are ids, and every row is a row.                   *)
LEMMA RowsAt ==
  ASSUME TypeOK, NEW id \in DOMAIN requests
  PROVE  /\ id \in Ids /\ id \in 1..Len(requests)
         /\ requests[id] \in Row
BY MaxRequestsAssumption DEF TypeOK, Ids

(* A new row is undecided and the last; the others stay.                    *)
LEMMA NewRow ==
  ASSUME TypeOK, NEW c \in Calls, InsertRequest(c)
  PROVE  /\ requests' \in Seq(Row) /\ Len(requests') = Len(requests) + 1
         /\ \A id \in DOMAIN requests : id \in DOMAIN requests' /\ requests'[id] = requests[id]
         /\ \A id \in DOMAIN requests' : id \in DOMAIN requests \/ requests'[id].result = "no"
<1> DEFINE row == [user |-> calls[c].user, req |-> calls[c].req, result |-> "no"]
<1>1. row \in Row
  BY DEF InsertRequest, TypeOK, Fits, Asks, Row, Results
<1>2. requests' = Append(requests, row)
  BY DEF InsertRequest
<1> HIDE DEF row
<1>3. requests \in Seq(Row)
  BY DEF TypeOK
<1>4. /\ requests' \in Seq(Row) /\ Len(requests') = Len(requests) + 1
      /\ \A i \in 1..Len(requests) : requests'[i] = requests[i]
      /\ requests'[Len(requests) + 1] = row
  BY <1>1, <1>2, <1>3, AppendProperties
<1>5. row.result = "no"
  BY DEF row
<1> QED
  BY <1>3, <1>4, <1>5

(* A decision changes the result of one row.                                *)
LEMMA DecidedRow ==
  ASSUME TypeOK, NEW c \in Calls, Update(c)
  PROVE  /\ calls[c].id \in DOMAIN requests /\ calls[c].result \in Results
         /\ requests' \in Seq(Row) /\ Len(requests') = Len(requests)
         /\ DOMAIN requests' = DOMAIN requests
         /\ \A id \in DOMAIN requests :
              requests'[id] = IF id = calls[c].id THEN [requests[id] EXCEPT !.result = calls[c].result]
                              ELSE requests[id]
<1>1. calls[c].id \in DOMAIN requests /\ calls[c].result \in Results
  BY DEF Update, TypeOK, Fits, Handles
<1>2. requests \in Seq(Row)
  BY DEF TypeOK
<1>3. [requests[calls[c].id] EXCEPT !.result = calls[c].result] \in Row
  BY <1>1, RowsAt DEF Row
<1>4. requests' = [requests EXCEPT ![calls[c].id] = [requests[calls[c].id] EXCEPT !.result = calls[c].result]]
  BY DEF Update
<1>5. requests' \in Seq(Row) /\ Len(requests') = Len(requests)
  BY <1>1, <1>2, <1>3, <1>4, ExceptSeq
<1> QED
  BY <1>1, <1>2, <1>4, <1>5

(* A call that goes on to a step it knows enough for is a call.             *)
LEMMA CallStep ==
  ASSUME TypeOK, NEW c \in Calls, NEW x \in Call,
         calls' = [calls EXCEPT ![c] = x],
         \A id \in DOMAIN requests : id \in DOMAIN requests',
         x.pc \in Asks => x.user \in Users /\ x.req \in Users,
         x.pc \in Handles => x.id \in DOMAIN requests' /\ x.result \in Results,
         x.pc = "fill" => x.read \in Results
  PROVE  calls' \in [Calls -> Call] /\ \A d \in Calls : Fits(calls[d])'
<1>1. calls' \in [Calls -> Call]
  BY DEF TypeOK
<1>2. ASSUME NEW d \in Calls PROVE Fits(calls[d])'
  <2>1. Fits(calls[d])
    BY DEF TypeOK
  <2>2. calls'[d] = IF d = c THEN x ELSE calls[d]
    BY DEF TypeOK
  <2> QED
    BY <2>1, <2>2 DEF Fits
<1> QED
  BY <1>1, <1>2

(* Going on to another step changes the step only.                          *)
LEMMA ContinueCall ==
  ASSUME TypeOK, NEW c \in Calls, NEW pc \in Asks \cup Handles, Continue(c, pc)
  PROVE  /\ [calls[c] EXCEPT !.pc = pc] \in Call
         /\ calls' = [calls EXCEPT ![c] = [calls[c] EXCEPT !.pc = pc]]
         /\ [calls[c] EXCEPT !.pc = pc].pc = pc
         /\ [calls[c] EXCEPT !.pc = pc].user = calls[c].user
         /\ [calls[c] EXCEPT !.pc = pc].req = calls[c].req
         /\ [calls[c] EXCEPT !.pc = pc].id = calls[c].id
         /\ [calls[c] EXCEPT !.pc = pc].result = calls[c].result
         /\ [calls[c] EXCEPT !.pc = pc].read = calls[c].read
<1>1. calls[c] \in Call
  BY DEF TypeOK
<1>2. calls' = [calls EXCEPT ![c] = [calls[c] EXCEPT !.pc = pc]]
  BY DEF Continue
<1> QED
  BY <1>1, <1>2 DEF Call

(* An answered call is at its end.                                          *)
LEMMA AnsweredCall == Answered \in Call /\ Answered.pc = "done" /\ NoCall \in Call
BY DEF Answered, NoCall, Call

(* An answer keeps the calls' shape, if no row is lost.                     *)
LEMMA AnswerStep ==
  ASSUME TypeOK, NEW c \in Calls, Answer(c), \A id \in DOMAIN requests : id \in DOMAIN requests'
  PROVE  calls' \in [Calls -> Call] /\ \A d \in Calls : Fits(calls[d])'
BY AnsweredCall, CallStep DEF Answer, Asks, Handles

(* What the check made of the copy that was read.                           *)
LEMMA CheckStep ==
  ASSUME TypeOK, NEW c \in Calls, NEW read \in Results, Check(c, read), calls[c].pc \in Handles,
         UNCHANGED requests
  PROVE  calls' \in [Calls -> Call] /\ \A d \in Calls : Fits(calls[d])'
<1>1. CASE read \in Decided
  <2>1. Answer(c)
    BY <1>1 DEF Check, Answer
  <2> QED
    BY <2>1, AnswerStep
<1>2. CASE read \notin Decided
  <2> DEFINE x == [calls[c] EXCEPT !.pc = "update", !.read = read]
  <2>1. calls' = [calls EXCEPT ![c] = x]
    BY <1>2 DEF Check
  <2>2. calls[c] \in Call /\ Fits(calls[c])
    BY DEF TypeOK
  <2>3. x \in Call /\ x.pc = "update" /\ x.id = calls[c].id /\ x.result = calls[c].result
    BY <2>2 DEF Call, Handles
  <2>4. x.id \in DOMAIN requests' /\ x.result \in Results
    BY <2>2, <2>3 DEF Fits
  <2> HIDE DEF x
  <2> QED
    BY <2>1, <2>3, <2>4, CallStep DEF Asks
<1> QED
  BY <1>1, <1>2

-----------------------------------------------------------------------------

(* TypeCorrect: the tables, the cache and the calls keep their shape.       *)
THEOREM TypeCorrect == Spec => []TypeOK
<1> USE MaxRequestsAssumption
<1>1. Init => TypeOK
  BY DEF Init, TypeOK, NoCall, Call, Fits, Asks, Handles, Row, Ids
<1>2. TypeOK /\ [Next]_vars => TypeOK'
  <2> SUFFICES ASSUME TypeOK, [Next]_vars PROVE TypeOK'
    OBVIOUS
  <2> USE DEF rows, history
  <2> DEFINE CallsOK == calls \in [Calls -> Call] /\ \A d \in Calls : Fits(calls[d])
  <2>0. ASSUME CallsOK', UNCHANGED <<rows, history>>, cached' \in [Ids -> Results \cup {"none"}] PROVE TypeOK'
    BY <2>0 DEF TypeOK
  <2>1. ASSUME NEW c \in Calls, NEW u \in Users, NEW v \in Users, FriendPutIn(c, u, v) PROVE TypeOK'
    <3> DEFINE x == [NoCall EXCEPT !.pc = "friends", !.user = u, !.req = v]
    <3>1. x \in Call /\ x.pc = "friends" /\ x.user = u /\ x.req = v
      BY DEF NoCall, Call, Asks
    <3>2. calls' = [calls EXCEPT ![c] = x]
      BY <2>1 DEF FriendPutIn
    <3> HIDE DEF x
    <3>3. CallsOK'
      BY <2>1, <3>1, <3>2, CallStep DEF FriendPutIn, Handles
    <3> QED
      BY <2>0, <2>1, <3>3 DEF FriendPutIn, TypeOK
  <2>2. ASSUME NEW c \in Calls, FindFriends(c) PROVE TypeOK'
    <3>1. CASE Answer(c)
      BY <2>0, <2>2, <3>1, AnswerStep DEF FindFriends, TypeOK
    <3>2. CASE Continue(c, "requests")
      <4>1. Fits(calls[c]) /\ calls[c].pc \in Asks
        BY <2>2 DEF TypeOK, FindFriends, Asks
      <4>2. CallsOK'
        BY <2>2, <3>2, <4>1, ContinueCall, CallStep DEF FindFriends, Fits, Asks, Handles
      <4> QED
        BY <2>0, <2>2, <4>2 DEF FindFriends, TypeOK
    <3> QED
      BY <2>2, <3>1, <3>2 DEF FindFriends
  <2>3. ASSUME NEW c \in Calls, FindRequest(c) PROVE TypeOK'
    <3>1. CASE Answer(c)
      BY <2>0, <2>3, <3>1, AnswerStep DEF FindRequest, TypeOK
    <3>2. CASE Continue(c, "ask")
      <4>1. Fits(calls[c]) /\ calls[c].pc \in Asks
        BY <2>3 DEF TypeOK, FindRequest, Asks
      <4>2. CallsOK'
        BY <2>3, <3>2, <4>1, ContinueCall, CallStep DEF FindRequest, Fits, Asks, Handles
      <4> QED
        BY <2>0, <2>3, <4>2 DEF FindRequest, TypeOK
    <3> QED
      BY <2>3, <3>1, <3>2 DEF FindRequest
  <2>4. ASSUME NEW c \in Calls, InsertRequest(c) PROVE TypeOK'
    <3>1. requests' \in Seq(Row) /\ Len(requests') = Len(requests) + 1 /\ Len(requests) < MaxRequests
      BY <2>4, NewRow DEF InsertRequest
    <3>2. Len(requests) \in Nat /\ Len(requests') <= MaxRequests
      BY <3>1, LenProperties DEF TypeOK
    <3>3. CallsOK'
      BY <2>4, NewRow, AnswerStep DEF InsertRequest
    <3> QED
      BY <2>4, <3>1, <3>2, <3>3 DEF InsertRequest, TypeOK
  <2>5. ASSUME NEW c \in Calls, NEW id \in Ids, NEW result \in Results, FriendPutInHandle(c, id, result)
        PROVE TypeOK'
    <3> DEFINE x == [NoCall EXCEPT !.pc = "find", !.id = id, !.result = result]
    <3>1. x \in Call /\ x.pc = "find" /\ x.id = id /\ x.result = result
      BY DEF NoCall, Call, Handles
    <3>2. calls' = [calls EXCEPT ![c] = x]
      BY <2>5 DEF FriendPutInHandle
    <3> HIDE DEF x
    <3>3. CallsOK'
      BY <2>5, <3>1, <3>2, CallStep DEF FriendPutInHandle, Asks
    <3> QED
      BY <2>5, <3>3 DEF FriendPutInHandle, TypeOK
  <2>6. ASSUME NEW c \in Calls, FindOne(c) PROVE TypeOK'
    <3>1. calls[c] \in Call /\ Fits(calls[c]) /\ calls[c].id \in DOMAIN requests /\ calls[c].pc \in Handles
      BY <2>6 DEF FindOne, TypeOK, Fits, Handles
    <3>2. requests[calls[c].id].result \in Results /\ cached[calls[c].id] \in Results \cup {"none"}
      BY <3>1, RowsAt DEF Row, TypeOK
    <3>3. CASE cached[calls[c].id] # "none"
      BY <2>0, <2>6, <3>1, <3>2, <3>3, CheckStep DEF FindOne, TypeOK
    <3>4. CASE cached[calls[c].id] = "none"
      <4> DEFINE x == [calls[c] EXCEPT !.pc = "fill", !.read = requests[calls[c].id].result]
      <4>1. calls' = [calls EXCEPT ![c] = x]
        BY <2>6, <3>4 DEF FindOne
      <4>2. x \in Call /\ x.pc = "fill" /\ x.id = calls[c].id /\ x.result = calls[c].result /\ x.read \in Results
        BY <3>1, <3>2 DEF Call, Handles
      <4> HIDE DEF x
      <4>3. CallsOK'
        BY <2>6, <3>1, <4>1, <4>2, CallStep DEF FindOne, Fits, Asks
      <4> QED
        BY <2>0, <2>6, <4>3 DEF FindOne, TypeOK
    <3> QED
      BY <3>3, <3>4
  <2>7. ASSUME NEW c \in Calls, FillCache(c) PROVE TypeOK'
    <3>1. Fits(calls[c]) /\ calls[c].pc \in Handles /\ calls[c].read \in Results
      BY <2>7 DEF FillCache, TypeOK, Fits, Handles
    <3>2. CallsOK'
      BY <2>7, <3>1, CheckStep DEF FillCache
    <3> QED
      BY <2>0, <2>7, <3>1, <3>2 DEF FillCache, TypeOK
  <2>8. ASSUME NEW c \in Calls, Update(c) PROVE TypeOK'
    <3>1. Fits(calls[c]) /\ calls[c].pc \in Handles
      BY <2>8 DEF Update, TypeOK, Handles
    <3>2. Continue(c, "evict") /\ DOMAIN requests' = DOMAIN requests
      BY <2>8, DecidedRow DEF Update
    <3> DEFINE x == [calls[c] EXCEPT !.pc = "evict"]
    <3>3. /\ x \in Call /\ calls' = [calls EXCEPT ![c] = x]
          /\ x.pc = "evict" /\ x.id = calls[c].id /\ x.result = calls[c].result
      BY <3>2, ContinueCall DEF Handles
    <3> HIDE DEF x
    <3>4. CallsOK'
      BY <3>1, <3>2, <3>3, CallStep DEF Fits, Asks
    <3> QED
      BY <2>8, <3>4, DecidedRow DEF Update, TypeOK
  <2>9. ASSUME NEW c \in Calls, NEW ok \in BOOLEAN, Evict(c, ok) PROVE TypeOK'
    <3>1. Fits(calls[c]) /\ calls[c].pc \in Handles
      BY <2>9 DEF Evict, TypeOK, Handles
    <3>2. calls[c].id \in Ids
      BY <3>1, RowsAt DEF Fits
    <3>3. CASE Answer(c)
      BY <2>9, <3>2, <3>3, AnswerStep DEF Evict, TypeOK
    <3>4. CASE Continue(c, "insert")
      <4>1. CallsOK'
        BY <2>9, <3>1, <3>4, ContinueCall, CallStep DEF Evict, Fits, Asks, Handles
      <4> QED
        BY <2>9, <3>2, <4>1 DEF Evict, TypeOK
    <3> QED
      BY <2>9, <3>3, <3>4 DEF Evict
  <2>10. ASSUME NEW c \in Calls, InsertFriends(c) PROVE TypeOK'
    <3>1. calls[c].id \in Ids
      BY <2>10, RowsAt DEF InsertFriends, TypeOK, Fits, Handles
    <3>2. friends' \in [Users \X Users -> Nat]
      BY <2>10 DEF InsertFriends, TypeOK, Befriend
    <3>3. CallsOK'
      BY <2>10, AnswerStep DEF InsertFriends
    <3>4. made' \in [Ids -> Nat]
      BY <2>10, <3>1 DEF InsertFriends, TypeOK
    <3> QED
      BY <2>10, <3>2, <3>3, <3>4 DEF InsertFriends, TypeOK
  <2>11. ASSUME NEW c \in Calls, Fail(c) PROVE TypeOK'
    <3>1. calls[c].pc \in Handles => calls[c].id \in Ids
      BY RowsAt DEF TypeOK, Fits
    <3>2. CallsOK'
      BY <2>11, AnswerStep DEF Fail
    <3> QED
      BY <2>11, <3>1, <3>2 DEF Fail, TypeOK, Handles
  <2>12. ASSUME NEW id \in Ids, Expire(id) PROVE TypeOK'
    BY <2>12 DEF Expire, TypeOK, Fits
  <2>13. CASE UNCHANGED vars
    BY <2>13 DEF vars, TypeOK, Fits
  <2> QED
    BY <2>1, <2>2, <2>3, <2>4, <2>5, <2>6, <2>7, <2>8, <2>9, <2>10, <2>11, <2>12, <2>13
       DEF Next, Asking, Deciding
<1> QED
  BY <1>1, <1>2, PTL DEF Spec

-----------------------------------------------------------------------------

(* Inserting a friendship makes both its rows and loses none.               *)
LEMMA BefriendOnly ==
  ASSUME TypeOK, NEW u \in Users, NEW v \in Users, friends' = Befriend(u, v)
  PROVE  /\ friends'[<<u, v>>] > 0 /\ friends'[<<v, u>>] > 0
         /\ \A p \in Users \X Users :
              friends'[p] >= friends[p] /\ friends[p] \in Nat /\ friends'[p] \in Nat
<1>1. \A p \in Users \X Users :
        friends'[p] = friends[p] + (IF p = <<u, v>> THEN 1 ELSE 0) + (IF p = <<v, u>> THEN 1 ELSE 0)
  BY DEF TypeOK, Befriend
<1>2. \A p \in Users \X Users : friends[p] \in Nat
  BY DEF TypeOK
<1>3. <<u, v>> \in Users \X Users /\ <<v, u>> \in Users \X Users
  OBVIOUS
<1> QED
  BY <1>1, <1>2, <1>3

(* A request's friends are made, or a call is about to make them, or failed.*)
Making(c, id) == calls[c].id = id /\ calls[c].pc \in {"evict", "insert"} /\ calls[c].result = "pass"
Settled(id) ==
  \/ friends[<<requests[id].user, requests[id].req>>] > 0 /\ friends[<<requests[id].req, requests[id].user>>] > 0
  \/ id \in broken
  \/ \E c \in Calls : Making(c, id)
AcceptedSettled == \A id \in DOMAIN requests : requests[id].result = "pass" => Settled(id)

LEMMA SettledIsFriends == ASSUME AcceptedSettled PROVE AcceptedAreFriends
BY DEF AcceptedSettled, Settled, Making, AcceptedAreFriends, HandlingOf, Handling, Handles

(* A step of a call that makes no friends takes nothing from a request that *)
(* stays as it is.                                                          *)
LEMMA OtherStep ==
  ASSUME TypeOK, NEW c \in Calls, NEW id \in DOMAIN requests, Settled(id),
         requests'[id].user = requests[id].user, requests'[id].req = requests[id].req,
         UNCHANGED friends, \A i \in broken : i \in broken',
         \A d \in Calls \ {c} : calls'[d] = calls[d],
         Making(c, id) => Making(c, id)' \/ id \in broken'
  PROVE  Settled(id)'
BY DEF Settled, Making

(* FriendsOfAccepted: an accepted request has made both users friends of    *)
(* each other, or the call that accepted it is on its way to do so or       *)
(* failed.                                                                  *)
THEOREM FriendsOfAccepted == Spec => []AcceptedAreFriends
<1>1. Init => AcceptedSettled
  BY DEF Init, AcceptedSettled
<1>2. TypeOK /\ AcceptedSettled /\ [Next]_vars => AcceptedSettled'
  <2> SUFFICES ASSUME TypeOK, AcceptedSettled, [Next]_vars PROVE AcceptedSettled'
    OBVIOUS
  <2> USE DEF rows, history
  <2>0. ASSUME NEW c \in Calls, UNCHANGED <<rows, broken>>,
               \A d \in Calls \ {c} : calls'[d] = calls[d],
               calls[c].pc \notin {"evict", "insert"}
        PROVE AcceptedSettled'
    <3> SUFFICES ASSUME NEW id \in DOMAIN requests', requests'[id].result = "pass" PROVE Settled(id)'
      BY DEF AcceptedSettled
    <3>1. id \in DOMAIN requests /\ Settled(id)
      BY <2>0 DEF AcceptedSettled
    <3> QED
      BY <2>0, <3>1, OtherStep DEF Making
  <2>1. ASSUME NEW c \in Calls, NEW u \in Users, NEW v \in Users, FriendPutIn(c, u, v) PROVE AcceptedSettled'
    BY <2>0, <2>1 DEF FriendPutIn, TypeOK
  <2>2. ASSUME NEW c \in Calls, FindFriends(c) PROVE AcceptedSettled'
    BY <2>0, <2>2 DEF FindFriends, TypeOK, Answer, Continue
  <2>3. ASSUME NEW c \in Calls, FindRequest(c) PROVE AcceptedSettled'
    BY <2>0, <2>3 DEF FindRequest, TypeOK, Answer, Continue
  <2>4. ASSUME NEW c \in Calls, InsertRequest(c) PROVE AcceptedSettled'
    <3> SUFFICES ASSUME NEW id \in DOMAIN requests', requests'[id].result = "pass" PROVE Settled(id)'
      BY DEF AcceptedSettled
    <3>1. id \in DOMAIN requests /\ requests'[id] = requests[id]
      BY <2>4, NewRow
    <3>2. \A d \in Calls \ {c} : calls'[d] = calls[d]
      BY <2>4 DEF InsertRequest, Answer, TypeOK
    <3>3. ~Making(c, id)
      BY <2>4 DEF InsertRequest, Making
    <3>4. Settled(id)
      BY <3>1 DEF AcceptedSettled
    <3> QED
      BY <2>4, <3>1, <3>2, <3>3, <3>4, OtherStep DEF InsertRequest
  <2>5. ASSUME NEW c \in Calls, NEW id \in Ids, NEW result \in Results, FriendPutInHandle(c, id, result)
        PROVE AcceptedSettled'
    BY <2>0, <2>5 DEF FriendPutInHandle, TypeOK
  <2>6. ASSUME NEW c \in Calls, FindOne(c) PROVE AcceptedSettled'
    BY <2>0, <2>6 DEF FindOne, TypeOK, Check
  <2>7. ASSUME NEW c \in Calls, FillCache(c) PROVE AcceptedSettled'
    BY <2>0, <2>7 DEF FillCache, TypeOK, Check
  <2>8. ASSUME NEW c \in Calls, Update(c) PROVE AcceptedSettled'
    <3> SUFFICES ASSUME NEW id \in DOMAIN requests', requests'[id].result = "pass" PROVE Settled(id)'
      BY DEF AcceptedSettled
    <3>1. id \in DOMAIN requests
      BY <2>8, DecidedRow
    <3>2. Continue(c, "evict") /\ calls[c] \in Call
      BY <2>8 DEF Update, TypeOK
    <3>3. /\ calls'[c].pc = "evict" /\ calls'[c].id = calls[c].id /\ calls'[c].result = calls[c].result
          /\ \A d \in Calls \ {c} : calls'[d] = calls[d]
      BY <3>2 DEF Continue, TypeOK, Call
    <3>4. CASE id = calls[c].id
      <4>1. requests'[id] = [requests[id] EXCEPT !.result = calls[c].result] /\ requests[id] \in Row
        BY <2>8, <3>1, <3>4, DecidedRow, RowsAt
      <4>2. calls[c].result = "pass"
        BY <4>1 DEF Row
      <4> QED
        BY <3>3, <3>4, <4>2 DEF Settled, Making
    <3>5. CASE id # calls[c].id
      <4>1. requests'[id] = requests[id]
        BY <2>8, <3>1, <3>5, DecidedRow
      <4>2. Settled(id)
        BY <3>1, <4>1 DEF AcceptedSettled
      <4>3. ~Making(c, id)
        BY <3>5 DEF Making
      <4> QED
        BY <2>8, <3>1, <3>3, <4>1, <4>2, <4>3, OtherStep DEF Update
    <3> QED
      BY <3>4, <3>5
  <2>9. ASSUME NEW c \in Calls, NEW ok \in BOOLEAN, Evict(c, ok) PROVE AcceptedSettled'
    <3> SUFFICES ASSUME NEW id \in DOMAIN requests', requests'[id].result = "pass" PROVE Settled(id)'
      BY DEF AcceptedSettled
    <3>1. id \in DOMAIN requests /\ Settled(id) /\ UNCHANGED <<requests, friends, broken>>
      BY <2>9 DEF AcceptedSettled, Evict
    <3>2. \A d \in Calls \ {c} : calls'[d] = calls[d]
      BY <2>9 DEF Evict, Answer, Continue, TypeOK
    <3>3. ASSUME Making(c, id) PROVE Making(c, id)'
      <4>1. Continue(c, "insert") /\ calls[c] \in Call
        BY <2>9, <3>3 DEF Evict, Making, TypeOK
      <4>2. calls'[c].pc = "insert" /\ calls'[c].id = calls[c].id /\ calls'[c].result = calls[c].result
        BY <4>1 DEF Continue, TypeOK, Call
      <4> QED
        BY <3>3, <4>2 DEF Making
    <3> QED
      BY <3>1, <3>2, <3>3, OtherStep
  <2>10. ASSUME NEW c \in Calls, InsertFriends(c) PROVE AcceptedSettled'
    <3> SUFFICES ASSUME NEW id \in DOMAIN requests', requests'[id].result = "pass" PROVE Settled(id)'
      BY DEF AcceptedSettled
    <3>1. id \in DOMAIN requests /\ Settled(id) /\ UNCHANGED <<requests, broken>> /\ requests[id] \in Row
      BY <2>10, RowsAt DEF AcceptedSettled, InsertFriends
    <3>2. \A d \in Calls \ {c} : calls'[d] = calls[d]
      BY <2>10 DEF InsertFriends, Answer, TypeOK
    <3> DEFINE row == requests[calls[c].id]
    <3>3. friends' = Befriend(row.user, row.req)
      BY <2>10 DEF InsertFriends
    <3>4. calls[c].id \in DOMAIN requests
      BY <2>10 DEF InsertFriends, TypeOK, Fits, Handles
    <3>5. row \in Row
      BY <3>4, RowsAt
    <3>6. row.user \in Users /\ row.req \in Users
      BY <3>5 DEF Row
    <3> HIDE DEF row
    <3>7. /\ friends'[<<row.user, row.req>>] > 0 /\ friends'[<<row.req, row.user>>] > 0
          /\ \A p \in Users \X Users :
               friends'[p] >= friends[p] /\ friends[p] \in Nat /\ friends'[p] \in Nat
      BY <3>3, <3>6, BefriendOnly
    <3>8. CASE id = calls[c].id
      BY <3>1, <3>7, <3>8 DEF Settled, row
    <3>9. CASE id # calls[c].id
      <4> DEFINE p == <<requests[id].user, requests[id].req>>
                 q == <<requests[id].req, requests[id].user>>
      <4>1. p \in Users \X Users /\ q \in Users \X Users
        BY <3>1 DEF Row
      <4>2. friends[p] > 0 /\ friends[q] > 0 => friends'[p] > 0 /\ friends'[q] > 0
        BY <3>7, <4>1
      <4>3. \A d \in Calls : Making(d, id) => Making(d, id)'
        BY <3>2, <3>9 DEF Making
      <4> QED
        BY <3>1, <4>2, <4>3 DEF Settled
    <3> QED
      BY <3>8, <3>9
  <2>11. ASSUME NEW c \in Calls, Fail(c) PROVE AcceptedSettled'
    <3> SUFFICES ASSUME NEW id \in DOMAIN requests', requests'[id].result = "pass" PROVE Settled(id)'
      BY DEF AcceptedSettled
    <3>1. id \in DOMAIN requests /\ Settled(id) /\ UNCHANGED <<requests, friends>>
      BY <2>11 DEF AcceptedSettled, Fail
    <3>2. \A d \in Calls \ {c} : calls'[d] = calls[d]
      BY <2>11 DEF Fail, Answer, TypeOK
    <3>3. (\A i \in broken : i \in broken') /\ (Making(c, id) => id \in broken')
      BY <2>11 DEF Fail, Making
    <3> QED
      BY <3>1, <3>2, <3>3, OtherStep
  <2>12. ASSUME NEW id \in Ids, Expire(id) PROVE AcceptedSettled'
    BY <2>12 DEF Expire, AcceptedSettled, Settled, Making
  <2>13. CASE UNCHANGED vars
    BY <2>13 DEF vars, AcceptedSettled, Settled, Making
  <2> QED
    BY <2>1, <2>2, <2>3, <2>4, <2>5, <2>6, <2>7, <2>8, <2>9, <2>10, <2>11, <2>12, <2>13
       DEF Next, Asking, Deciding
<1>3. AcceptedSettled => AcceptedAreFriends
  BY SettledIsFriends
<1> QED
  BY <1>1, <1>2, <1>3, TypeCorrect, PTL DEF Spec

-----------------------------------------------------------------------------

(* What holds of a request that is handled by one call at a time and whose  *)
(* cached copy no update has outlived: the copy is as good as the row,      *)
(* unless the call that updated it is about to delete it, and a call has    *)
(* made sure of what its next step relies on.                               *)
On(c, id) == calls[c].pc \in Handles /\ calls[c].id = id
Alone(id) == \A c, d \in Calls : On(c, id) /\ On(d, id) => c = d
Fresh(id) ==
  \/ cached[id] = "none" \/ cached[id] = requests[id].result
  \/ \E c \in Calls : On(c, id) /\ calls[c].pc = "evict"
Knows(c, id) ==
  /\ calls[c].pc = "fill" => calls[c].read = requests[id].result
  /\ calls[c].pc = "update" => requests[id].result \notin Decided
  /\ calls[c].pc = "evict" => requests[id].result = calls[c].result /\ made[id] = 0
  /\ calls[c].pc = "insert" => requests[id].result = "pass" /\ made[id] = 0
Once(id) == made[id] = 0 \/ (made[id] = 1 /\ requests[id].result = "pass")
Good(id) == Alone(id) /\ Fresh(id) /\ Once(id) /\ \A c \in Calls : On(c, id) => Knows(c, id)
New(id) == made[id] = 0 /\ cached[id] = "none"
HandleInv ==
  /\ \A id \in DOMAIN requests \ disturbed : Good(id)
  /\ \A id \in Ids \ DOMAIN requests : New(id)

(* A call that does not handle the request, or stops to, leaves it good.    *)
LEMMA Leave ==
  ASSUME TypeOK, NEW c \in Calls, NEW id \in DOMAIN requests, Good(id),
         requests'[id] = requests[id], made'[id] = made[id],
         \A d \in Calls \ {c} : calls'[d] = calls[d], ~On(c, id)',
         \/ cached'[id] = "none" \/ cached'[id] = requests[id].result
         \/ cached'[id] = cached[id] /\ ~(On(c, id) /\ calls[c].pc = "evict")
  PROVE  Good(id)'
<1>1. \A d \in Calls : On(d, id)' => d # c /\ On(d, id) /\ calls'[d] = calls[d]
  BY DEF On
<1>2. Alone(id)' /\ Once(id)'
  BY <1>1 DEF Good, Alone, Once
<1>3. Fresh(id)'
  BY DEF Good, Fresh, On
<1>4. \A d \in Calls : On(d, id)' => Knows(d, id)'
  BY <1>1 DEF Good, Knows
<1> QED
  BY <1>2, <1>3, <1>4 DEF Good

(* The only call that handles a request has nobody's knowledge to spoil.    *)
LEMMA Goes ==
  ASSUME TypeOK, NEW c \in Calls, NEW id \in DOMAIN requests, Alone(id), On(c, id),
         \A d \in Calls \ {c} : calls'[d] = calls[d], Fresh(id)', Once(id)', Knows(c, id)'
  PROVE  Good(id)'
<1>1. \A d \in Calls : On(d, id)' => d = c
  BY DEF On, Alone
<1> QED
  BY <1>1 DEF Good, Alone

(* A call reads the cached copy or the row: of a good request the same.     *)
LEMMA ReadIsTrue ==
  ASSUME TypeOK, NEW c \in Calls, NEW id \in DOMAIN requests, Good(id), On(c, id),
         calls[c].pc = "find", cached[id] # "none"
  PROVE  cached[id] = requests[id].result
BY DEF Good, Alone, Fresh

(* The check of what was read of a good request leaves it good: the call    *)
(* answers, or knows that the request is undecided.                         *)
LEMMA CheckedGood ==
  ASSUME TypeOK, NEW c \in Calls, NEW id \in DOMAIN requests, Good(id), On(c, id),
         requests'[id] = requests[id], made'[id] = made[id], Check(c, requests[id].result),
         calls[c].pc \in {"find", "fill"},
         cached'[id] = cached[id] \/ cached'[id] = requests[id].result
  PROVE  Good(id)'
<1>1. calls[c] \in Call
  BY DEF TypeOK
<1>2. \A d \in Calls \ {c} : calls'[d] = calls[d]
  BY DEF Check, TypeOK
<1>3. CASE requests[id].result \in Decided
  <2>1. calls'[c] = Answered
    BY <1>3 DEF Check, TypeOK
  <2>2. ~On(c, id)'
    BY <2>1, AnsweredCall DEF On, Handles
  <2> QED
    BY <1>2, <2>2, Leave
<1>4. CASE requests[id].result \notin Decided
  <2>1. calls'[c].pc = "update" /\ calls'[c].id = calls[c].id
    BY <1>1, <1>4 DEF Check, TypeOK, Call
  <2>2. \A d \in Calls : On(d, id) => calls[d].pc # "evict"
    BY DEF Good, Alone
  <2>3. Fresh(id)' /\ Once(id)'
    BY <2>2 DEF Good, Fresh, Once
  <2>4. Knows(c, id)' /\ Alone(id)
    BY <1>4, <2>1 DEF Knows, Good
  <2> QED
    BY <1>2, <2>3, <2>4, Goes
<1> QED
  BY <1>3, <1>4

(* Every step keeps the undisturbed requests good and the free places new.  *)
LEMMA StepGood == TypeOK /\ HandleInv /\ [Next]_vars => HandleInv'
<1> SUFFICES ASSUME TypeOK, HandleInv, [Next]_vars PROVE HandleInv'
  OBVIOUS
<1> USE DEF rows, history
(* A step of call c, when the request it does not handle stays as it is.    *)
<1>0. ASSUME NEW c \in Calls, UNCHANGED <<requests, cached, made>>, \A i \in disturbed : i \in disturbed',
             \A d \in Calls \ {c} : calls'[d] = calls[d],
             \A id \in DOMAIN requests \ disturbed' :
               On(c, id)' \/ (On(c, id) /\ calls[c].pc = "evict") => Good(id)'
      PROVE HandleInv'
  <2>1. ASSUME NEW id \in DOMAIN requests \ disturbed' PROVE Good(id)'
    BY <1>0, <2>1, Leave DEF HandleInv
  <2> QED
    BY <1>0, <2>1 DEF HandleInv, New
<1>1. ASSUME NEW c \in Calls, NEW u \in Users, NEW v \in Users, FriendPutIn(c, u, v) PROVE HandleInv'
  <2>1. calls'[c].pc = "friends"
    BY <1>1 DEF FriendPutIn, TypeOK, NoCall
  <2>2. \A id \in DOMAIN requests : ~On(c, id) /\ ~On(c, id)'
    BY <1>1, <2>1 DEF FriendPutIn, On, Handles
  <2> QED
    BY <1>0, <1>1, <2>2 DEF FriendPutIn, TypeOK
<1>2. ASSUME NEW c \in Calls, FindFriends(c) \/ FindRequest(c) PROVE HandleInv'
  <2>1. calls'[c].pc \notin Handles
    BY <1>2, AnsweredCall DEF FindFriends, FindRequest, Answer, Continue, TypeOK, Call, Handles
  <2>2. \A id \in DOMAIN requests : ~On(c, id) /\ ~On(c, id)'
    BY <1>2, <2>1 DEF FindFriends, FindRequest, On, Handles
  <2>3. \A d \in Calls \ {c} : calls'[d] = calls[d]
    BY <1>2 DEF FindFriends, FindRequest, Answer, Continue, TypeOK
  <2> QED
    BY <1>0, <1>2, <2>2, <2>3 DEF FindFriends, FindRequest
<1>4. ASSUME NEW c \in Calls, InsertRequest(c) PROVE HandleInv'
  <2>1. calls'[c] = Answered /\ \A d \in Calls \ {c} : calls'[d] = calls[d]
    BY <1>4 DEF InsertRequest, Answer, TypeOK
  <2>2. \A id : ~On(c, id) /\ ~On(c, id)'
    BY <1>4, <2>1, AnsweredCall DEF InsertRequest, On, Handles
  <2>3. UNCHANGED <<cached, made, disturbed>>
    BY <1>4 DEF InsertRequest
  <2>4. ASSUME NEW id \in DOMAIN requests \ disturbed PROVE Good(id)'
    <3>1. requests'[id] = requests[id] /\ Good(id)
      BY <1>4, <2>4, NewRow DEF HandleInv
    <3> QED
      BY <2>1, <2>2, <2>3, <2>4, <3>1, Leave
  <2>5. ASSUME NEW id \in DOMAIN requests', id \notin DOMAIN requests PROVE Good(id)'
    <3>1. id \in Ids
      <4>1. requests' \in Seq(Row) /\ Len(requests') = Len(requests) + 1 /\ Len(requests) < MaxRequests
        BY <1>4, NewRow DEF InsertRequest
      <4>2. id \in 1..Len(requests') /\ Len(requests) \in Nat
        BY <4>1, <2>5, LenProperties DEF TypeOK
      <4> QED
        BY <4>1, <4>2, MaxRequestsAssumption DEF Ids
    <3>2. New(id)
      BY <2>5, <3>1 DEF HandleInv
    <3>3. \A d \in Calls : ~On(d, id) /\ ~On(d, id)'
      BY <2>1, <2>2, <2>5 DEF TypeOK, Fits, On
    <3> QED
      BY <2>3, <3>2, <3>3 DEF Good, New, Alone, Fresh, Once
  <2> QED
    BY <1>4, <2>3, <2>4, <2>5, NewRow DEF HandleInv, New
<1>5. ASSUME NEW c \in Calls, NEW new \in Ids, NEW result \in Results, FriendPutInHandle(c, new, result)
      PROVE HandleInv'
  <2>1. /\ calls'[c].pc = "find" /\ calls'[c].id = new /\ calls[c].pc = "idle"
        /\ \A d \in Calls \ {c} : calls'[d] = calls[d]
    BY <1>5 DEF FriendPutInHandle, TypeOK, NoCall
  <2>2. ASSUME NEW id \in DOMAIN requests \ disturbed', On(c, id)' PROVE Good(id)'
    <3>1. id = new
      BY <2>1, <2>2 DEF On
    <3>2. \A d \in Calls : ~On(d, id)
      BY <1>5, <2>2, <3>1 DEF FriendPutInHandle, HandlingOf, Handling, On
    <3>3. Good(id)
      BY <1>5, <2>2 DEF FriendPutInHandle, HandleInv
    <3>4. Alone(id)'
      BY <2>1, <3>2 DEF Alone, On
    <3>5. Fresh(id)' /\ Once(id)'
      BY <1>5, <3>2, <3>3 DEF Good, Fresh, Once, FriendPutInHandle
    <3>6. \A d \in Calls : On(d, id)' => Knows(d, id)'
      BY <2>1, <3>2 DEF Knows, On
    <3> QED
      BY <3>4, <3>5, <3>6 DEF Good
  <2> QED
    BY <1>0, <1>5, <2>1, <2>2 DEF FriendPutInHandle
<1>6. ASSUME NEW c \in Calls, FindOne(c) PROVE HandleInv'
  <2>1. calls[c] \in Call /\ calls[c].id \in DOMAIN requests /\ On(c, calls[c].id)
    BY <1>6 DEF FindOne, TypeOK, Fits, Handles, On
  <2>2. \A d \in Calls \ {c} : calls'[d] = calls[d]
    BY <1>6 DEF FindOne, Check, TypeOK
  <2>3. calls'[c] = Answered \/ calls'[c].id = calls[c].id
    <3>1. CASE cached[calls[c].id] # "none"
      <4>1. Check(c, cached[calls[c].id]) /\ cached[calls[c].id] \in Results \cup {"none"}
        BY <1>6, <2>1, <3>1, RowsAt DEF FindOne, TypeOK
      <4> QED
        BY <2>1, <4>1 DEF Check, TypeOK, Call
    <3>2. CASE cached[calls[c].id] = "none"
      BY <1>6, <2>1, <3>2 DEF FindOne, TypeOK, Call
    <3> QED
      BY <3>1, <3>2
  <2>4. ASSUME NEW id \in DOMAIN requests \ disturbed', On(c, id)' PROVE Good(id)'
    <3>1. id = calls[c].id /\ Good(id) /\ On(c, id)
      BY <1>6, <2>1, <2>3, <2>4, AnsweredCall DEF On, Handles, HandleInv, FindOne
    <3>2. CASE cached[id] # "none"
      BY <1>6, <2>4, <3>1, <3>2, ReadIsTrue, CheckedGood DEF FindOne
    <3>3. CASE cached[id] = "none"
      <4>1. calls'[c].pc = "fill" /\ calls'[c].read = requests[id].result
        BY <1>6, <2>1, <3>1, <3>3 DEF FindOne, TypeOK, Call
      <4>2. Fresh(id)' /\ Once(id)' /\ Knows(c, id)' /\ Alone(id)
        BY <1>6, <3>1, <3>3, <4>1 DEF FindOne, Good, Fresh, Once, Knows
      <4> QED
        BY <2>2, <2>4, <3>1, <4>2, Goes
    <3> QED
      BY <3>2, <3>3
  <2> QED
    BY <1>0, <1>6, <2>2, <2>4 DEF FindOne
<1>7. ASSUME NEW c \in Calls, FillCache(c) PROVE HandleInv'
  <2>1. calls[c] \in Call /\ calls[c].id \in DOMAIN requests /\ On(c, calls[c].id)
    BY <1>7 DEF FillCache, TypeOK, Fits, Handles, On
  <2>2. calls[c].id \in Ids /\ \A d \in Calls \ {c} : calls'[d] = calls[d]
    BY <1>7, <2>1, RowsAt DEF FillCache, Check, TypeOK
  <2>3. UNCHANGED <<requests, made, disturbed>>
    BY <1>7 DEF FillCache
  <2>4. ASSUME NEW id \in DOMAIN requests \ disturbed PROVE Good(id)'
    <3>1. Good(id) /\ id \in Ids
      BY <2>4, RowsAt DEF HandleInv
    <3>2. CASE id = calls[c].id
      <4>1. calls[c].read = requests[id].result
        BY <1>7, <2>1, <3>1, <3>2 DEF Good, Knows, FillCache
      <4>2. cached'[id] = requests[id].result /\ Check(c, requests[id].result)
        BY <1>7, <3>1, <3>2, <4>1 DEF FillCache, TypeOK
      <4> QED
        BY <1>7, <2>1, <2>3, <2>4, <3>1, <3>2, <4>2, CheckedGood DEF FillCache
    <3>3. CASE id # calls[c].id
      <4>1. cached'[id] = cached[id]
        BY <1>7, <3>1, <3>3 DEF FillCache, TypeOK
      <4>2. calls'[c] = Answered \/ calls'[c].id = calls[c].id
        BY <1>7, <2>1 DEF FillCache, Check, TypeOK, Call
      <4>3. ~On(c, id)'
        BY <3>3, <4>2, AnsweredCall DEF On, Handles
      <4> QED
        BY <1>7, <2>2, <2>3, <2>4, <3>1, <4>1, <4>3, Leave DEF FillCache
    <3> QED
      BY <3>2, <3>3
  <2>5. ASSUME NEW id \in Ids \ DOMAIN requests PROVE New(id)'
    BY <1>7, <2>1, <2>3, <2>5 DEF HandleInv, New, FillCache, TypeOK
  <2> QED
    BY <2>3, <2>4, <2>5 DEF HandleInv
<1>8. ASSUME NEW c \in Calls, Update(c) PROVE HandleInv'
  <2>1. calls[c] \in Call /\ On(c, calls[c].id) /\ Continue(c, "evict")
    BY <1>8 DEF Update, TypeOK, Handles, On
  <2>2. /\ calls'[c].pc = "evict" /\ calls'[c].id = calls[c].id /\ calls'[c].result = calls[c].result
        /\ \A d \in Calls \ {c} : calls'[d] = calls[d]
    BY <2>1 DEF Continue, TypeOK, Call
  <2>3. UNCHANGED <<cached, made, disturbed>> /\ DOMAIN requests' = DOMAIN requests
    BY <1>8, DecidedRow DEF Update
  <2>4. ASSUME NEW id \in DOMAIN requests \ disturbed PROVE Good(id)'
    <3>1. Good(id) /\ requests[id] \in Row
      BY <2>4, RowsAt DEF HandleInv
    <3>2. CASE id = calls[c].id
      <4>1. requests'[id] = [requests[id] EXCEPT !.result = calls[c].result]
        BY <1>8, <2>4, <3>2, DecidedRow
      <4>2. requests'[id].result = calls[c].result
        BY <3>1, <4>1 DEF Row
      <4>3. made[id] = 0
        BY <1>8, <2>1, <3>1, <3>2 DEF Update, Good, Knows, Once, Decided
      <4>4. On(c, id)' /\ Fresh(id)' /\ Once(id)' /\ Knows(c, id)'
        BY <2>2, <2>3, <3>2, <4>2, <4>3 DEF On, Handles, Fresh, Once, Knows
      <4> QED
        BY <2>1, <2>2, <2>4, <3>1, <3>2, <4>4, Goes DEF Good
    <3>3. CASE id # calls[c].id
      BY <1>8, <2>2, <2>3, <2>4, <3>1, <3>3, DecidedRow, Leave DEF On
    <3> QED
      BY <3>2, <3>3
  <2> QED
    BY <2>3, <2>4 DEF HandleInv, New
<1>9. ASSUME NEW c \in Calls, NEW ok \in BOOLEAN, Evict(c, ok) PROVE HandleInv'
  <2>1. calls[c] \in Call /\ calls[c].id \in DOMAIN requests /\ On(c, calls[c].id) /\ calls[c].pc = "evict"
    BY <1>9 DEF Evict, TypeOK, Fits, Handles, On
  <2>2. calls[c].id \in Ids /\ UNCHANGED <<requests, made>> /\ \A i \in disturbed : i \in disturbed'
    BY <1>9, <2>1, RowsAt DEF Evict
  <2>3. /\ \A d \in Calls \ {c} : calls'[d] = calls[d]
        /\ \/ calls'[c] = Answered
           \/ calls'[c].pc = "insert" /\ calls'[c].id = calls[c].id /\ calls[c].result = "pass"
    BY <1>9, <2>1 DEF Evict, Answer, Continue, TypeOK, Call
  <2>4. ASSUME NEW id \in DOMAIN requests \ disturbed' PROVE Good(id)'
    <3>1. Good(id) /\ id \in Ids
      BY <2>2, <2>4, RowsAt DEF HandleInv
    <3>2. CASE id = calls[c].id
      <4>1. cached'[id] = "none"
        BY <1>9, <2>4, <3>1, <3>2 DEF Evict, TypeOK
      <4>2. CASE calls'[c] = Answered
        <5>1. ~On(c, id)'
          BY <4>2, AnsweredCall DEF On, Handles
        <5> QED
          BY <2>2, <2>3, <2>4, <3>1, <4>1, <5>1, Leave
      <4>3. CASE calls'[c].pc = "insert" /\ calls[c].result = "pass"
        <5>1. Knows(c, id)' /\ Once(id)' /\ Fresh(id)'
          BY <2>1, <2>2, <3>1, <3>2, <4>1, <4>3 DEF Good, Knows, Once, Fresh
        <5> QED
          BY <2>1, <2>3, <2>4, <3>1, <3>2, <5>1, Goes DEF Good
      <4> QED
        BY <2>3, <4>2, <4>3
    <3>3. CASE id # calls[c].id
      <4>1. cached'[id] = cached[id]
        BY <1>9, <3>1, <3>3 DEF Evict, TypeOK
      <4>2. ~On(c, id)' /\ ~On(c, id)
        BY <2>3, <3>3, AnsweredCall DEF On, Handles
      <4> QED
        BY <2>2, <2>3, <2>4, <3>1, <4>1, <4>2, Leave
    <3> QED
      BY <3>2, <3>3
  <2>5. ASSUME NEW id \in Ids \ DOMAIN requests PROVE New(id)'
    BY <1>9, <2>1, <2>2, <2>5 DEF HandleInv, New, Evict, TypeOK
  <2> QED
    BY <2>2, <2>4, <2>5 DEF HandleInv
<1>10. ASSUME NEW c \in Calls, InsertFriends(c) PROVE HandleInv'
  <2>1. calls[c].id \in DOMAIN requests /\ On(c, calls[c].id) /\ calls[c].pc = "insert"
    BY <1>10 DEF InsertFriends, TypeOK, Fits, Handles, On
  <2>2. calls[c].id \in Ids /\ UNCHANGED <<requests, cached, disturbed>>
    BY <1>10, <2>1, RowsAt DEF InsertFriends
  <2>3. calls'[c] = Answered /\ \A d \in Calls \ {c} : calls'[d] = calls[d]
    BY <1>10 DEF InsertFriends, Answer, TypeOK
  <2>4. ASSUME NEW id \in Ids, id # calls[c].id PROVE made'[id] = made[id]
    BY <1>10, <2>4 DEF InsertFriends, TypeOK
  <2>5. ASSUME NEW id \in DOMAIN requests \ disturbed PROVE Good(id)'
    <3>1. Good(id) /\ id \in Ids /\ ~On(c, id)'
      BY <2>3, <2>5, RowsAt, AnsweredCall DEF HandleInv, On, Handles
    <3>2. CASE id = calls[c].id
      <4>1. made[id] = 0 /\ requests[id].result = "pass" /\ Alone(id)
        BY <2>1, <3>1, <3>2 DEF Good, Knows
      <4>2. made'[id] = 1
        BY <1>10, <3>1, <3>2, <4>1 DEF InsertFriends, TypeOK
      <4>3. \A d \in Calls : ~On(d, id)'
        BY <2>1, <2>3, <3>1, <3>2, <4>1 DEF Alone, On
      <4>4. Fresh(id)'
        BY <2>1, <2>2, <3>1, <3>2 DEF Good, Alone, Fresh
      <4> QED
        BY <2>2, <4>1, <4>2, <4>3, <4>4 DEF Good, Alone, Once
    <3>3. CASE id # calls[c].id
      BY <2>1, <2>2, <2>3, <2>4, <2>5, <3>1, <3>3, Leave
    <3> QED
      BY <3>2, <3>3
  <2> QED
    BY <2>1, <2>2, <2>4, <2>5 DEF HandleInv, New
<1>11. ASSUME NEW c \in Calls, Fail(c) PROVE HandleInv'
  <2>1. calls'[c] = Answered /\ \A d \in Calls \ {c} : calls'[d] = calls[d]
    BY <1>11 DEF Fail, Answer, TypeOK
  <2>2. \A id : ~On(c, id)'
    BY <2>1, AnsweredCall DEF On, Handles
  <2>3. \A id \in DOMAIN requests \ disturbed' : ~(On(c, id) /\ calls[c].pc = "evict")
    BY <1>11 DEF Fail, On
  <2> QED
    BY <1>0, <1>11, <2>1, <2>2, <2>3 DEF Fail
<1>12. ASSUME NEW old \in Ids, Expire(old) PROVE HandleInv'
  <2>1. \A id \in Ids : cached'[id] = "none" \/ cached'[id] = cached[id]
    BY <1>12 DEF Expire, TypeOK
  <2>2. ASSUME NEW id \in DOMAIN requests \ disturbed PROVE Good(id)'
    BY <1>12, <2>1, <2>2, RowsAt DEF Expire, HandleInv, Good, Alone, Fresh, Once, Knows, On
  <2>3. ASSUME NEW id \in Ids \ DOMAIN requests PROVE New(id)'
    BY <1>12, <2>1, <2>3 DEF Expire, HandleInv, New
  <2> QED
    BY <1>12, <2>2, <2>3 DEF Expire, HandleInv
<1>13. CASE UNCHANGED vars
  BY <1>13 DEF vars, HandleInv, Good, New, Alone, Fresh, Once, Knows, On
<1> QED
  BY <1>1, <1>2, <1>4, <1>5, <1>6, <1>7, <1>8, <1>9, <1>10, <1>11, <1>12, <1>13
     DEF Next, Asking, Deciding

(* The invariant holds of every state.                                      *)
LEMMA HandleInvariant == Spec => []HandleInv
<1>1. Init => HandleInv
  BY DEF Init, HandleInv, New
<1> QED
  BY <1>1, StepGood, TypeCorrect, PTL DEF Spec

(* RequestDecidedOnce: a request makes its two friends at most once, and    *)
(* only while it stays accepted, unless two calls handled it at once or its *)
(* cached copy survived an update (friendputinhandlelogic.go:45-50).        *)
THEOREM RequestDecidedOnce == Spec => []DecidedOnce
<1>1. HandleInv => DecidedOnce
  BY DEF HandleInv, Good, Once, DecidedOnce
<1> QED
  BY <1>1, HandleInvariant, PTL

(* RequestDecisionIsFinal: under the same exceptions nobody changes a       *)
(* decision once it is made.                                                *)
THEOREM RequestDecisionIsFinal == Spec => DecisionIsFinal
<1> DEFINE Final == \A id \in DOMAIN requests \ disturbed :
                      requests[id].result \in Decided => requests'[id] = requests[id]
<1>1. TypeOK /\ HandleInv /\ [Next]_vars => [Final]_vars
  <2> SUFFICES ASSUME TypeOK, HandleInv, Next, NEW id \in DOMAIN requests \ disturbed,
                      requests[id].result \in Decided
               PROVE requests'[id] = requests[id]
    OBVIOUS
  <2>1. CASE \E c \in Calls : InsertRequest(c)
    BY <2>1, NewRow
  <2>2. CASE \E c \in Calls : Update(c)
    <3>1. PICK c \in Calls : Update(c)
      BY <2>2
    <3>2. Good(id) /\ (On(c, id) => Knows(c, id))
      BY DEF HandleInv, Good
    <3>3. calls[c].pc = "update"
      BY <3>1 DEF Update
    <3>4. id # calls[c].id
      BY <3>2, <3>3 DEF On, Knows, Handles
    <3> QED
      BY <3>1, <3>4, DecidedRow
  <2>3. CASE UNCHANGED requests
    BY <2>3
  <2> QED
    BY <2>1, <2>2, <2>3 DEF Next, Asking, Deciding, rows, FriendPutIn, FindFriends, FindRequest,
       FriendPutInHandle, FindOne, FillCache, Evict, InsertFriends, Fail, Expire
<1> QED
  BY <1>1, HandleInvariant, TypeCorrect, PTL DEF Spec, DecisionIsFinal

-----------------------------------------------------------------------------
(***************************************************************************)
(* Groups as MCSocial has it.  Its proofs, in Groups_proof, are about the  *)
(* same formulas: SameGroups.                                              *)
(***************************************************************************)
P == INSTANCE Groups_proof WITH requests <- groupRequests, cached <- groupCached,
       calls <- groupCalls, disturbed <- groupDisturbed, broken <- groupBroken,
       Users <- Members, Calls <- FewCalls

LEMMA SameGroups ==
  /\ G!Init <=> P!Init
  /\ G!Next <=> P!Next
  /\ G!JoinedOnce <=> P!JoinedOnce
  /\ G!RoomsAreComplete <=> P!RoomsAreComplete
<1> USE DEF G!tables, P!tables, G!history, P!history, G!NoCall, P!NoCall, G!Answered, P!Answered,
            G!Seat, P!Seat, G!Results, P!Results, G!Decided, P!Decided, G!Ids, P!Ids,
            G!Continue, P!Continue, G!Answer, P!Answer, G!Active, P!Active,
            G!Disturb, P!Disturb, G!IsMember, P!IsMember
<1>1. G!Init <=> P!Init
  BY DEF G!Init, P!Init
<1>2. G!Next <=> P!Next
  <2>1. \A c : G!Creating(c) <=> P!Creating(c)
    BY DEF G!Creating, P!Creating, G!GroupCreate, P!GroupCreate, G!InsertGroup, P!InsertGroup,
           G!InsertOwner, P!InsertOwner, G!CreateGroupConversation, P!CreateGroupConversation
  <2>2. \A c, g, u, by : G!GroupPutIn(c, g, u, by) <=> P!GroupPutIn(c, g, u, by)
    BY DEF G!GroupPutIn, P!GroupPutIn
  <2>3. \A c : /\ G!FindMember(c) <=> P!FindMember(c)
               /\ G!FindRequest(c) <=> P!FindRequest(c)
               /\ G!InsertMember(c) <=> P!InsertMember(c)
    BY DEF G!FindMember, P!FindMember, G!FindRequest, P!FindRequest, G!InsertMember, P!InsertMember
  <2>4. \A c : G!Verify(c) <=> P!Verify(c)
    BY DEF G!Verify, P!Verify, G!Admit, P!Admit
  <2>5. \A c, ok : G!InsertRequest(c, ok) <=> P!InsertRequest(c, ok)
    BY DEF G!InsertRequest, P!InsertRequest
  <2>6. \A c, id, result : G!GroupPutInHandle(c, id, result) <=> P!GroupPutInHandle(c, id, result)
    BY DEF G!GroupPutInHandle, P!GroupPutInHandle
  <2>7. \A c : (G!FindOne(c) <=> P!FindOne(c)) /\ (G!Update(c) <=> P!Update(c))
    BY DEF G!FindOne, P!FindOne, G!Update, P!Update
  <2>8. \A c, ok : G!Evict(c, ok) <=> P!Evict(c, ok)
    BY DEF G!Evict, P!Evict
  <2>9. \A c : G!Fail(c) <=> P!Fail(c)
    BY DEF G!Fail, P!Fail
  <2>10. \A c : G!Joining(c) <=> P!Joining(c)
    BY <2>2, <2>3, <2>4, <2>5 DEF G!Joining, P!Joining
  <2>11. \A c : G!Deciding(c) <=> P!Deciding(c)
    BY <2>6, <2>7, <2>8 DEF G!Deciding, P!Deciding
  <2> QED
    BY <2>1, <2>9, <2>10, <2>11 DEF G!Next, P!Next
<1>3. G!JoinedOnce <=> P!JoinedOnce
  BY DEF G!JoinedOnce, P!JoinedOnce
<1>4. G!RoomsAreComplete <=> P!RoomsAreComplete
  BY DEF G!RoomsAreComplete, P!RoomsAreComplete
<1> QED
  BY <1>1, <1>2, <1>3, <1>4

LEMMA GroupsSetting == P!Setting
BY NobodyAssumption, VerifiedAssumption, MaxRequestsAssumption DEF P!Setting

LEMMA GroupsOfSocial == SocialSpec => P!Spec
<1>1. SocialInit => P!Init
  BY SameGroups DEF SocialInit
<1>2. [SocialNext]_<<part, vars, groupVars, userVars, gatewayVars>> => [P!Next]_(P!vars)
  BY SameGroups DEF SocialNext, groupVars, P!vars, P!tables, P!history
<1> QED
  BY <1>1, <1>2, PTL DEF SocialSpec, P!Spec

(* SocialMembersJoinOnce: whatever the order of applications, invitations   *)
(* and decisions, nobody is a member of a group twice, unless calls about   *)
(* the same user and group overlapped or a cached request was stale.        *)
THEOREM SocialMembersJoinOnce == SocialSpec => []JoinedOnce
<1>1. P!JoinedOnce => JoinedOnce
  BY SameGroups DEF JoinedOnce
<1> QED
  BY <1>1, GroupsSetting, GroupsOfSocial, P!MembersJoinOnce, PTL

(* SocialRoomsAreComplete: a group that has its conversation has its        *)
(* creator for a member, and an accepted request has made one, unless the   *)
(* call that accepted it is on its way or failed before the insert.         *)
THEOREM SocialRoomsAreComplete == SocialSpec => []RoomsAreComplete
<1>1. P!RoomsAreComplete => RoomsAreComplete
  BY SameGroups DEF RoomsAreComplete
<1> QED
  BY <1>1, GroupsSetting, GroupsOfSocial, P!GroupsAreComplete, PTL

-----------------------------------------------------------------------------
(***************************************************************************)
(* Users, for any phones and calls.                                        *)
(***************************************************************************)

UserCall == [pc : {"idle", "find", "fill", "insert", "password", "done"},
             kind : {"none", "register", "login", "find"}, phone : Phones \cup {"none"},
             read : {"none", "absent", "present"}, known : BOOLEAN,
             answer : {"none", "absent", "present", "registered", "in", "wrong", "error"}]
Busy(x) == x.pc \notin {"idle", "done"}

(* A call under way has a phone and has read what it is to act on; only a   *)
(* registration comes to the insert.                                        *)
UserFits(x) ==
  /\ Busy(x) => x.phone \in Phones /\ x.kind # "none"
  /\ x.pc = "fill" => x.read # "none"
  /\ x.pc = "insert" => x.kind = "register"

UserTypes ==
  /\ users \in [Phones -> Nat]
  /\ userCached \in [Phones -> {"none", "absent", "present"}]
  /\ userCalls \in [FewCalls -> UserCall]
  /\ \A c \in FewCalls : UserFits(userCalls[c])

(* What a registration rests on: that it found no user with the phone, and  *)
(* nobody else registers it.                                                *)
FoundNobody(x) == x.pc = "insert" \/ (x.pc = "fill" /\ x.read = "absent")
Registers(x, p) == Busy(x) /\ x.kind = "register" /\ x.phone = p
Unique(p) ==
  /\ users[p] <= 1
  /\ \A c, d \in FewCalls : Registers(userCalls[c], p) /\ Registers(userCalls[d], p) => c = d
  /\ \A c \in FewCalls : Registers(userCalls[c], p) /\ FoundNobody(userCalls[c]) => users[p] = 0

UserInv == UserTypes /\ \A p \in Phones \ userDisturbed : Unique(p)

(* A call goes on: as a registration of a phone only if it was one, and     *)
(* found nobody only if there is nobody.                                    *)
LEMMA UserMoves ==
  ASSUME UserTypes, NEW c \in FewCalls, NEW x, userCalls' = [userCalls EXCEPT ![c] = x],
         NEW p \in Phones, Unique(p), users'[p] = users[p],
         Registers(x, p) => /\ Registers(userCalls[c], p)
                            /\ FoundNobody(x) => FoundNobody(userCalls[c]) \/ users[p] = 0
  PROVE  Unique(p)'
<1>1. userCalls'[c] = x /\ \A d \in FewCalls : d # c => userCalls'[d] = userCalls[d]
  BY DEF UserTypes
<1>2. \A d \in FewCalls : Registers(userCalls'[d], p) => Registers(userCalls[d], p)
  BY <1>1
<1>3. \A d \in FewCalls : Registers(userCalls'[d], p) /\ FoundNobody(userCalls'[d]) => users[p] = 0
  BY <1>1, <1>2 DEF Unique
<1> QED
  BY <1>2, <1>3 DEF Unique

(* What Check makes of a call and of what was read of its phone.            *)
LEMMA Checked ==
  ASSUME NEW x \in UserCall, UserFits(x), Busy(x), x.pc # "insert", NEW read \in {"absent", "present"}
  PROVE  /\ U!Check(x, read) \in UserCall /\ UserFits(U!Check(x, read))
         /\ \A p : Registers(U!Check(x, read), p) => Registers(x, p) /\ read = "absent"
BY DEF U!Check, U!Answered, UserCall, UserFits, Busy, Registers

(* A call goes on, and nothing else changes that the invariant looks at.    *)
LEMMA UserStays ==
  ASSUME UserInv, NEW c \in FewCalls, NEW x \in UserCall, UserFits(x),
         userCalls' = [userCalls EXCEPT ![c] = x], users' = users,
         userCached' \in [Phones -> {"none", "absent", "present"}],
         userDisturbed \subseteq userDisturbed',
         \A p \in Phones \ userDisturbed' : Registers(x, p) =>
            /\ Registers(userCalls[c], p)
            /\ FoundNobody(x) => FoundNobody(userCalls[c]) \/ users[p] = 0
  PROVE  UserInv'
<1>1. UserTypes'
  BY DEF UserInv, UserTypes
<1>2. ASSUME NEW p \in Phones \ userDisturbed' PROVE Unique(p)'
  <2>1. UserTypes /\ p \in Phones /\ Unique(p)
    BY <1>2 DEF UserInv
  <2> QED
    BY <1>2, <2>1, UserMoves
<1> QED
  BY <1>1, <1>2 DEF UserInv

LEMMA UserStep ==
  ASSUME UserInv, U!Next
  PROVE  UserInv'
<1> USE DEF UserInv, UserTypes
<1>1. ASSUME NEW c \in FewCalls, NEW p \in Phones, NEW kind \in {"register", "login", "find"},
             U!Begin(c, kind, p), userDisturbed \subseteq userDisturbed',
             kind = "register" => p \in userDisturbed' \/ U!Registering(p) = {}
      PROVE  UserInv'
  <2> DEFINE x == [U!NoCall EXCEPT !.pc = "find", !.kind = kind, !.phone = p, !.known = users[p] > 0]
  <2>1. /\ userCalls[c].pc = "idle" /\ userCalls' = [userCalls EXCEPT ![c] = x]
        /\ UNCHANGED <<users, userCached, online>>
    BY <1>1 DEF U!Begin
  <2>2. x \in UserCall /\ x.pc = "find" /\ x.kind = kind /\ x.phone = p
    <3>1. U!NoCall \in UserCall
      BY DEF U!NoCall, UserCall
    <3>2. ASSUME NEW y \in UserCall, NEW k \in BOOLEAN
          PROVE  LET z == [y EXCEPT !.pc = "find", !.kind = kind, !.phone = p, !.known = k]
                 IN z \in UserCall /\ z.pc = "find" /\ z.kind = kind /\ z.phone = p
      BY DEF UserCall
    <3>3. (users[p] > 0) \in BOOLEAN
      OBVIOUS
    <3> QED
      BY <3>1, <3>2, <3>3
  <2>3. UserFits(x) /\ ~FoundNobody(x) /\ \A q : Registers(x, q) => q = p /\ kind = "register"
    BY <2>2 DEF UserFits, Busy, FoundNobody, Registers
  <2> HIDE DEF x
  <2>4. CASE kind # "register" \/ p \in userDisturbed'
    <3>1. \A q \in Phones \ userDisturbed' : ~Registers(x, q)
      BY <2>3, <2>4
    <3> QED
      BY <1>1, <2>1, <2>2, <2>3, <3>1, UserStays
  <2>5. CASE kind = "register" /\ p \notin userDisturbed'
    <3>1. UserTypes'
      BY <2>1, <2>2, <2>3
    <3>2. ASSUME NEW q \in Phones \ userDisturbed', q # p PROVE Unique(q)'
      <4>1. UserTypes /\ Unique(q) /\ users'[q] = users[q] /\ ~Registers(x, q)
        BY <1>1, <2>1, <2>3, <3>2
      <4> QED
        BY <2>1, <3>2, <4>1, UserMoves
    <3>3. \A d \in FewCalls : ~Registers(userCalls[d], p)
      BY <1>1, <2>5 DEF U!Registering, U!Active, Registers, Busy
    <3>4. Unique(p) /\ p \notin userDisturbed
      BY <1>1, <2>5
    <3>5. Unique(p)'
      BY <2>1, <2>2, <2>3, <3>3, <3>4 DEF Unique
    <3> QED
      BY <3>1, <3>2, <3>5
  <2> QED
    BY <2>4, <2>5
<1>2. ASSUME NEW c \in FewCalls, U!FindByPhone(c) PROVE UserInv'
  <2> DEFINE p == userCalls[c].phone
             y == userCalls[c]
             z == [y EXCEPT !.pc = "fill", !.read = U!InTable(p)]
  <2>1. y \in UserCall /\ UserFits(y) /\ y.pc = "find" /\ p \in Phones /\ Busy(y) /\ UNCHANGED <<users, userCached, online>>
        /\ userDisturbed \subseteq userDisturbed'
    BY <1>2 DEF U!FindByPhone, UserFits, Busy
  <2>2. CASE userCached[p] # "none"
    <3> DEFINE x == U!Check(y, userCached[p])
    <3>1. userCalls' = [userCalls EXCEPT ![c] = x]
      BY <1>2, <2>2 DEF U!FindByPhone
    <3>2. userCached[p] \in {"absent", "present"}
      BY <2>1, <2>2
    <3>3. x \in UserCall /\ UserFits(x) /\ \A q : Registers(x, q) => Registers(y, q) /\ userCached[p] = "absent"
      BY <2>1, <3>2, Checked
    <3>4. \A q \in Phones \ userDisturbed' : Registers(x, q) => Registers(y, q) /\ users[q] = 0
      BY <1>2, <2>1, <3>3 DEF U!FindByPhone, Registers
    <3> HIDE DEF x
    <3> QED
      BY <2>1, <3>1, <3>3, <3>4, UserStays
  <2>3. CASE userCached[p] = "none"
    <3>1. userCalls' = [userCalls EXCEPT ![c] = z]
      BY <1>2, <2>3 DEF U!FindByPhone
    <3>2. z \in UserCall /\ UserFits(z) /\ z.phone = p /\ z.kind = y.kind /\ z.pc = "fill" /\ z.read = U!InTable(p)
      BY <2>1 DEF U!InTable, UserCall, UserFits, Busy
    <3>3. \A q \in Phones : Registers(z, q) => Registers(y, q) /\ (FoundNobody(z) => users[q] = 0)
      BY <2>1, <3>2 DEF Registers, FoundNobody, U!InTable, Busy
    <3> QED
      BY <2>1, <3>1, <3>2, <3>3, UserStays
  <2> QED
    BY <2>2, <2>3
<1>3. ASSUME NEW c \in FewCalls, U!FillCache(c) PROVE UserInv'
  <2> DEFINE p == userCalls[c].phone
             y == userCalls[c]
             x == U!Check(y, y.read)
  <2>1. /\ y \in UserCall /\ UserFits(y) /\ y.pc = "fill" /\ p \in Phones /\ Busy(y)
        /\ y.read \in {"absent", "present"} /\ UNCHANGED <<users, userDisturbed>>
        /\ userCalls' = [userCalls EXCEPT ![c] = x]
        /\ userCached' \in [Phones -> {"none", "absent", "present"}]
    BY <1>3 DEF U!FillCache, UserFits, Busy, UserCall
  <2>2. x \in UserCall /\ UserFits(x) /\ \A q : Registers(x, q) => Registers(y, q) /\ y.read = "absent"
    BY <2>1, Checked
  <2>3. \A q : Registers(x, q) => FoundNobody(y)
    BY <2>1, <2>2 DEF FoundNobody
  <2> QED
    BY <2>1, <2>2, <2>3, UserStays
<1>4. ASSUME NEW c \in FewCalls, U!Insert(c) PROVE UserInv'
  <2> DEFINE p == userCalls[c].phone
             y == userCalls[c]
             x == U!Answered(y, "registered")
  <2>1. /\ y \in UserCall /\ UserFits(y) /\ y.pc = "insert" /\ p \in Phones /\ y.kind = "register" /\ Busy(y)
        /\ UNCHANGED <<userCached, userDisturbed>>
        /\ userCalls' = [userCalls EXCEPT ![c] = x]
        /\ users' = [users EXCEPT ![p] = users[p] + 1]
    BY <1>4 DEF U!Insert, U!Answer, UserFits, Busy
  <2>2. x \in UserCall /\ UserFits(x) /\ ~Busy(x)
    BY <2>1 DEF U!Answered, UserCall, UserFits, Busy
  <2> HIDE DEF x
  <2>3. UserTypes'
    BY <2>1, <2>2
  <2>4. ASSUME NEW q \in Phones \ userDisturbed' PROVE Unique(q)'
    <3>1. Unique(q) /\ UserTypes /\ ~Registers(x, q)
      BY <2>1, <2>2, <2>4 DEF Registers
    <3>2. CASE q # p
      <4>1. users'[q] = users[q]
        BY <2>1, <2>4, <3>2
      <4> QED
        BY <2>1, <2>4, <3>1, <4>1, UserMoves
    <3>3. CASE q = p
      <4>1. Registers(y, q) /\ FoundNobody(y)
        BY <2>1, <3>3 DEF Registers, FoundNobody
      <4>2. users[q] = 0 /\ users'[q] = 1
        BY <2>1, <3>1, <3>3, <4>1 DEF Unique
      <4>3. \A d \in FewCalls : ~Registers(userCalls'[d], q)
        BY <2>1, <3>1, <4>1 DEF Unique
      <4> QED
        BY <4>2, <4>3 DEF Unique
    <3> QED
      BY <3>2, <3>3
  <2> QED
    BY <2>3, <2>4
<1>5. ASSUME NEW c \in FewCalls, NEW a \in {"in", "wrong", "error"}, U!Active(c), U!Answer(c, a),
             UNCHANGED <<users, userCached, userDisturbed>>
      PROVE  UserInv'
  <2> DEFINE x == U!Answered(userCalls[c], a)
  <2>1. userCalls' = [userCalls EXCEPT ![c] = x]
    BY <1>5 DEF U!Answer
  <2>2. x \in UserCall /\ UserFits(x) /\ \A q : ~Registers(x, q)
    BY <1>5 DEF U!Answered, UserCall, UserFits, Busy, Registers
  <2> QED
    BY <1>5, <2>1, <2>2, UserStays
<1>6. ASSUME NEW p \in Phones, U!Expire(p) PROVE UserInv'
  BY <1>6 DEF U!Expire, Unique
<1>7. ASSUME NEW c \in FewCalls, NEW p \in Phones, U!Register(c, p) \/ U!Login(c, p) \/ U!FindUser(c, p)
      PROVE  UserInv'
  BY <1>1, <1>7 DEF U!Register, U!Login, U!FindUser
<1>8. ASSUME NEW c \in FewCalls, NEW right \in BOOLEAN, NEW entered \in BOOLEAN,
             U!Password(c, right, entered) \/ U!Fail(c)
      PROVE  UserInv'
  BY <1>5, <1>8 DEF U!Password, U!Fail, U!Active
<1> QED
  BY <1>2, <1>3, <1>4, <1>6, <1>7, <1>8 DEF U!Next

(* PhonesHaveOneUser: Register looks for a phone before it inserts, and no  *)
(* unique key backs it up; still a phone has one user, unless two           *)
(* registrations of it overlapped or one was answered by a stale "absent".  *)
THEOREM PhonesHaveOneUser == SocialSpec => []OneUserPerPhone
<1>1. SocialInit => UserInv
  BY DEF SocialInit, U!Init, U!NoCall, UserInv, UserTypes, UserCall, UserFits, Unique, Busy, Registers
<1>2. UserInv /\ [SocialNext]_<<part, vars, groupVars, userVars, gatewayVars>> => UserInv'
  <2>1. CASE U!Next
    BY <2>1, UserStep
  <2>2. CASE UNCHANGED userVars
    BY <2>2 DEF userVars, UserInv, UserTypes, Unique
  <2> QED
    BY <2>1, <2>2 DEF SocialNext
<1>3. UserInv => OneUserPerPhone
  BY DEF UserInv, Unique, OneUserPerPhone, U!OneUserPerPhone
<1> QED
  BY <1>1, <1>2, <1>3, PTL DEF SocialSpec

-----------------------------------------------------------------------------
(* The HTTP services.  Of a request: what came back for what its logic      *)
(* asked, and that a logic goes on only from a success, unless the answer   *)
(* is one of the three that Excused lets go.                                *)
HttpFields == {"pc", "ep", "uid", "body", "id", "got", "err", "status", "msg"}

(* The errors an answer can carry: each has a status that is not 200.       *)
Errors == {"Unknown", "DeadlineExceeded", "invalid", "unmarshal", "missing", "redis", "copy"}

(* The ith answer is a success or excused; and the places at which a logic  *)
(* goes on from a failure are those of the excused questions.               *)
Granted(h, i) == h.got[i].ok \/ <<h.ep, h.got[i].method>> \in W!Excused
Awaited(ep, n, method) ==
  <<ep, n>> \in {<<"FriendList", 2>>, <<"Login", 2>>, <<"GroupPutInHandle", 1>>}
    => <<ep, method>> \in W!Excused

Faithful(h) ==
  /\ DOMAIN h = HttpFields
  /\ \E S : h.got \in Seq(S)
  /\ \A i \in 1..Len(h.got) : /\ Awaited(h.ep, i, h.got[i].method)
                              /\ h.got[i].ok \/ h.got[i].out \in Errors
  /\ h.pc \in {"idle", "parse", "done"} => h.got = <<>>
  /\ h.pc = "error" => h.err \in Errors
  /\ h.pc = "logic" => \A i \in 1..Len(h.got) : i < Len(h.got) => Granted(h, i)
  /\ h.pc \in {"ok", "set", "setnew"} \/ h.status = 200 => \A i \in 1..Len(h.got) : Granted(h, i)
  /\ h.status = 200 => h.pc \in {"cleanup", "cleanupbyid"}
  /\ h.pc \in {"set", "setnew"} => h.ep = "Detail"

(* What the logic of a request does: it moves this request only, and leaves *)
(* it under its endpoint and id.                                            *)
Moves(r) ==
  /\ Faithful(http'[r])
  /\ DOMAIN http' = DOMAIN http
  /\ \A q \in Requests \ {r} : http'[q] = http[q]
  /\ http'[r].ep = http[r].ep /\ http'[r].id = http[r].id
  /\ http'[r].pc \in {"logic", "ok", "error", "set", "cleanup"}
  /\ http'[r].pc = "ok" => http[r].ep # "Detail"
  /\ http'[r].status # 200

(* The answer is the next thing the logic knows.                            *)
LEMMA HeardMoves ==
  ASSUME NEW r \in Requests, DOMAIN http = Requests, Faithful(http[r]),
         NEW n \in Nat, http[r].pc = "logic", Len(http[r].got) = n,
         n = 0 \/ Granted(http[r], n), NEW method, Awaited(http[r].ep, n + 1, method),
         NEW m, NEW ok \in BOOLEAN, NEW out, ok = TRUE \/ out \in Errors,
         http' = [http EXCEPT ![r].got = Append(@, [method |-> method, in |-> m, ok |-> ok, out |-> out])]
  PROVE  Moves(r)
<1> DEFINE rpc == [method |-> method, in |-> m, ok |-> ok, out |-> out]
           g == http[r].got
           h == [http[r] EXCEPT !.got = Append(g, rpc)]
<1>1. rpc.method = method /\ (rpc.ok = TRUE \/ rpc.out \in Errors)
  OBVIOUS
<1> HIDE DEF rpc
<1>2. PICK S : g \in Seq(S)
  BY DEF Faithful
<1>3. g \in Seq(S \cup {rpc}) /\ rpc \in S \cup {rpc}
  BY <1>2
<1>4. /\ Append(g, rpc) \in Seq(S \cup {rpc}) /\ Len(Append(g, rpc)) = n + 1
      /\ \A i \in 1..n : Append(g, rpc)[i] = g[i]
      /\ Append(g, rpc)[n + 1] = rpc
  BY <1>3, AppendProperties
<1>5. /\ DOMAIN h = HttpFields /\ h.got = Append(g, rpc)
      /\ h.pc = "logic" /\ h.ep = http[r].ep /\ h.id = http[r].id /\ h.status = http[r].status
  BY DEF Faithful, HttpFields
<1>6. http' = [http EXCEPT ![r] = h]
  BY DEF rpc
<1> HIDE DEF h
<1>7. Faithful(h)
  <2>1. \A i \in 1..(n + 1) : i \in 1..n \/ i = n + 1
    OBVIOUS
  <2>2. \A i \in 1..n : /\ Awaited(h.ep, i, h.got[i].method)
                        /\ h.got[i].ok \/ h.got[i].out \in Errors
    BY <1>4, <1>5 DEF Faithful
  <2>3. \A i \in 1..n : Granted(h, i)
    <3>1. \A i \in 1..n : i < n \/ i = n
      OBVIOUS
    <3>2. \A i \in 1..n : Granted(http[r], i)
      BY <3>1 DEF Faithful
    <3> QED
      BY <1>4, <1>5, <3>2 DEF Granted
  <2>4. h.status # 200
    BY <1>5 DEF Faithful
  <2> QED
    BY <1>1, <1>4, <1>5, <2>1, <2>2, <2>3, <2>4 DEF Faithful
<1>8. h.status # 200
  BY <1>5 DEF Faithful
<1> QED
  BY <1>5, <1>6, <1>7, <1>8 DEF Moves

(* An rpc or a command of Redis answers, or fails with an error.            *)
LEMMA AskMoves ==
  ASSUME NEW r \in Requests, DOMAIN http = Requests, Faithful(http[r]),
         NEW n \in Nat, n = 0 \/ Granted(http[r], n), NEW method, Awaited(http[r].ep, n + 1, method)
  PROVE  /\ \A m : W!Ask(r, n, method, m) => Moves(r)
         /\ W!AskRedis(r, n, method) => Moves(r)
BY HeardMoves DEF W!Ask, W!AskRedis, W!Heard, W!Step, W!Got, W!Failures, Errors
(* A return leaves what was asked for, a nil dereference nothing.           *)
LEMMA LeaveMoves ==
  ASSUME NEW r \in Requests, DOMAIN http = Requests, Faithful(http[r]), http[r].pc = "logic"
  PROVE  /\ \A e \in Errors : W!ReturnErr(r, e) => Moves(r)
         /\ W!Panic(r) => Moves(r)
         /\ \A n \in Nat : /\ W!Step(r, n)
                           /\ n = 0 \/ Granted(http[r], n)
                           /\ \/ W!ReturnOk(r) /\ http[r].ep # "Detail"
                              \/ W!GoTo(r, "set") /\ http[r].ep = "Detail"
                           => Moves(r)
<1> USE DEF Moves, HttpFields
<1>1. ASSUME NEW e \in Errors, W!ReturnErr(r, e) PROVE Moves(r)
  BY <1>1 DEF W!ReturnErr, Faithful
<1>2. ASSUME W!Panic(r) PROVE Moves(r)
  BY <1>2 DEF W!Panic, Faithful
<1>3. ASSUME NEW n \in Nat, W!Step(r, n), n = 0 \/ Granted(http[r], n),
             NEW pc \in {"ok", "set"}, W!GoTo(r, pc), pc = "set" <=> http[r].ep = "Detail"
      PROVE  Moves(r)
  <2> DEFINE h == [http[r] EXCEPT !.pc = pc]
  <2>1. http' = [http EXCEPT ![r] = h]
    BY <1>3 DEF W!GoTo
  <2>2. /\ DOMAIN h = HttpFields /\ h.pc = pc
        /\ h.got = http[r].got /\ h.ep = http[r].ep /\ h.id = http[r].id /\ h.status = http[r].status
    BY DEF Faithful
  <2> HIDE DEF h
  <2>3. Len(http[r].got) = n
    BY <1>3 DEF W!Step, W!Got
  <2>4. \A i \in 1..n : i < n \/ i = n
    OBVIOUS
  <2>5. \A i \in 1..n : Granted(http[r], i)
    BY <1>3, <2>3, <2>4 DEF Faithful
  <2>6. Faithful(h) /\ h.status # 200
    BY <1>3, <2>2, <2>3, <2>5 DEF Faithful, Granted
  <2> QED
    BY <1>3, <2>1, <2>2, <2>6
<1> QED
  BY <1>1, <1>2, <1>3 DEF W!ReturnOk

(* return resp, err *)
LEMMA ReturnMoves ==
  ASSUME NEW r \in Requests, DOMAIN http = Requests, Faithful(http[r]), http[r].ep # "Detail",
         NEW n \in Nat \ {0}, W!Return(r, n), http[r].pc = "logic"
  PROVE  Moves(r)
<1>1. W!Step(r, n) /\ Len(http[r].got) = n
  BY DEF W!Return, W!Step, W!Got
<1>2. W!Failed(r, n) => W!Out(r, n) \in Errors
  BY <1>1 DEF W!Failed, W!Out, W!Got, Faithful
<1>3. ~W!Failed(r, n) => Granted(http[r], n)
  BY DEF W!Failed, W!Got, Granted
<1> QED
  BY <1>1, <1>2, <1>3, LeaveMoves DEF W!Return

(* What is known of the last answer when a logic goes on.                   *)
LEMMA LastAnswer ==
  ASSUME NEW r \in Requests, Faithful(http[r]), NEW n \in Nat \ {0}, W!Step(r, n)
  PROVE  /\ W!Failed(r, n) => W!Out(r, n) \in Errors
         /\ ~W!Failed(r, n) => Granted(http[r], n)
         /\ <<http[r].ep, n>> \in {<<"FriendList", 2>>, <<"Login", 2>>, <<"GroupPutInHandle", 1>>}
              => Granted(http[r], n)
BY DEF W!Step, W!Failed, W!Out, W!Got, Granted, Faithful, Awaited

(* Three answers may be missing from what was granted; for an endpoint that *)
(* waits for none of them, a logic goes on only from a success.             *)
LEMMA NothingAwaited ==
  ASSUME NEW ep, ep \notin {"FriendList", "Login", "GroupPutInHandle"}
  PROVE  \A n, method : Awaited(ep, n, method)
BY DEF Awaited

LEMMA PlainMoves ==
  ASSUME NEW r \in Requests, DOMAIN http = Requests, Faithful(http[r]), http[r].pc = "logic",
         http[r].ep \notin {"FriendList", "Login", "GroupPutInHandle", "Detail"}
  PROVE  /\ \A method, m : W!Ask(r, 0, method, m) => Moves(r)
         /\ \A n \in Nat \ {0} : \A method, m :
              ~W!Failed(r, n) /\ (W!Ask(r, n, method, m) \/ W!AskRedis(r, n, method)) => Moves(r)
         /\ \A n \in Nat \ {0} : W!Step(r, n) =>
              /\ W!Failed(r, n) /\ W!ReturnErr(r, W!Out(r, n)) => Moves(r)
              /\ ~W!Failed(r, n) /\ W!ReturnOk(r) => Moves(r)
         /\ \A n \in Nat \ {0} : W!Return(r, n) => Moves(r)
         /\ W!Panic(r) => Moves(r)
<1>1. \A n \in Nat \ {0} : ~W!Failed(r, n) => Granted(http[r], n)
  BY DEF W!Failed, W!Got, Granted
<1>2. ASSUME NEW n \in Nat, NEW method, NEW m, n = 0 \/ ~W!Failed(r, n),
             W!Ask(r, n, method, m) \/ W!AskRedis(r, n, method)
      PROVE  Moves(r)
  BY <1>1, <1>2, NothingAwaited, AskMoves
<1>3. ASSUME NEW n \in Nat \ {0}, W!Step(r, n), W!Failed(r, n), W!ReturnErr(r, W!Out(r, n))
      PROVE  Moves(r)
  BY <1>3, LastAnswer, LeaveMoves
<1>4. ASSUME NEW n \in Nat \ {0}, W!Step(r, n), ~W!Failed(r, n), W!ReturnOk(r)
      PROVE  Moves(r)
  BY <1>1, <1>4, LeaveMoves
<1> QED
  BY <1>2, <1>3, <1>4, ReturnMoves, LeaveMoves

(* The endpoints that stop at the first failure, one by one.                *)
LEMMA PlainLogic ==
  ASSUME NEW r \in Requests, DOMAIN http = Requests, Faithful(http[r]), http[r].pc = "logic",
         http[r].ep \notin {"FriendList", "Login", "GroupPutInHandle", "Detail"}, W!Logic(r)
  PROVE  Moves(r)
<1>1. ASSUME W!FriendPutIn(r) PROVE Moves(r)
  BY <1>1, PlainMoves DEF W!FriendPutIn
<1>2. ASSUME W!FriendPutInHandle(r) PROVE Moves(r)
  BY <1>2, PlainMoves DEF W!FriendPutInHandle
<1>3. ASSUME W!FriendPutInList(r) PROVE Moves(r)
  BY <1>3, PlainMoves DEF W!FriendPutInList
<1>4. ASSUME W!FriendsOnline(r) PROVE Moves(r)
  BY <1>4, PlainMoves DEF W!FriendsOnline
<1>5. ASSUME W!CreateGroup(r) PROVE Moves(r)
  BY <1>5, PlainMoves DEF W!CreateGroup
<1>6. ASSUME W!GroupPutIn(r) PROVE Moves(r)
  BY <1>6, PlainMoves DEF W!GroupPutIn
<1>7. ASSUME W!GroupPutInList(r) PROVE Moves(r)
  BY <1>7, PlainMoves DEF W!GroupPutInList
<1>8. ASSUME W!GroupUserList(r) PROVE Moves(r)
  BY <1>8, PlainMoves DEF W!GroupUserList
<1>9. ASSUME W!GroupUserOnline(r) PROVE Moves(r)
  BY <1>9, PlainMoves DEF W!GroupUserOnline
<1>10. ASSUME W!GroupList(r) PROVE Moves(r)
  BY <1>10, PlainMoves DEF W!GroupList
<1>11. ASSUME W!GetChatLog(r) PROVE Moves(r)
  BY <1>11, PlainMoves DEF W!GetChatLog
<1>12. ASSUME W!GetChatLogReadRecords(r) PROVE Moves(r)
  BY <1>12, PlainMoves DEF W!GetChatLogReadRecords
<1>13. ASSUME W!GetConversations(r) PROVE Moves(r)
  BY <1>13, PlainMoves DEF W!GetConversations
<1>14. ASSUME W!PutConversations(r) PROVE Moves(r)
  <2>1. "copy" \in Errors
    BY DEF Errors
  <2> QED
    BY <1>14, <2>1, PlainMoves, LeaveMoves DEF W!PutConversations
<1>15. ASSUME W!SetUpUserConversation(r) PROVE Moves(r)
  BY <1>15, PlainMoves DEF W!SetUpUserConversation
<1>16. ASSUME W!Register(r) PROVE Moves(r)
  BY <1>16, PlainMoves DEF W!Register
<1> QED
  BY <1>1, <1>2, <1>3, <1>4, <1>5, <1>6, <1>7, <1>8, <1>9, <1>10, <1>11, <1>12, <1>13, <1>14,
     <1>15, <1>16 DEF W!Logic, W!Ep
(* FriendList answers without the users it does not find.                   *)
LEMMA FriendListMoves ==
  ASSUME NEW r \in Requests, DOMAIN http = Requests, Faithful(http[r]), http[r].pc = "logic",
         http[r].ep = "FriendList", W!FriendList(r)
  PROVE  Moves(r)
<1>1. Awaited("FriendList", 2, "FindUser") /\ \A method : Awaited("FriendList", 1, method)
  BY DEF Awaited, W!Excused
<1>2. \A m : W!Ask(r, 0, "FriendList", m) => Moves(r)
  BY <1>1, AskMoves
<1>3. \A m : ~W!Failed(r, 1) /\ W!Ask(r, 1, "FindUser", m) => Moves(r)
  <2>1. ~W!Failed(r, 1) => Granted(http[r], 1)
    BY DEF W!Failed, W!Got, Granted
  <2> QED
    BY <1>1, <2>1, AskMoves
<1>4. W!Step(r, 1) /\ W!Failed(r, 1) /\ W!ReturnErr(r, W!Out(r, 1)) => Moves(r)
  BY LastAnswer, LeaveMoves
<1>5. W!Step(r, 1) /\ ~W!Failed(r, 1) /\ W!ReturnOk(r) => Moves(r)
  BY LastAnswer, LeaveMoves
<1>6. W!Step(r, 2) /\ W!ReturnOk(r) => Moves(r)
  BY LastAnswer, LeaveMoves
<1> QED
  BY <1>2, <1>3, <1>4, <1>5, <1>6 DEF W!FriendList

(* Login answers whether or not the user is marked as online.               *)
LEMMA LoginMoves ==
  ASSUME NEW r \in Requests, DOMAIN http = Requests, Faithful(http[r]), http[r].pc = "logic",
         http[r].ep = "Login", W!Login(r)
  PROVE  Moves(r)
<1>1. Awaited("Login", 2, "Hset") /\ \A method : Awaited("Login", 1, method)
  BY DEF Awaited, W!Excused
<1>2. \A m : W!Ask(r, 0, "Login", m) => Moves(r)
  BY <1>1, AskMoves
<1>3. ~W!Failed(r, 1) /\ W!AskRedis(r, 1, "Hset") => Moves(r)
  <2>1. ~W!Failed(r, 1) => Granted(http[r], 1)
    BY DEF W!Failed, W!Got, Granted
  <2> QED
    BY <1>1, <2>1, AskMoves
<1>4. W!Step(r, 1) /\ W!Failed(r, 1) /\ W!ReturnErr(r, W!Out(r, 1)) => Moves(r)
  BY LastAnswer, LeaveMoves
<1>5. W!Step(r, 2) /\ W!ReturnOk(r) => Moves(r)
  BY LastAnswer, LeaveMoves
<1> QED
  BY <1>2, <1>3, <1>4, <1>5 DEF W!Login

(* GroupPutInHandle goes on from a failure, and answers with what followed. *)
LEMMA HandleMoves ==
  ASSUME NEW r \in Requests, DOMAIN http = Requests, Faithful(http[r]), http[r].pc = "logic",
         http[r].ep = "GroupPutInHandle", W!GroupPutInHandle(r)
  PROVE  Moves(r)
<1>1. /\ Awaited("GroupPutInHandle", 1, "GroupPutInHandle")
      /\ \A method : Awaited("GroupPutInHandle", 2, method)
  BY DEF Awaited, W!Excused
<1>2. \A m : W!Ask(r, 0, "GroupPutInHandle", m) => Moves(r)
  BY <1>1, AskMoves
<1>3. \A m : W!Ask(r, 1, "SetUpUserConversation", m) => Moves(r)
  <2>1. W!Step(r, 1) => Granted(http[r], 1)
    BY LastAnswer
  <2>2. \A m : W!Ask(r, 1, "SetUpUserConversation", m) => W!Step(r, 1)
    BY DEF W!Ask
  <2> QED
    BY <1>1, <2>1, <2>2, AskMoves
<1> QED
  BY <1>2, <1>3, ReturnMoves DEF W!GroupPutInHandle

(* Detail has a message to set before it answers.                           *)
LEMMA DetailMoves ==
  ASSUME NEW r \in Requests, DOMAIN http = Requests, Faithful(http[r]), http[r].pc = "logic",
         http[r].ep = "Detail", W!Detail(r)
  PROVE  Moves(r)
<1>1. \A m : W!Ask(r, 0, "GetUserInfo", m) => Moves(r)
  BY NothingAwaited, AskMoves
<1>2. W!Step(r, 1) /\ W!Failed(r, 1) /\ W!ReturnErr(r, W!Out(r, 1)) => Moves(r)
  BY LastAnswer, LeaveMoves
<1>3. W!Step(r, 1) /\ ~W!Failed(r, 1) /\ W!GoTo(r, "set") => Moves(r)
  BY LastAnswer, LeaveMoves
<1> QED
  BY <1>1, <1>2, <1>3 DEF W!Detail

(* The logic of every endpoint.                                             *)
LEMMA LogicMoves ==
  ASSUME NEW r \in Requests, DOMAIN http = Requests, Faithful(http[r]), W!Logic(r)
  PROVE  Moves(r) /\ http[r].pc = "logic" /\ UNCHANGED <<service, reqIDCounter, store, shared>>
<1>1. http[r].pc = "logic" /\ UNCHANGED <<service, reqIDCounter, store, shared>>
  BY DEF W!Logic
<1>2. CASE http[r].ep \notin {"FriendList", "Login", "GroupPutInHandle", "Detail"}
  BY <1>1, <1>2, PlainLogic
<1>3. CASE http[r].ep = "FriendList"
  BY <1>1, <1>3, FriendListMoves DEF W!Logic, W!Ep
<1>4. CASE http[r].ep = "Login"
  BY <1>1, <1>4, LoginMoves DEF W!Logic, W!Ep
<1>5. CASE http[r].ep = "GroupPutInHandle"
  BY <1>1, <1>5, HandleMoves DEF W!Logic, W!Ep
<1>6. CASE http[r].ep = "Detail"
  BY <1>1, <1>6, DetailMoves DEF W!Logic, W!Ep
<1> QED
  BY <1>1, <1>2, <1>3, <1>4, <1>5, <1>6

-----------------------------------------------------------------------------
(* storex.                                                                  *)
LiveOne(h) == h.pc \notin {"idle", "done"}

(* What a request that shares its id with nobody finds under it: nothing    *)
(* unless it is Detail, and then its message before it answers; and what it *)
(* answers.                                                                 *)
Tidy(h, s, api) ==
  /\ LiveOne(h) => /\ h.ep # "Detail" => h.id \notin s
                   /\ h.ep = "Detail" /\ h.pc = "ok" => h.id \in s
  /\ h.status = 200 /\ api # "social" => h.msg = IF h.ep = "Detail" THEN "detail" ELSE "success"

Owned == \A k \in store : \E r \in Requests : LiveOne(http[r]) /\ http[r].id = k
Apart ==
  \A r \in Requests \ shared : \A q \in Requests \ {r} :
    LiveOne(http[r]) /\ LiveOne(http[q]) => http[q].id # http[r].id

GateInv ==
  /\ DOMAIN http = Requests /\ \A r \in Requests : Faithful(http[r])
  /\ Owned /\ Apart
  /\ \A r \in Requests \ shared : Tidy(http[r], store, service)

(* A step of a live request touches its own entry only, which no other      *)
(* request has to do with unless they share the id.                         *)
LEMMA OwnStep ==
  ASSUME GateInv, NEW r \in Requests, LiveOne(http[r]),
         DOMAIN http' = Requests, \A q \in Requests \ {r} : http'[q] = http[q],
         Faithful(http'[r]), LiveOne(http'[r]) => http'[r].id = http[r].id,
         UNCHANGED <<shared, service>>,
         store' \subseteq store \cup {http[r].id}, store \ {http[r].id} \subseteq store',
         LiveOne(http'[r]) \/ http[r].id \notin store',
         r \notin shared => Tidy(http'[r], store', service)
  PROVE  GateInv'
<1> USE DEF GateInv
<1>1. Owned'
  <2> SUFFICES ASSUME NEW k \in store'
               PROVE  \E q \in Requests : LiveOne(http'[q]) /\ http'[q].id = k
    BY DEF Owned, LiveOne
  <2>1. CASE k = http[r].id
    BY <2>1
  <2>2. CASE k # http[r].id
    <3>1. PICK q \in Requests : LiveOne(http[q]) /\ http[q].id = k
      BY <2>2 DEF Owned
    <3> QED
      BY <2>2, <3>1
  <2> QED
    BY <2>1, <2>2
<1>2. Apart'
  <2> SUFFICES ASSUME NEW p \in Requests \ shared, NEW q \in Requests \ {p},
                      LiveOne(http'[p]), LiveOne(http'[q])
               PROVE  http'[q].id # http'[p].id
    BY DEF Apart, LiveOne
  <2> QED
    BY DEF Apart
<1>3. ASSUME NEW q \in Requests \ shared PROVE Tidy(http'[q], store', service)
  <2>1. CASE q # r
    <3>1. LiveOne(http[q]) => http[q].id # http[r].id
      BY <2>1 DEF Apart
    <3>2. http'[q] = http[q] /\ Tidy(http[q], store, service)
      BY <2>1
    <3> QED
      BY <3>1, <3>2 DEF Tidy
  <2> QED
    BY <2>1
<1>4. \A q \in Requests : Faithful(http'[q])
  BY <1>1
<1> QED
  BY <1>1, <1>2, <1>3, <1>4 DEF Faithful, Tidy, LiveOne
(* A request arrives under an id that no live request has, or shares it.    *)
LEMMA ArriveKeeps ==
  ASSUME GateInv, NEW r \in Requests, NEW ep, NEW u, NEW b, NEW header, W!Arrive(r, ep, u, b, header)
  PROVE  GateInv'
<1> DEFINE id == IF header = W!NoHeader THEN reqIDCounter + 1 ELSE header
           twins == {q \in Requests : LiveOne(http[q]) /\ http[q].id = id}
           h == [W!NoRequest EXCEPT !.pc = "parse", !.ep = ep, !.uid = u, !.body = b, !.id = id]
<1>1. /\ http[r].pc = "idle" /\ http' = [http EXCEPT ![r] = h]
      /\ shared' = IF twins = {} THEN shared ELSE shared \cup twins \cup {r}
      /\ UNCHANGED <<service, store>>
  BY DEF W!Arrive, W!Live, W!Key, LiveOne
<1>2. /\ DOMAIN h = HttpFields /\ h.pc = "parse" /\ h.id = id /\ h.got = <<>> /\ h.status = 0
  BY DEF W!NoRequest, HttpFields
<1> HIDE DEF id, h
<1> USE DEF GateInv
<1>3. /\ DOMAIN http' = Requests /\ http'[r] = h
      /\ \A q \in Requests \ {r} : http'[q] = http[q]
  BY <1>1
<1>4. Faithful(h)
  <2>1. <<>> \in Seq({}) /\ Len(<<>>) = 0
    OBVIOUS
  <2> QED
    BY <1>2, <2>1 DEF Faithful
<1>5. ~LiveOne(http[r]) /\ LiveOne(h)
  BY <1>1, <1>2 DEF LiveOne
<1>6. \A k \in store : \E q \in Requests : LiveOne(http'[q]) /\ http'[q].id = k
  BY <1>3, <1>5 DEF Owned
<1>7. \A q \in Requests \ {r} : LiveOne(http[q]) /\ http[q].id = id => q \in shared' /\ r \in shared'
  BY <1>1
<1>8. shared \subseteq shared'
  BY <1>1
<1>9. ASSUME NEW p \in Requests \ shared', NEW q \in Requests \ {p}, LiveOne(http'[p]), LiveOne(http'[q])
      PROVE  http'[q].id # http'[p].id
  <2>1. CASE p = r
    BY <1>2, <1>3, <1>7, <1>9, <2>1
  <2>2. CASE p # r /\ q = r
    BY <1>2, <1>3, <1>7, <1>9, <2>2
  <2>3. CASE p # r /\ q # r
    BY <1>3, <1>8, <1>9, <2>3 DEF Apart
  <2> QED
    BY <2>1, <2>2, <2>3
<1>10. ASSUME NEW p \in Requests \ shared' PROVE Tidy(http'[p], store, service)
  <2>1. CASE p = r
    <3>1. id \notin store
      BY <1>5, <1>7, <1>10, <2>1 DEF Owned
    <3> QED
      BY <1>2, <1>3, <2>1, <3>1 DEF Tidy
  <2>2. CASE p # r
    BY <1>3, <1>8, <2>2
  <2> QED
    BY <2>1, <2>2
<1>11. Owned' /\ Apart'
  BY <1>1, <1>6, <1>9 DEF Owned, Apart, LiveOne
<1>12. \A q \in Requests : Faithful(http'[q])
  BY <1>3, <1>4
<1> QED
  BY <1>1, <1>3, <1>10, <1>11, <1>12 DEF Faithful, Tidy, LiveOne

(* The steps of a live request.                                             *)
LEMMA LiveKeeps ==
  ASSUME GateInv, NEW r \in Requests,
         \/ W!Parse(r) \/ W!Logic(r) \/ W!SetLoad(r) \/ W!SetStore(r)
         \/ W!OkHandler(r) \/ W!ErrHandler(r) \/ W!Cleanup(r) \/ W!CleanupByReqID(r)
  PROVE  GateInv'
<1>1. /\ DOMAIN http = Requests /\ Faithful(http[r])
      /\ r \notin shared => Tidy(http[r], store, service)
  BY DEF GateInv
<1>2. ASSUME W!Parse(r) PROVE GateInv'
  <2>1. http[r].pc = "parse" /\ http[r].status # 200 /\ UNCHANGED <<service, store, shared>>
    BY <1>1, <1>2 DEF W!Parse, Faithful
  <2>2. PICK h : /\ http' = [http EXCEPT ![r] = h] /\ Faithful(h) /\ h.id = http[r].id /\ h.ep = http[r].ep
                 /\ h.status = http[r].status /\ h.pc \in {"logic", "error"}
    <3>1. CASE W!GoTo(r, "logic")
      <4>1. http' = [http EXCEPT ![r] = [http[r] EXCEPT !.pc = "logic"]]
        BY <3>1 DEF W!GoTo
      <4> DEFINE h == [http[r] EXCEPT !.pc = "logic"]
      <4>2. /\ DOMAIN h = HttpFields /\ h.got = <<>> /\ h.id = http[r].id /\ h.ep = http[r].ep
            /\ h.status = http[r].status /\ h.pc = "logic"
        BY <1>1, <2>1 DEF Faithful, HttpFields
      <4> HIDE DEF h
      <4>3. Faithful(h)
        BY <1>1, <2>1, <4>2, <<>> \in Seq({}), Len(<<>>) = 0 DEF Faithful
      <4> QED
        BY <4>1, <4>2, <4>3 DEF h
    <3>2. ASSUME NEW e \in W!ParseErrors, W!ReturnErr(r, e)
          PROVE  \E h : /\ http' = [http EXCEPT ![r] = h] /\ Faithful(h) /\ h.id = http[r].id
                        /\ h.ep = http[r].ep /\ h.status = http[r].status /\ h.pc \in {"logic", "error"}
      <4> DEFINE h == [http[r] EXCEPT !.pc = "error", !.err = e, !.got = <<>>, !.body = <<>>]
      <4>1. http' = [http EXCEPT ![r] = h]
        BY <3>2 DEF W!ReturnErr
      <4>2. /\ DOMAIN h = HttpFields /\ h.got = <<>> /\ h.id = http[r].id /\ h.ep = http[r].ep
            /\ h.status = http[r].status /\ h.pc = "error" /\ h.err = e
        BY <1>1, <2>1 DEF Faithful, HttpFields
      <4> HIDE DEF h
      <4>3. Faithful(h)
        BY <1>1, <2>1, <4>2, <<>> \in Seq({}), Len(<<>>) = 0 DEF Faithful, W!ParseErrors, Errors
      <4> QED
        BY <4>1, <4>2, <4>3
    <3> QED
      BY <1>2, <3>1, <3>2 DEF W!Parse
  <2> QED
    BY <1>1, <2>1, <2>2, OwnStep DEF Tidy, LiveOne
<1>3. ASSUME W!Logic(r) PROVE GateInv'
  <2>1. Moves(r) /\ http[r].pc = "logic" /\ UNCHANGED <<service, reqIDCounter, store, shared>>
    BY <1>1, <1>3, LogicMoves
  <2> QED
    BY <1>1, <2>1, OwnStep DEF Moves, Tidy, LiveOne
<1>4. ASSUME W!SetLoad(r) PROVE GateInv'
  <2>1. /\ http[r].pc = "set" /\ http[r].ep = "Detail" /\ http[r].status # 200
        /\ UNCHANGED <<service, store, shared>>
        /\ http' = [http EXCEPT ![r] = [http[r] EXCEPT !.pc =
                      IF http[r].id \in store THEN "ok" ELSE "setnew"]]
    BY <1>1, <1>4 DEF W!SetLoad, W!GoTo, W!Key, Faithful
  <2>2. /\ DOMAIN http' = Requests /\ \A q \in Requests \ {r} : http'[q] = http[q]
        /\ DOMAIN http'[r] = HttpFields
        /\ http'[r].pc = IF http[r].id \in store THEN "ok" ELSE "setnew"
        /\ \A f \in HttpFields \ {"pc"} : http'[r][f] = http[r][f]
    BY <1>1, <2>1 DEF Faithful, HttpFields
  <2>3. /\ http'[r].got = http[r].got /\ http'[r].id = http[r].id /\ http'[r].ep = http[r].ep
        /\ http'[r].status = http[r].status
    BY <2>2 DEF HttpFields
  <2>4. Faithful(http'[r])
    BY <1>1, <2>1, <2>2, <2>3 DEF Faithful, Granted
  <2> QED
    BY <1>1, <2>1, <2>2, <2>3, <2>4, OwnStep DEF Tidy, LiveOne
<1>5. ASSUME W!SetStore(r) PROVE GateInv'
  <2>1. /\ http[r].pc = "setnew" /\ http[r].ep = "Detail" /\ http[r].status # 200
        /\ UNCHANGED <<service, shared>> /\ store' = store \cup {http[r].id}
        /\ http' = [http EXCEPT ![r] = [http[r] EXCEPT !.pc = "ok"]]
    BY <1>1, <1>5 DEF W!SetStore, W!GoTo, W!Key, Faithful
  <2>2. /\ DOMAIN http' = Requests /\ \A q \in Requests \ {r} : http'[q] = http[q]
        /\ DOMAIN http'[r] = HttpFields /\ http'[r].pc = "ok"
        /\ http'[r].got = http[r].got /\ http'[r].id = http[r].id /\ http'[r].ep = http[r].ep
        /\ http'[r].status = http[r].status
    BY <1>1, <2>1 DEF Faithful, HttpFields
  <2>3. Faithful(http'[r])
    BY <1>1, <2>1, <2>2 DEF Faithful, Granted
  <2> QED
    BY <1>1, <2>1, <2>2, <2>3, OwnStep DEF Tidy, LiveOne
<1>6. ASSUME W!OkHandler(r) PROVE GateInv'
  <2> DEFINE msg == IF service = "social" THEN "none" ELSE W!GetSuccessMsg(r)
  <2>1. /\ http[r].pc = "ok" /\ UNCHANGED <<service, store, shared>>
        /\ http' = [http EXCEPT ![r] = [http[r] EXCEPT !.pc = "cleanup", !.status = 200, !.msg = msg]]
    BY <1>6 DEF W!OkHandler
  <2>2. /\ DOMAIN http' = Requests /\ \A q \in Requests \ {r} : http'[q] = http[q]
        /\ DOMAIN http'[r] = HttpFields /\ http'[r].pc = "cleanup"
        /\ http'[r].got = http[r].got /\ http'[r].id = http[r].id /\ http'[r].ep = http[r].ep
        /\ http'[r].status = 200 /\ http'[r].msg = msg
    BY <1>1, <2>1 DEF Faithful, HttpFields
  <2>3. Faithful(http'[r])
    BY <1>1, <2>1, <2>2 DEF Faithful, Granted
  <2>4. r \notin shared => Tidy(http'[r], store', service)
    BY <1>1, <2>1, <2>2 DEF Tidy, LiveOne, W!GetSuccessMsg, W!Key
  <2> QED
    BY <1>1, <2>1, <2>2, <2>3, <2>4, OwnStep DEF LiveOne
<1>7. ASSUME W!ErrHandler(r) PROVE GateInv'
  <2> DEFINE status == IF service = "social" THEN W!resultxStatus ELSE W!respxStatus[http[r].err]
  <2>1. /\ http[r].pc = "error" /\ UNCHANGED <<service, store, shared>>
        /\ http' = [http EXCEPT ![r] = [http[r] EXCEPT !.pc = "cleanup", !.err = "none", !.status = status]]
    BY <1>7 DEF W!ErrHandler
  <2>2. status # 200
    BY <1>1, <2>1 DEF Faithful, Errors, W!resultxStatus, W!respxStatus
  <2> HIDE DEF status
  <2>3. /\ DOMAIN http' = Requests /\ \A q \in Requests \ {r} : http'[q] = http[q]
        /\ DOMAIN http'[r] = HttpFields /\ http'[r].pc = "cleanup"
        /\ http'[r].got = http[r].got /\ http'[r].id = http[r].id /\ http'[r].ep = http[r].ep
        /\ http'[r].status = status
    BY <1>1, <2>1 DEF Faithful, HttpFields
  <2>4. Faithful(http'[r])
    BY <1>1, <2>2, <2>3 DEF Faithful
  <2> QED
    BY <1>1, <2>1, <2>2, <2>3, <2>4, OwnStep DEF Tidy, LiveOne
<1>8. ASSUME W!Cleanup(r) PROVE GateInv'
  <2>1. /\ http[r].pc = "cleanup" /\ UNCHANGED <<service, shared>> /\ store' = store \ {http[r].id}
        /\ http' = [http EXCEPT ![r] = [http[r] EXCEPT !.pc = "cleanupbyid"]]
    BY <1>8 DEF W!Cleanup, W!GoTo, W!Key
  <2>2. /\ DOMAIN http' = Requests /\ \A q \in Requests \ {r} : http'[q] = http[q]
        /\ DOMAIN http'[r] = HttpFields /\ http'[r].pc = "cleanupbyid"
        /\ http'[r].got = http[r].got /\ http'[r].id = http[r].id /\ http'[r].ep = http[r].ep
        /\ http'[r].status = http[r].status /\ http'[r].msg = http[r].msg
    BY <1>1, <2>1 DEF Faithful, HttpFields
  <2>3. Faithful(http'[r])
    BY <1>1, <2>1, <2>2 DEF Faithful, Granted
  <2> QED
    BY <1>1, <2>1, <2>2, <2>3, OwnStep DEF Tidy, LiveOne
<1>9. ASSUME W!CleanupByReqID(r) PROVE GateInv'
  <2> DEFINE h == [W!NoRequest EXCEPT !.pc = "done"]
  <2>1. /\ http[r].pc = "cleanupbyid" /\ UNCHANGED <<service, shared>> /\ store' = store \ {http[r].id}
        /\ http' = [http EXCEPT ![r] = h]
    BY <1>9 DEF W!CleanupByReqID, W!Key
  <2>2. /\ DOMAIN h = HttpFields /\ h.pc = "done" /\ h.got = <<>> /\ h.status = 0
    BY DEF W!NoRequest, HttpFields
  <2> HIDE DEF h
  <2>3. Faithful(h)
    BY <2>2, <<>> \in Seq({}), Len(<<>>) = 0 DEF Faithful
  <2> QED
    BY <1>1, <2>1, <2>2, <2>3, OwnStep DEF GateInv, Tidy, LiveOne
<1> QED
  BY <1>2, <1>3, <1>4, <1>5, <1>6, <1>7, <1>8, <1>9

(* Every request is faithful, and storex holds what live requests put       *)
(* there.                                                                   *)
LEMMA GateInvariant == SocialSpec => []GateInv
<1>1. SocialInit => GateInv
  <2> SUFFICES ASSUME W!Init PROVE GateInv
    BY DEF SocialInit
  <2>1. /\ http = [r \in Requests |-> W!NoRequest] /\ store = {}
    BY DEF W!Init
  <2>2. /\ DOMAIN W!NoRequest = HttpFields /\ W!NoRequest.pc = "idle" /\ W!NoRequest.got = <<>>
        /\ W!NoRequest.status = 0
    BY DEF W!NoRequest, HttpFields
  <2>3. Faithful(W!NoRequest)
    BY <2>2, <<>> \in Seq({}), Len(<<>>) = 0 DEF Faithful
  <2> QED
    BY <2>1, <2>2, <2>3 DEF GateInv, Owned, Apart, Tidy, LiveOne
<1>2. GateInv /\ [SocialNext]_<<part, vars, groupVars, userVars, gatewayVars>> => GateInv'
  <2>1. CASE W!Next
    BY <2>1, ArriveKeeps, LiveKeeps DEF W!Next
  <2>2. CASE UNCHANGED gatewayVars
    BY <2>2 DEF gatewayVars, GateInv, Owned, Apart, Faithful, Tidy
  <2> QED
    BY <2>1, <2>2 DEF SocialNext
<1> QED
  BY <1>1, <1>2, PTL DEF SocialSpec

(* GatewaySuccessIsTrue: an answer says 200 only if everything its logic asked    *)
(* for succeeded.  A logic goes on only from a success, its error variable  *)
(* is checked before it is assigned again; the three answers that may be    *)
(* lost are the ones Excused names.                                         *)
THEOREM GatewaySuccessIsTrue == SocialSpec => []SuccessIsTrue
<1>1. GateInv => SuccessIsTrue
  <2> SUFFICES ASSUME GateInv, NEW r \in Requests, http[r].status = 200,
                      NEW i \in DOMAIN W!Got(r)
               PROVE  ~W!Failed(r, i) \/ <<W!Ep(r), W!Got(r)[i].method>> \in W!Excused
    BY DEF SuccessIsTrue, W!SuccessIsTrue
  <2>1. Faithful(http[r])
    BY DEF GateInv
  <2>2. i \in 1..Len(http[r].got)
    BY <2>1 DEF Faithful, W!Got
  <2> QED
    BY <2>1, <2>2 DEF Faithful, Granted, W!Failed, W!Got, W!Ep
<1> QED
  BY <1>1, GateInvariant, PTL

(* RequestsKeepTheirMessage: an answer carries its own request's message,   *)
(* and an entry of storex dies with its request, unless ids were shared: a  *)
(* request that is alone under its id finds nothing there when it arrives,  *)
(* and the entry it makes is touched by nobody else.                        *)
THEOREM RequestsKeepTheirMessage == SocialSpec => []OwnMessage
<1>1. GateInv => OwnMessage
  BY DEF GateInv, Owned, Tidy, LiveOne, OwnMessage, W!OwnMessage, W!Live, W!Key, W!Ep
<1> QED
  BY <1>1, GateInvariant, PTL

-----------------------------------------------------------------------------
(* The messages: their types, and what each endpoint has in its body.       *)
(* What each method takes and returns.                                      *)
LEMMA MethodTypes ==
  /\ W!Method("FriendPutIn") = W!Rpc(W!FriendPutInReq, W!FriendPutInResp)
  /\ W!Method("FriendPutInHandle") = W!Rpc(W!FriendPutInHandleReq, W!FriendPutInHandleResp)
  /\ W!Method("FriendPutInList") = W!Rpc(W!FriendPutInListReq, W!FriendPutInListResp)
  /\ W!Method("FriendList") = W!Rpc(W!FriendListReq, W!FriendListResp)
  /\ W!Method("GroupCreate") = W!Rpc(W!GroupCreateReq, W!GroupCreateResp)
  /\ W!Method("GroupPutin") = W!Rpc(W!GroupPutinReq, W!GroupPutinResp)
  /\ W!Method("GroupPutinList") = W!Rpc(W!GroupPutinListReq, W!GroupPutinListResp)
  /\ W!Method("GroupPutInHandle") = W!Rpc(W!GroupPutInHandleReq, W!GroupPutInHandleResp)
  /\ W!Method("GroupList") = W!Rpc(W!GroupListReq, W!GroupListResp)
  /\ W!Method("GroupUsers") = W!Rpc(W!GroupUsersReq, W!GroupUsersResp)
  /\ W!Method("GetChatLog") = W!Rpc(W!GetChatLogReq, W!GetChatLogResp)
  /\ W!Method("SetUpUserConversation") = W!Rpc(W!SetUpUserConversationReq, W!SetUpUserConversationResp)
  /\ W!Method("GetConversations") = W!Rpc(W!GetConversationsReq, W!GetConversationsResp)
  /\ W!Method("PutConversations") = W!Rpc(W!PutConversationsReq, W!PutConversationsResp)
  /\ W!Method("CreateGroupConversation")
       = W!Rpc(W!CreateGroupConversationReq, W!CreateGroupConversationResp)
  /\ W!Method("Login") = W!Rpc(W!LoginReq, W!LoginResp)
  /\ W!Method("Register") = W!Rpc(W!RegisterReq, W!RegisterResp)
  /\ W!Method("GetUserInfo") = W!Rpc(W!GetUserInfoReq, W!GetUserInfoResp)
  /\ W!Method("FindUser") = W!Rpc(W!FindUserReq, W!FindUserResp)
BY DEF W!Method, W!Social, W!Im, W!User

LEMMA RpcParts == \A in, out : W!Rpc(in, out).in = in /\ W!Rpc(in, out).out = out
BY DEF W!Rpc

(* A reply that is a list has at most one row here; it is a list of the     *)
(* rows' type.                                                              *)
LEMMA ListsTyped ==
  ASSUME NEW T, NEW S, S \subseteq T, NEW x \in W!Lists(S)
  PROVE  x \in [List: Seq(T)]
<1>1. <<>> \in Seq(T) /\ \A y \in S : <<y>> \in Seq(T)
  OBVIOUS
<1>2. x = [List |-> <<>>] \/ \E y \in S : x = [List |-> <<y>>]
  BY DEF W!Lists
<1>3. [List |-> <<>>] \in [List: Seq(T)]
  BY <1>1
<1>4. \A y \in S : [List |-> <<y>>] \in [List: Seq(T)]
  BY <1>1
<1> QED
  BY <1>2, <1>3, <1>4

Methods == {"FriendPutIn", "FriendPutInHandle", "FriendPutInList", "FriendList", "GroupCreate",
            "GroupPutin", "GroupPutinList", "GroupPutInHandle", "GroupList", "GroupUsers",
            "GetChatLog", "SetUpUserConversation", "GetConversations", "PutConversations",
            "CreateGroupConversation", "Login", "Register", "GetUserInfo", "FindUser"}

(* A reply to a message of a method is one that the method returns.         *)
LEMMA RepliesTyped ==
  ASSUME NEW method \in Methods, NEW m \in W!Method(method).in, NEW out \in W!Replies(method, m)
  PROVE  out \in W!Method(method).out
<1> USE DEF W!Replies, W!Uid, W!Gid, W!Text, W!Phone, W!ChatId
<1>1. CASE method = "FriendList"
  <2>1. m \in W!FriendListReq /\ out \in W!FriendListOf(m)
    BY <1>1, MethodTypes, RpcParts
  <2>2. {[Id |-> 1, UserId |-> m.UserId, Remark |-> W!Unset, FriendUid |-> v] : v \in Uids \ {m.UserId}}
          \subseteq W!Friends
    BY <2>1 DEF W!FriendListReq, W!Friends
  <2>3. out \in W!FriendListResp
    BY <2>1, <2>2, ListsTyped DEF W!FriendListOf, W!FriendListResp
  <2> QED
    BY <1>1, <2>3, MethodTypes, RpcParts
<1>2. CASE method = "FriendPutInList"
  <2>1. m \in W!FriendPutInListReq /\ out \in W!FriendPutInListOf(m)
    BY <1>2, MethodTypes, RpcParts
  <2>2. {[Id |-> 1, UserId |-> m.UserId, ReqUid |-> v, ReqMsg |-> W!Unset, HandleResult |-> 0] :
           v \in Uids \ {m.UserId}} \subseteq W!FriendRequests
    BY <2>1 DEF W!FriendPutInListReq, W!FriendRequests, W!Results
  <2>3. out \in W!FriendPutInListResp
    BY <2>1, <2>2, ListsTyped DEF W!FriendPutInListOf, W!FriendPutInListResp
  <2> QED
    BY <1>2, <2>3, MethodTypes, RpcParts
<1>3. CASE method = "GroupList"
  <2>1. m \in W!GroupListReq /\ out \in W!GroupListOf(m)
    BY <1>3, MethodTypes, RpcParts
  <2>2. {[Id |-> g, Name |-> W!Unset, Icon |-> W!Unset, CreatorUid |-> m.UserId, IsVerify |-> FALSE] :
           g \in Gids} \subseteq W!Groups
    <3>1. m.UserId \in W!Uid
      BY <2>1 DEF W!GroupListReq
    <3>2. \A g \in Gids : [Id |-> g, Name |-> W!Unset, Icon |-> W!Unset, CreatorUid |-> m.UserId,
                           IsVerify |-> FALSE] \in W!Groups
      BY <3>1 DEF W!Groups
    <3> QED
      BY <3>2
  <2>3. out \in W!GroupListResp
    BY <2>1, <2>2, ListsTyped DEF W!GroupListOf, W!GroupListResp
  <2> QED
    BY <1>3, <2>3, MethodTypes, RpcParts
<1>4. CASE method = "GroupPutinList"
  <2>1. m \in W!GroupPutinListReq /\ out \in W!GroupPutinListOf(m)
    BY <1>4, MethodTypes, RpcParts
  <2>2. {[Id |-> 1, GroupId |-> m.GroupId, ReqId |-> v, ReqMsg |-> W!Unset, JoinSource |-> 0,
          InviterUId |-> W!Unset, HandleUid |-> W!Unset, HandleResult |-> 0] : v \in Uids}
          \subseteq W!GroupRequests
    BY <2>1 DEF W!GroupPutinListReq, W!GroupRequests, W!Results
  <2>3. out \in W!GroupPutinListResp
    BY <2>1, <2>2, ListsTyped DEF W!GroupPutinListOf, W!GroupPutinListResp
  <2> QED
    BY <1>4, <2>3, MethodTypes, RpcParts
<1>5. CASE method = "GroupUsers"
  <2>1. m \in W!GroupUsersReq /\ out \in W!GroupUsersOf(m)
    BY <1>5, MethodTypes, RpcParts
  <2>2. {[Id |-> 1, GroupId |-> m.GroupId, UserId |-> v, RoleLevel |-> 1, InviterUid |-> W!Unset] :
           v \in Uids} \subseteq W!GroupMembers
    BY <2>1 DEF W!GroupUsersReq, W!GroupMembers
  <2>3. out \in W!GroupUsersResp
    BY <2>1, <2>2, ListsTyped DEF W!GroupUsersOf, W!GroupUsersResp
  <2> QED
    BY <1>5, <2>3, MethodTypes, RpcParts
<1>6. CASE method = "GetChatLog"
  <2>1. m \in W!GetChatLogReq /\ out \in W!GetChatLogOf(m)
    BY <1>6, MethodTypes, RpcParts
  <2>2. <<>> \in Seq(0..255) /\ \A x \in W!ChatLog : <<x>> \in Seq(W!ChatLog)
    OBVIOUS
  <2>3. CASE m.MsgId # W!Unset
    <3>1. PICK k \in ChatIds, u \in Uids, to \in W!Receivers :
            out = [List |-> <<[Id |-> m.MsgId, ConversationId |-> k, SendId |-> u, RecvId |-> to[1],
                               ChatType |-> to[2], ReadRecords |-> <<>>]>>]
      BY <2>1, <2>3 DEF W!GetChatLogOf
    <3>2. [Id |-> m.MsgId, ConversationId |-> k, SendId |-> u, RecvId |-> to[1],
           ChatType |-> to[2], ReadRecords |-> <<>>] \in W!ChatLog
      BY <2>1, <2>2 DEF W!GetChatLogReq, W!ChatLog, W!ChatTypes, W!Receivers
    <3>3. out \in W!GetChatLogResp
      BY <2>2, <3>1, <3>2 DEF W!GetChatLogResp
    <3> QED
      BY <1>6, <3>3, MethodTypes, RpcParts
  <2>4. CASE m.MsgId = W!Unset
    <3>1. {[Id |-> W!Unset, ConversationId |-> m.ConversationId, SendId |-> u, RecvId |-> u,
            ChatType |-> IF m.ConversationId = W!Unset THEN 0 ELSE 2, ReadRecords |-> <<>>] : u \in Uids}
            \subseteq W!ChatLog
      <4>1. m.ConversationId \in W!ChatId
        BY <2>1 DEF W!GetChatLogReq
      <4>2. \A u \in Uids : [Id |-> W!Unset, ConversationId |-> m.ConversationId, SendId |-> u, RecvId |-> u,
                             ChatType |-> IF m.ConversationId = W!Unset THEN 0 ELSE 2, ReadRecords |-> <<>>]
                               \in W!ChatLog
        BY <2>2, <4>1 DEF W!ChatLog, W!ChatTypes
      <4> QED
        BY <4>2
    <3>2. out \in W!GetChatLogResp
      BY <2>1, <2>4, <3>1, ListsTyped DEF W!GetChatLogOf, W!GetChatLogResp
    <3> QED
      BY <1>6, <3>2, MethodTypes, RpcParts
  <2> QED
    BY <2>3, <2>4
<1>7. CASE method = "GetConversations"
  <2>1. PICK K \in SUBSET ChatIds : out =
          [ConversationList |-> {<<k, [ConversationId |-> k, ChatType |-> 1, TargetId |-> W!Unset,
                                       IsShow |-> TRUE, Seq |-> 0, Total |-> 1, ToRead |-> 1,
                                       Read |-> 0]>> : k \in K}]
    BY <1>7 DEF W!GetConversationsOf
  <2>2. \A k \in K : [ConversationId |-> k, ChatType |-> 1, TargetId |-> W!Unset, IsShow |-> TRUE,
                      Seq |-> 0, Total |-> 1, ToRead |-> 1, Read |-> 0] \in W!Conversation
    BY DEF W!Conversation, W!ChatTypes
  <2>3. out \in W!GetConversationsResp
    BY <2>1, <2>2 DEF W!GetConversationsResp, W!MapOf
  <2> QED
    BY <1>7, <2>3, MethodTypes, RpcParts
<1>8. CASE method \in {"GetUserInfo", "FindUser"}
  <2>1. \A u \in W!Uid : W!Entity(u) \in W!UserEntity
    BY DEF W!Entity, W!UserEntity
  <2>2. CASE method = "GetUserInfo"
    <3>1. m \in W!GetUserInfoReq /\ out = [User |-> W!Entity(m.Id)]
      BY <2>2, MethodTypes, RpcParts DEF W!GetUserInfoOf
    <3>2. out \in W!GetUserInfoResp
      BY <2>1, <3>1 DEF W!GetUserInfoReq, W!GetUserInfoResp
    <3> QED
      BY <2>2, <3>2, MethodTypes, RpcParts
  <2>3. CASE method = "FindUser"
    <3>1. m \in W!FindUserReq /\ out = [User |-> [i \in DOMAIN m.Ids |-> W!Entity(m.Ids[i])]]
      BY <2>3, MethodTypes, RpcParts DEF W!FindUserOf
    <3>2. m.Ids \in Seq(W!Uid)
      BY <3>1 DEF W!FindUserReq
    <3>3. [i \in DOMAIN m.Ids |-> W!Entity(m.Ids[i])] \in Seq(W!UserEntity)
      BY <2>1, <3>2
    <3>4. out \in W!FindUserResp
      BY <3>1, <3>3 DEF W!FindUserResp
    <3> QED
      BY <2>3, <3>4, MethodTypes, RpcParts
  <2> QED
    BY <1>8, <2>2, <2>3
<1>9. CASE method \in {"FriendPutIn", "FriendPutInHandle", "SetUpUserConversation", "PutConversations",
                       "CreateGroupConversation"}
  BY <1>9, MethodTypes, RpcParts DEF W!Empty, W!FriendPutInResp, W!FriendPutInHandleResp,
     W!SetUpUserConversationResp, W!PutConversationsResp, W!CreateGroupConversationResp
<1>10. CASE method \in {"GroupCreate", "GroupPutin", "GroupPutInHandle", "Login", "Register"}
  <2>1. CASE method = "GroupCreate"
    <3>1. out \in [Id: Gids]
      BY <2>1, MethodTypes, RpcParts
    <3>2. out \in W!GroupCreateResp
      BY <3>1 DEF W!GroupCreateResp
    <3> QED
      BY <2>1, <3>2, MethodTypes, RpcParts
  <2>2. CASE method = "GroupPutin"
    <3>1. m \in W!GroupPutinReq /\ out \in [GroupId: {W!Unset, m.GroupId}]
      BY <2>2, MethodTypes, RpcParts
    <3>2. out \in W!GroupPutinResp
      BY <3>1 DEF W!GroupPutinResp, W!GroupPutinReq
    <3> QED
      BY <2>2, <3>2, MethodTypes, RpcParts
  <2>3. CASE method = "GroupPutInHandle"
    <3>1. out \in [GroupId: {W!Unset}]
      BY <2>3, MethodTypes, RpcParts
    <3>2. out \in W!GroupPutInHandleResp
      BY <3>1 DEF W!GroupPutInHandleResp
    <3> QED
      BY <2>3, <3>2, MethodTypes, RpcParts
  <2>4. CASE method = "Login"
    <3>1. out \in [Token: Texts, Id: Uids]
      BY <2>4, MethodTypes, RpcParts
    <3>2. out \in W!LoginResp
      BY <3>1 DEF W!LoginResp
    <3> QED
      BY <2>4, <3>2, MethodTypes, RpcParts
  <2>5. CASE method = "Register"
    <3>1. out \in [Token: Texts]
      BY <2>5, MethodTypes, RpcParts
    <3>2. out \in W!RegisterResp
      BY <3>1 DEF W!RegisterResp
    <3> QED
      BY <2>5, <3>2, MethodTypes, RpcParts
  <2> QED
    BY <1>10, <2>1, <2>2, <2>3, <2>4, <2>5
<1> QED
  BY <1>1, <1>2, <1>3, <1>4, <1>5, <1>6, <1>7, <1>8, <1>9, <1>10 DEF Methods

-----------------------------------------------------------------------------
BodyOf(ep) ==
  IF ep \in W!SocialRoutes THEN W!SocialBody[ep]
  ELSE IF ep \in W!ImRoutes THEN W!ImBody[ep] ELSE W!UserBody[ep]

(* What an endpoint's body holds.                                           *)
LEMMA BodyTypes ==
  /\ BodyOf("FriendPutIn") = [UserId: Uids]
  /\ BodyOf("FriendPutInHandle") = [FriendReqId: {1}, HandleResult: {2}]
  /\ BodyOf("CreateGroup") = [Name: Texts, Icon: Texts]
  /\ BodyOf("GroupPutIn") = [GroupId: Gids, JoinSource: {1}]
  /\ BodyOf("GroupPutInHandle") = [GroupReqId: {1}, GroupId: Gids, HandleResult: {2, 3}]
  /\ BodyOf("GroupPutInList") = [GroupId: Gids]
  /\ BodyOf("GroupUserList") = [GroupId: Gids]
  /\ BodyOf("GroupUserOnline") = [GroupId: Gids]
  /\ BodyOf("GetChatLog") = [ConversationId: ChatIds, Count: {20}]
  /\ BodyOf("GetChatLogReadRecords") = [MsgId: W!Text]
  /\ BodyOf("PutConversations") = [ConversationList: W!MapOf(ChatIds, W!SeenConversation)]
  /\ BodyOf("SetUpUserConversation") = [SendId: Uids, RecvId: Uids, ChatType: {2}]
  /\ BodyOf("Login") = [Phone: Phones, Password: Texts]
  /\ BodyOf("Register") = [Phone: Phones, Password: Texts, Nickname: Texts, Sex: {1}, Avatar: Texts]
BY DEF BodyOf, W!SocialRoutes, W!ImRoutes, W!UserRoutes, W!SocialBody, W!ImBody, W!UserBody, W!Pass

(* A body that arrives is its endpoint's.                                   *)
LEMMA BodiesAre ==
  ASSUME NEW api \in DOMAIN W!Routes, NEW ep \in W!Routes[api], NEW b \in W!Bodies[api][ep]
  PROVE  b \in BodyOf(ep)
<1> USE DEF BodyOf, W!SocialRoutes, W!ImRoutes, W!UserRoutes
<1>1. CASE api = "social"
  BY <1>1 DEF W!Routes, W!Bodies
<1>2. CASE api = "im"
  BY <1>2 DEF W!Routes, W!Bodies, W!ImBody, W!SocialBody
<1>3. CASE api = "user"
  BY <1>3 DEF W!Routes, W!Bodies, W!UserBody, W!ImBody, W!SocialBody
<1> QED
  BY <1>1, <1>2, <1>3 DEF W!Routes

(* A question is of the type of its method, and its answer a reply to it.   *)
RpcFits(rpc) ==
  rpc.method \notin {"Hgetall", "Hset"} =>
    /\ rpc.method \in Methods /\ rpc.in \in W!Method(rpc.method).in
    /\ rpc.ok => rpc.out \in W!Replies(rpc.method, rpc.in)

(* What the logics that go on from a reply have asked.                      *)
AskedFor(ep, n, method, m) ==
  /\ ep = "FriendList" /\ n = 1 => method = "FriendList"
  /\ ep = "CreateGroup" /\ n = 1 => method = "GroupCreate"
  /\ ep = "GroupUserList" /\ n = 1 => method = "GroupUsers"
  /\ ep = "GetChatLogReadRecords" /\ n = 1 =>
       method = "GetChatLog" /\ m.MsgId \in W!Text /\ m.ConversationId = W!Unset
  /\ ep = "GetChatLogReadRecords" /\ n = 2 => method \in {"GroupUsers", "FindUser"}

MessagesFit(h) ==
  /\ h.pc \in {"parse", "logic"} => h.body \in BodyOf(h.ep) /\ h.uid \in W!Uid
  /\ \A i \in 1..Len(h.got) : RpcFits(h.got[i]) /\ AskedFor(h.ep, i, h.got[i].method, h.got[i].in)

(* A question that fits, with an answer that fits it, is kept.              *)
LEMMA HeardFits ==
  ASSUME NEW r \in Requests, DOMAIN http = Requests, Faithful(http[r]), MessagesFit(http[r]),
         http[r].pc = "logic", NEW n \in Nat, Len(http[r].got) = n,
         NEW method, NEW m, NEW ok \in BOOLEAN, NEW out,
         RpcFits([method |-> method, in |-> m, ok |-> ok, out |-> out]),
         AskedFor(http[r].ep, n + 1, method, m),
         http' = [http EXCEPT ![r].got = Append(@, [method |-> method, in |-> m, ok |-> ok, out |-> out])]
  PROVE  MessagesFit(http'[r])
<1> DEFINE rpc == [method |-> method, in |-> m, ok |-> ok, out |-> out]
           g == http[r].got
           h == [http[r] EXCEPT !.got = Append(g, rpc)]
<1>1. RpcFits(rpc) /\ rpc.method = method /\ rpc.in = m
  OBVIOUS
<1>2. http' = [http EXCEPT ![r] = h]
  OBVIOUS
<1> HIDE DEF rpc
<1>3. PICK S : g \in Seq(S)
  BY DEF Faithful
<1>4. g \in Seq(S \cup {rpc}) /\ rpc \in S \cup {rpc}
  BY <1>3
<1>5. /\ Len(Append(g, rpc)) = n + 1 /\ Append(g, rpc)[n + 1] = rpc
      /\ \A i \in 1..n : Append(g, rpc)[i] = g[i]
  BY <1>4, AppendProperties
<1>6. /\ h.got = Append(g, rpc) /\ h.ep = http[r].ep /\ h.uid = http[r].uid /\ h.body = http[r].body
  BY DEF Faithful, HttpFields
<1> HIDE DEF h
<1>7. \A i \in 1..(n + 1) : i \in 1..n \/ i = n + 1
  OBVIOUS
<1>8. http'[r] = h
  BY <1>2
<1>9. \A i \in 1..(n + 1) : RpcFits(h.got[i]) /\ AskedFor(h.ep, i, h.got[i].method, h.got[i].in)
  BY <1>1, <1>5, <1>6, <1>7 DEF MessagesFit
<1> QED
  BY <1>5, <1>6, <1>8, <1>9 DEF MessagesFit

(* Asking with a message of the method is all it takes.                     *)
LEMMA AskFits ==
  ASSUME NEW r \in Requests, DOMAIN http = Requests, Faithful(http[r]), MessagesFit(http[r]),
         http[r].pc = "logic", NEW n \in Nat, NEW method, NEW m, AskedFor(http[r].ep, n + 1, method, m)
  PROVE  /\ method \in Methods /\ m \in W!Method(method).in /\ W!Ask(r, n, method, m) => MessagesFit(http'[r])
         /\ method \in {"Hgetall", "Hset"} /\ m = <<>> /\ W!AskRedis(r, n, method) => MessagesFit(http'[r])
<1>1. ASSUME method \in Methods, m \in W!Method(method).in, W!Ask(r, n, method, m)
      PROVE  MessagesFit(http'[r])
  <2>1. /\ \A out \in W!Replies(method, m) : RpcFits([method |-> method, in |-> m, ok |-> TRUE, out |-> out])
        /\ \A out : RpcFits([method |-> method, in |-> m, ok |-> FALSE, out |-> out])
    BY <1>1 DEF RpcFits
  <2> QED
    BY <1>1, <2>1, HeardFits DEF W!Ask, W!Heard, W!Step, W!Got
<1>2. ASSUME method \in {"Hgetall", "Hset"}, m = <<>>, W!AskRedis(r, n, method)
      PROVE  MessagesFit(http'[r])
  <2>1. \A out : /\ RpcFits([method |-> method, in |-> m, ok |-> TRUE, out |-> out])
                 /\ RpcFits([method |-> method, in |-> m, ok |-> FALSE, out |-> out])
    BY <1>2 DEF RpcFits
  <2> QED
    BY <1>2, <2>1, HeardFits DEF W!AskRedis, W!Heard, W!Step, W!Got
<1> QED
  BY <1>1, <1>2

(* Nothing new is asked on the way out.                                     *)
LEMMA LeaveFits ==
  ASSUME NEW r \in Requests, DOMAIN http = Requests, Faithful(http[r]), MessagesFit(http[r])
  PROVE  /\ \A e : W!ReturnErr(r, e) => MessagesFit(http'[r])
         /\ W!Panic(r) => MessagesFit(http'[r])
         /\ W!ReturnOk(r) \/ W!GoTo(r, "set") => MessagesFit(http'[r])
         /\ \A n : W!Return(r, n) => MessagesFit(http'[r])
<1> USE DEF MessagesFit, HttpFields, Faithful
<1>1. ASSUME NEW e, W!ReturnErr(r, e) PROVE MessagesFit(http'[r])
  BY <1>1, Len(<<>>) = 0 DEF W!ReturnErr
<1>2. ASSUME W!Panic(r) PROVE MessagesFit(http'[r])
  BY <1>2, Len(<<>>) = 0 DEF W!Panic
<1>3. ASSUME NEW pc \in {"ok", "set"}, W!GoTo(r, pc) PROVE MessagesFit(http'[r])
  <2>1. /\ http'[r].got = http[r].got /\ http'[r].ep = http[r].ep /\ http'[r].pc = pc
    BY <1>3 DEF W!GoTo
  <2> QED
    BY <2>1
<1> QED
  BY <1>1, <1>2, <1>3 DEF W!Return, W!ReturnOk

(* Most endpoints build no message from a reply.                            *)
LEMMA PlainAsked ==
  ASSUME NEW ep, ep \notin {"FriendList", "CreateGroup", "GroupUserList", "GetChatLogReadRecords"}
  PROVE  \A n, method, m : AskedFor(ep, n, method, m)
BY DEF AskedFor

(* Their messages are built from the token and the body alone.              *)
LEMMA PlainFits ==
  ASSUME NEW r \in Requests, DOMAIN http = Requests, Faithful(http[r]), MessagesFit(http[r]),
         http[r].pc = "logic",
         http[r].ep \notin {"FriendList", "CreateGroup", "GroupUserList", "GetChatLogReadRecords"},
         W!Logic(r)
  PROVE  MessagesFit(http'[r])
<1> DEFINE fits == MessagesFit(http'[r])
           b == http[r].body
           u == http[r].uid
<1>1. b \in BodyOf(http[r].ep) /\ u \in W!Uid
  BY DEF MessagesFit
<1>2. /\ \A n \in Nat, method \in Methods : \A m \in W!Method(method).in : W!Ask(r, n, method, m) => fits
      /\ \A n \in Nat, method \in {"Hgetall", "Hset"} : W!AskRedis(r, n, method) => fits
      /\ \A e : W!ReturnErr(r, e) => fits
      /\ \A n : W!Return(r, n) => fits
      /\ W!Panic(r) => fits
      /\ W!ReturnOk(r) \/ W!GoTo(r, "set") => fits
  BY PlainAsked, AskFits, LeaveFits
<1> HIDE DEF fits, b, u
<1> USE DEF W!body, W!uid, b, u, W!Uid, W!Gid, W!Text, W!ChatId, W!Phone, W!ChatTypes, W!Results
<1>3. ASSUME http[r].ep = "FriendPutIn", W!FriendPutIn(r) PROVE fits
  <2>1. b \in [UserId: Uids]
    BY <1>1, <1>3, BodyTypes
  <2>2. [UserId |-> u, ReqUid |-> b.UserId, ReqMsg |-> W!Unset] \in W!FriendPutInReq
    BY <1>1, <1>3, <2>1 DEF W!FriendPutInReq
  <2>3. W!FriendPutInReq = W!Method("FriendPutIn").in
    BY MethodTypes, RpcParts
  <2> QED
    BY <1>2, <1>3, <2>2, <2>3 DEF Methods, W!FriendPutIn
<1>4. ASSUME http[r].ep = "FriendPutInHandle", W!FriendPutInHandle(r) PROVE fits
  <2>1. b \in [FriendReqId: {1}, HandleResult: {2}]
    BY <1>1, <1>4, BodyTypes
  <2>2. [FriendReqId |-> b.FriendReqId, UserId |-> u, HandleResult |-> b.HandleResult]
          \in W!FriendPutInHandleReq
    BY <1>1, <1>4, <2>1 DEF W!FriendPutInHandleReq
  <2>3. W!FriendPutInHandleReq = W!Method("FriendPutInHandle").in
    BY MethodTypes, RpcParts
  <2> QED
    BY <1>2, <1>4, <2>2, <2>3 DEF Methods, W!FriendPutInHandle
<1>5. ASSUME http[r].ep = "FriendPutInList", W!FriendPutInList(r) PROVE fits
  <2>1. [UserId |-> u] \in W!FriendPutInListReq
    BY <1>1, <1>5 DEF W!FriendPutInListReq
  <2>2. W!FriendPutInListReq = W!Method("FriendPutInList").in
    BY MethodTypes, RpcParts
  <2> QED
    BY <1>2, <1>5, <2>1, <2>2 DEF Methods, W!FriendPutInList
<1>6. ASSUME http[r].ep = "FriendsOnline", W!FriendsOnline(r) PROVE fits
  <2>1. [UserId |-> u] \in W!FriendListReq
    BY <1>1, <1>6 DEF W!FriendListReq
  <2>2. W!FriendListReq = W!Method("FriendList").in
    BY MethodTypes, RpcParts
  <2> QED
    BY <1>2, <1>6, <2>1, <2>2 DEF Methods, W!FriendsOnline
<1>7. ASSUME http[r].ep = "GroupPutIn", W!GroupPutIn(r) PROVE fits
  <2>1. b \in [GroupId: Gids, JoinSource: {1}]
    BY <1>1, <1>7, BodyTypes
  <2>2. [GroupId |-> b.GroupId, ReqId |-> u, ReqMsg |-> W!Unset, JoinSource |-> b.JoinSource,
         InviterUid |-> W!Unset] \in W!GroupPutinReq
    BY <1>1, <1>7, <2>1 DEF W!GroupPutinReq
  <2>3. W!GroupPutinReq = W!Method("GroupPutin").in
    BY MethodTypes, RpcParts
  <2>4. [SendId |-> u, RecvId |-> b.GroupId, ChatType |-> 1] \in W!SetUpUserConversationReq
    BY <1>1, <1>7, <2>1 DEF W!SetUpUserConversationReq
  <2>5. W!SetUpUserConversationReq = W!Method("SetUpUserConversation").in
    BY MethodTypes, RpcParts
  <2> QED
    BY <1>2, <1>7, <2>2, <2>4, <2>3, <2>5 DEF Methods, W!GroupPutIn
<1>8. ASSUME http[r].ep = "GroupPutInHandle", W!GroupPutInHandle(r) PROVE fits
  <2>1. b \in [GroupReqId: {1}, GroupId: Gids, HandleResult: {2, 3}]
    BY <1>1, <1>8, BodyTypes
  <2>2. [GroupReqId |-> b.GroupReqId, GroupId |-> b.GroupId, HandleUid |-> u,
         HandleResult |-> b.HandleResult] \in W!GroupPutInHandleReq
    BY <1>1, <1>8, <2>1 DEF W!GroupPutInHandleReq
  <2>3. W!GroupPutInHandleReq = W!Method("GroupPutInHandle").in
    BY MethodTypes, RpcParts
  <2>4. [SendId |-> u, RecvId |-> b.GroupId, ChatType |-> 1] \in W!SetUpUserConversationReq
    BY <1>1, <1>8, <2>1 DEF W!SetUpUserConversationReq
  <2>5. W!SetUpUserConversationReq = W!Method("SetUpUserConversation").in
    BY MethodTypes, RpcParts
  <2> QED
    BY <1>2, <1>8, <2>2, <2>4, <2>3, <2>5 DEF Methods, W!GroupPutInHandle
<1>9. ASSUME http[r].ep = "GroupPutInList", W!GroupPutInList(r) PROVE fits
  <2>1. b \in [GroupId: Gids]
    BY <1>1, <1>9, BodyTypes
  <2>2. [GroupId |-> b.GroupId] \in W!GroupPutinListReq
    BY <1>1, <1>9, <2>1 DEF W!GroupPutinListReq
  <2>3. W!GroupPutinListReq = W!Method("GroupPutinList").in
    BY MethodTypes, RpcParts
  <2> QED
    BY <1>2, <1>9, <2>2, <2>3 DEF Methods, W!GroupPutInList
<1>10. ASSUME http[r].ep = "GroupUserOnline", W!GroupUserOnline(r) PROVE fits
  <2>1. b \in [GroupId: Gids]
    BY <1>1, <1>10, BodyTypes
  <2>2. [GroupId |-> b.GroupId] \in W!GroupUsersReq
    BY <1>1, <1>10, <2>1 DEF W!GroupUsersReq
  <2>3. W!GroupUsersReq = W!Method("GroupUsers").in
    BY MethodTypes, RpcParts
  <2> QED
    BY <1>2, <1>10, <2>2, <2>3 DEF Methods, W!GroupUserOnline
<1>11. ASSUME http[r].ep = "GroupList", W!GroupList(r) PROVE fits
  <2>1. [UserId |-> u] \in W!GroupListReq
    BY <1>1, <1>11 DEF W!GroupListReq
  <2>2. W!GroupListReq = W!Method("GroupList").in
    BY MethodTypes, RpcParts
  <2> QED
    BY <1>2, <1>11, <2>1, <2>2 DEF Methods, W!GroupList
<1>12. ASSUME http[r].ep = "GetChatLog", W!GetChatLog(r) PROVE fits
  <2>1. b \in [ConversationId: ChatIds, Count: {20}]
    BY <1>1, <1>12, BodyTypes
  <2>2. [ConversationId |-> b.ConversationId, Count |-> b.Count, MsgId |-> W!Unset] \in W!GetChatLogReq
    BY <1>1, <1>12, <2>1 DEF W!GetChatLogReq
  <2>3. W!GetChatLogReq = W!Method("GetChatLog").in
    BY MethodTypes, RpcParts
  <2> QED
    BY <1>2, <1>12, <2>2, <2>3 DEF Methods, W!GetChatLog
<1>13. ASSUME http[r].ep = "GetConversations", W!GetConversations(r) PROVE fits
  <2>1. [UserId |-> u] \in W!GetConversationsReq
    BY <1>1, <1>13 DEF W!GetConversationsReq
  <2>2. W!GetConversationsReq = W!Method("GetConversations").in
    BY MethodTypes, RpcParts
  <2> QED
    BY <1>2, <1>13, <2>1, <2>2 DEF Methods, W!GetConversations
<1>14. ASSUME http[r].ep = "SetUpUserConversation", W!SetUpUserConversation(r) PROVE fits
  <2>1. b \in [SendId: Uids, RecvId: Uids, ChatType: {2}]
    BY <1>1, <1>14, BodyTypes
  <2>2. [SendId |-> b.SendId, RecvId |-> b.RecvId, ChatType |-> b.ChatType] \in W!SetUpUserConversationReq
    BY <1>1, <1>14, <2>1 DEF W!SetUpUserConversationReq
  <2>3. W!SetUpUserConversationReq = W!Method("SetUpUserConversation").in
    BY MethodTypes, RpcParts
  <2> QED
    BY <1>2, <1>14, <2>2, <2>3 DEF Methods, W!SetUpUserConversation
<1>15. ASSUME http[r].ep = "Register", W!Register(r) PROVE fits
  <2>1. b \in [Phone: Phones, Password: Texts, Nickname: Texts, Sex: {1}, Avatar: Texts]
    BY <1>1, <1>15, BodyTypes
  <2>2. [Phone |-> b.Phone, Nickname |-> b.Nickname, Password |-> b.Password,
         Avatar |-> b.Avatar, Sex |-> b.Sex] \in W!RegisterReq
    BY <1>1, <1>15, <2>1 DEF W!RegisterReq
  <2>3. W!RegisterReq = W!Method("Register").in
    BY MethodTypes, RpcParts
  <2> QED
    BY <1>2, <1>15, <2>2, <2>3 DEF Methods, W!Register
<1>16. ASSUME http[r].ep = "Login", W!Login(r) PROVE fits
  <2>1. b \in [Phone: Phones, Password: Texts]
    BY <1>1, <1>16, BodyTypes
  <2>2. [Phone |-> b.Phone, Password |-> b.Password] \in W!LoginReq
    BY <1>1, <1>16, <2>1 DEF W!LoginReq
  <2>3. W!LoginReq = W!Method("Login").in
    BY MethodTypes, RpcParts
  <2> QED
    BY <1>2, <1>16, <2>2, <2>3 DEF Methods, W!Login
<1>17. ASSUME http[r].ep = "Detail", W!Detail(r) PROVE fits
  <2>1. [Id |-> u] \in W!GetUserInfoReq
    BY <1>1, <1>17 DEF W!GetUserInfoReq
  <2>2. W!GetUserInfoReq = W!Method("GetUserInfo").in
    BY MethodTypes, RpcParts
  <2> QED
    BY <1>2, <1>17, <2>1, <2>2 DEF Methods, W!Detail
<1>18. ASSUME http[r].ep = "PutConversations", W!PutConversations(r) PROVE fits
  <2>1. b \in [ConversationList: W!MapOf(ChatIds, W!SeenConversation)]
    BY <1>1, <1>18, BodyTypes
  <2> DEFINE Copied(c) == [ConversationId |-> c.ConversationId, ChatType |-> c.ChatType,
                           TargetId |-> c.TargetId, IsShow |-> c.IsShow, Seq |-> c.Seq,
                           Total |-> c.Total, ToRead |-> 0, Read |-> c.Read]
             list == {<<e[1], Copied(e[2])>> : e \in b.ConversationList}
  <2>2. \A c \in W!SeenConversation : Copied(c) \in W!Conversation
    <3>1. ASSUME NEW c \in W!SeenConversation
          PROVE  /\ c.ConversationId \in W!ChatId /\ c.ChatType \in W!ChatTypes
                 /\ c.TargetId \in W!Uid \cup W!Gid /\ c.Seq \in Nat
                 /\ c.Total \in Nat /\ 0 \in Nat /\ c.Read \in Nat
      BY DEF W!SeenConversation
    <3>2. ASSUME NEW c \in W!SeenConversation PROVE c.IsShow \in BOOLEAN
      <4>1. c.IsShow \in {TRUE}
        BY DEF W!SeenConversation
      <4> QED
        BY <4>1
    <3> QED
      BY <3>1, <3>2 DEF W!Conversation
  <2>3. b.ConversationList \in SUBSET (ChatIds \X W!SeenConversation)
    BY <1>1, <1>18, <2>1 DEF W!MapOf
  <2>4. list \in W!MapOf(ChatIds, W!Conversation)
    BY <2>2, <2>3 DEF W!MapOf
  <2>5. [Id |-> W!Unset, UserId |-> u, ConversationList |-> list] \in W!PutConversationsReq
    BY <1>1, <2>4 DEF W!PutConversationsReq
  <2>6. W!PutConversationsReq = W!Method("PutConversations").in
    BY MethodTypes, RpcParts
  <2> QED
    BY <1>2, <1>18, <2>5, <2>6 DEF Methods, W!PutConversations
<1> QED
  BY <1>3, <1>4, <1>5, <1>6, <1>7, <1>8, <1>9, <1>10, <1>11, <1>12, <1>13, <1>14, <1>15, <1>16,
     <1>17, <1>18 DEF W!Logic, W!Ep, fits

(* What an answer that did not fail is.                                     *)
LEMMA AnswerFits ==
  ASSUME NEW r \in Requests, MessagesFit(http[r]), NEW n \in Nat \ {0}, W!Step(r, n)
  PROVE  LET rpc == http[r].got[n]
         IN /\ AskedFor(http[r].ep, n, rpc.method, rpc.in)
            /\ ~W!Failed(r, n) /\ rpc.method \in Methods =>
                 /\ W!Out(r, n) \in W!Replies(rpc.method, rpc.in)
                 /\ W!Out(r, n) \in W!Method(rpc.method).out
<1> DEFINE rpc == http[r].got[n]
<1>1. RpcFits(rpc) /\ AskedFor(http[r].ep, n, rpc.method, rpc.in)
  BY DEF MessagesFit, W!Step, W!Got
<1>2. ASSUME ~W!Failed(r, n), rpc.method \in Methods
      PROVE  W!Out(r, n) \in W!Replies(rpc.method, rpc.in) /\ W!Out(r, n) \in W!Method(rpc.method).out
  <2>1. rpc.method \notin {"Hgetall", "Hset"}
    BY <1>2 DEF Methods
  <2>2. rpc.in \in W!Method(rpc.method).in /\ W!Out(r, n) \in W!Replies(rpc.method, rpc.in)
    BY <1>1, <1>2, <2>1 DEF RpcFits, W!Failed, W!Got, W!Out
  <2> QED
    BY <1>2, <2>2, RepliesTyped
<1> QED
  BY <1>1, <1>2

(* FindUser takes ids of users.                                             *)
LEMMA FindUserFits ==
  ASSUME NEW ids \in Seq(W!Uid)
  PROVE  [Name |-> W!Unset, Phone |-> W!Unset, Ids |-> ids] \in W!Method("FindUser").in
<1>1. [Name |-> W!Unset, Phone |-> W!Unset, Ids |-> ids] \in W!FindUserReq
  BY DEF W!FindUserReq, W!Text, W!Phone
<1> QED
  BY <1>1, MethodTypes, RpcParts

(* The ids of a group's members are ids of users.                           *)
LEMMA MembersFit ==
  ASSUME NEW out \in W!Method("GroupUsers").out
  PROVE  W!Ids(out.List) \in Seq(W!Uid)
<1>1. out \in W!GroupUsersResp
  BY MethodTypes, RpcParts
<1>2. out.List \in Seq(W!GroupMembers)
  BY <1>1 DEF W!GroupUsersResp
<1>3. \A x \in W!GroupMembers : x.UserId \in W!Uid
  BY DEF W!GroupMembers
<1> QED
  BY <1>2, <1>3 DEF W!Ids

(* The users of a friend list.                                              *)
LEMMA FriendListFits ==
  ASSUME NEW r \in Requests, DOMAIN http = Requests, Faithful(http[r]), MessagesFit(http[r]),
         http[r].pc = "logic", http[r].ep = "FriendList", W!FriendList(r)
  PROVE  MessagesFit(http'[r])
<1>1. \A n, m : n # 1 => AskedFor("FriendList", n, "FindUser", m)
  BY DEF AskedFor
<1>2. \A m : AskedFor("FriendList", 1, "FriendList", m)
  BY DEF AskedFor
<1>3. ASSUME W!Ask(r, 0, "FriendList", [UserId |-> W!uid(r)]) PROVE MessagesFit(http'[r])
  <2>1. [UserId |-> W!uid(r)] \in W!FriendListReq
    BY DEF MessagesFit, W!uid, W!FriendListReq
  <2>2. [UserId |-> W!uid(r)] \in W!Method("FriendList").in
    BY <2>1, MethodTypes, RpcParts
  <2> QED
    BY <1>2, <1>3, <2>2, AskFits DEF Methods
<1>4. ASSUME W!Step(r, 1), ~W!Failed(r, 1), NEW ids,
             ids = [i \in DOMAIN W!Out(r, 1).List |-> W!Out(r, 1).List[i].FriendUid],
             W!Ask(r, 1, "FindUser", [Name |-> W!Unset, Phone |-> W!Unset, Ids |-> ids])
      PROVE  MessagesFit(http'[r])
  <2>1. W!Out(r, 1) \in W!Method("FriendList").out
    BY <1>4, AnswerFits DEF AskedFor, Methods
  <2>2. W!Out(r, 1) \in W!FriendListResp
    BY <2>1, MethodTypes, RpcParts
  <2>3. W!Out(r, 1).List \in Seq(W!Friends) /\ \A x \in W!Friends : x.FriendUid \in W!Uid
    BY <2>2 DEF W!FriendListResp, W!Friends
  <2>4. ids \in Seq(W!Uid)
    BY <1>4, <2>3
  <2>5. [Name |-> W!Unset, Phone |-> W!Unset, Ids |-> ids] \in W!Method("FindUser").in
    BY <2>4, FindUserFits
  <2> QED
    BY <1>1, <1>4, <2>5, AskFits DEF Methods
<1> QED
  BY <1>3, <1>4, LeaveFits DEF W!FriendList

(* The conversation of the group that was created.                          *)
LEMMA CreateGroupFits ==
  ASSUME NEW r \in Requests, DOMAIN http = Requests, Faithful(http[r]), MessagesFit(http[r]),
         http[r].pc = "logic", http[r].ep = "CreateGroup", W!CreateGroup(r)
  PROVE  MessagesFit(http'[r])
<1> DEFINE b == http[r].body
           u == http[r].uid
           ask1 == [Name |-> b.Name, Icon |-> b.Icon, CreatorUid |-> u]
           ask2 == [GroupId |-> W!Out(r, 1).Id, CreateId |-> u]
<1>1. b \in [Name: Texts, Icon: Texts] /\ u \in W!Uid
  BY BodyTypes DEF MessagesFit
<1>2. ASSUME W!Ask(r, 0, "GroupCreate", ask1) PROVE MessagesFit(http'[r])
  <2>1. ask1 \in W!GroupCreateReq
    BY <1>1 DEF W!GroupCreateReq, W!Text
  <2>2. ask1 \in W!Method("GroupCreate").in
    BY <2>1, MethodTypes, RpcParts
  <2>3. \A m : AskedFor("CreateGroup", 1, "GroupCreate", m)
    BY DEF AskedFor
  <2> QED
    BY <1>2, <2>2, <2>3, AskFits DEF Methods
<1>3. ASSUME W!Step(r, 1), ~W!Failed(r, 1), W!Ask(r, 1, "CreateGroupConversation", ask2)
      PROVE  MessagesFit(http'[r])
  <2>1. W!Out(r, 1) \in W!Method("GroupCreate").out
    BY <1>3, AnswerFits DEF AskedFor, Methods
  <2>2. W!Out(r, 1) \in W!GroupCreateResp
    BY <2>1, MethodTypes, RpcParts
  <2>3. ask2 \in W!CreateGroupConversationReq
    BY <1>1, <2>2 DEF W!GroupCreateResp, W!CreateGroupConversationReq
  <2>4. ask2 \in W!Method("CreateGroupConversation").in
    BY <2>3, MethodTypes, RpcParts
  <2>5. \A m : AskedFor("CreateGroup", 2, "CreateGroupConversation", m)
    BY DEF AskedFor
  <2> HIDE DEF ask2
  <2> QED
    BY <1>3, <2>4, <2>5, AskFits DEF Methods
<1> QED
  BY <1>2, <1>3, LeaveFits DEF W!CreateGroup, W!body, W!uid

(* The users of a group's members.                                          *)
LEMMA GroupUserListFits ==
  ASSUME NEW r \in Requests, DOMAIN http = Requests, Faithful(http[r]), MessagesFit(http[r]),
         http[r].pc = "logic", http[r].ep = "GroupUserList", W!GroupUserList(r)
  PROVE  MessagesFit(http'[r])
<1> DEFINE b == http[r].body
           ask1 == [GroupId |-> b.GroupId]
           ask2 == [Name |-> W!Unset, Phone |-> W!Unset, Ids |-> W!Ids(W!Out(r, 1).List)]
<1>1. b \in [GroupId: Gids]
  BY BodyTypes DEF MessagesFit
<1>2. ASSUME W!Ask(r, 0, "GroupUsers", ask1) PROVE MessagesFit(http'[r])
  <2>1. ask1 \in W!GroupUsersReq
    BY <1>1 DEF W!GroupUsersReq, W!Gid
  <2>2. ask1 \in W!Method("GroupUsers").in
    BY <2>1, MethodTypes, RpcParts
  <2>3. \A m : AskedFor("GroupUserList", 1, "GroupUsers", m)
    BY DEF AskedFor
  <2> QED
    BY <1>2, <2>2, <2>3, AskFits DEF Methods
<1>3. ASSUME W!Step(r, 1), ~W!Failed(r, 1), W!Ask(r, 1, "FindUser", ask2)
      PROVE  MessagesFit(http'[r])
  <2>1. W!Out(r, 1) \in W!Method("GroupUsers").out
    BY <1>3, AnswerFits DEF AskedFor, Methods
  <2>2. ask2 \in W!Method("FindUser").in
    BY <2>1, MembersFit, FindUserFits
  <2>3. \A m : AskedFor("GroupUserList", 2, "FindUser", m)
    BY DEF AskedFor
  <2> QED
    BY <1>3, <2>2, <2>3, AskFits DEF Methods
<1> QED
  BY <1>2, <1>3, LeaveFits DEF W!GroupUserList, W!body

(* Who has read a message: a group chat's log names a group, any other one  *)
(* the users that talk.                                                     *)
LEMMA ReadRecordsFit ==
  ASSUME NEW r \in Requests, DOMAIN http = Requests, Faithful(http[r]), MessagesFit(http[r]),
         http[r].pc = "logic", http[r].ep = "GetChatLogReadRecords", W!GetChatLogReadRecords(r)
  PROVE  MessagesFit(http'[r])
<1> DEFINE b == http[r].body
           ask1 == [ConversationId |-> W!Unset, Count |-> 0, MsgId |-> b.MsgId]
           log == W!Out(r, 1).List[1]
           ask2 == [GroupId |-> log.RecvId]
           Find(ids) == [Name |-> W!Unset, Phone |-> W!Unset, Ids |-> ids]
           Only(n, method) == \A m : AskedFor("GetChatLogReadRecords", n, method, m)
<1>1. b \in [MsgId: W!Text]
  BY BodyTypes DEF MessagesFit
<1>2. Only(2, "GroupUsers") /\ Only(2, "FindUser") /\ Only(3, "FindUser")
  BY DEF AskedFor
<1>3. ASSUME W!Ask(r, 0, "GetChatLog", ask1) PROVE MessagesFit(http'[r])
  <2>1. ask1 \in W!GetChatLogReq
    BY <1>1 DEF W!GetChatLogReq, W!ChatId
  <2>2. ask1 \in W!Method("GetChatLog").in
    BY <2>1, MethodTypes, RpcParts
  <2>3. AskedFor("GetChatLogReadRecords", 1, "GetChatLog", ask1)
    BY <1>1 DEF AskedFor
  <2> HIDE DEF ask1
  <2> QED
    BY <1>3, <2>2, <2>3, AskFits DEF Methods
<1>4. ASSUME W!Step(r, 1), ~W!Failed(r, 1), W!Out(r, 1).List # <<>>
      PROVE  /\ log.SendId \in Uids
             /\ log.ChatType = 1 => log.RecvId \in Gids
             /\ log.ChatType = 2 => log.RecvId \in Uids
  <2>1. PICK m : /\ m.MsgId \in W!Text /\ m.ConversationId = W!Unset
                 /\ W!Out(r, 1) \in W!Replies("GetChatLog", m)
    BY <1>4, AnswerFits DEF AskedFor, Methods
  <2>2. W!Out(r, 1) \in W!GetChatLogOf(m)
    BY <2>1 DEF W!Replies
  <2>3. CASE m.MsgId # W!Unset
    <3>1. PICK k \in ChatIds, u \in Uids, to \in W!Receivers :
            W!Out(r, 1) = [List |-> <<[Id |-> m.MsgId, ConversationId |-> k, SendId |-> u, RecvId |-> to[1],
                                       ChatType |-> to[2], ReadRecords |-> <<>>]>>]
      BY <2>2, <2>3 DEF W!GetChatLogOf
    <3>2. log.RecvId = to[1] /\ log.SendId = u /\ log.ChatType = to[2]
      BY <3>1
    <3> QED
      BY <3>2 DEF W!Receivers
  <2>4. CASE m.MsgId = W!Unset
    <3>1. PICK u \in Uids :
            W!Out(r, 1) = [List |-> <<[Id |-> W!Unset, ConversationId |-> m.ConversationId, SendId |-> u,
                                       RecvId |-> u, ChatType |-> 0, ReadRecords |-> <<>>]>>]
      BY <1>4, <2>1, <2>2, <2>4 DEF W!GetChatLogOf, W!Lists
    <3>2. log.SendId = u /\ log.ChatType = 0
      BY <3>1
    <3> QED
      BY <3>2
  <2> QED
    BY <2>3, <2>4
<1>5. ASSUME W!Step(r, 1), ~W!Failed(r, 1), W!Out(r, 1).List # <<>>, log.ChatType = 1,
             W!Ask(r, 1, "GroupUsers", ask2)
      PROVE  MessagesFit(http'[r])
  <2>1. ask2 \in W!GroupUsersReq
    BY <1>4, <1>5 DEF W!GroupUsersReq, W!Gid
  <2>2. ask2 \in W!Method("GroupUsers").in
    BY <2>1, MethodTypes, RpcParts
  <2> HIDE DEF ask2
  <2> QED
    BY <1>2, <1>5, <2>2, AskFits DEF Methods
<1>6. ASSUME W!Step(r, 1), ~W!Failed(r, 1), W!Out(r, 1).List # <<>>, log.ChatType = 2,
             W!Ask(r, 1, "FindUser", Find(<<log.RecvId, log.SendId>>))
      PROVE  MessagesFit(http'[r])
  <2>1. <<log.RecvId, log.SendId>> \in Seq(W!Uid)
    BY <1>4, <1>6 DEF W!Uid
  <2>2. Find(<<log.RecvId, log.SendId>>) \in W!Method("FindUser").in
    BY <2>1, FindUserFits
  <2> DEFINE ask3 == Find(<<log.RecvId, log.SendId>>)
  <2>3. AskedFor(http[r].ep, 1 + 1, "FindUser", ask3)
    BY <1>2
  <2>4. ask3 \in W!Method("FindUser").in /\ W!Ask(r, 1, "FindUser", ask3)
    BY <1>6, <2>2
  <2> HIDE DEF ask3
  <2> QED
    BY <2>3, <2>4, AskFits DEF Methods
<1>7. ASSUME W!Step(r, 2), ~W!Failed(r, 2), W!Got(r)[2].method # "FindUser",
             W!Ask(r, 2, "FindUser", Find(W!Ids(W!Out(r, 2).List)))
      PROVE  MessagesFit(http'[r])
  <2>1. W!Out(r, 2) \in W!Method("GroupUsers").out
    BY <1>7, AnswerFits DEF AskedFor, Methods, W!Got
  <2>2. Find(W!Ids(W!Out(r, 2).List)) \in W!Method("FindUser").in
    BY <2>1, MembersFit, FindUserFits
  <2> DEFINE ask3 == Find(W!Ids(W!Out(r, 2).List))
  <2>3. AskedFor(http[r].ep, 2 + 1, "FindUser", ask3)
    BY <1>2
  <2>4. ask3 \in W!Method("FindUser").in /\ W!Ask(r, 2, "FindUser", ask3)
    BY <1>7, <2>2
  <2> HIDE DEF ask3
  <2> QED
    BY <2>3, <2>4, AskFits DEF Methods
<1>8. ASSUME W!Step(r, 1), W!Ask(r, 1, "FindUser", Find(<<>>))
      PROVE  MessagesFit(http'[r])
  <2>0. <<>> \in Seq(W!Uid)
    OBVIOUS
  <2>1. Find(<<>>) \in W!Method("FindUser").in
    BY <2>0, FindUserFits
  <2> DEFINE ask3 == Find(<<>>)
  <2>2. AskedFor(http[r].ep, 1 + 1, "FindUser", ask3)
    BY <1>2
  <2>3. ask3 \in W!Method("FindUser").in /\ W!Ask(r, 1, "FindUser", ask3)
    BY <1>8, <2>1
  <2> HIDE DEF ask3
  <2> QED
    BY <2>2, <2>3, AskFits DEF Methods
<1> QED
  BY <1>3, <1>5, <1>6, <1>7, <1>8, LeaveFits DEF W!GetChatLogReadRecords, W!body

(* The messages of every endpoint.                                          *)
LEMMA LogicFits ==
  ASSUME NEW r \in Requests, DOMAIN http = Requests, Faithful(http[r]), MessagesFit(http[r]), W!Logic(r)
  PROVE  MessagesFit(http'[r])
<1>1. http[r].pc = "logic"
  BY DEF W!Logic
<1>2. CASE http[r].ep \notin {"FriendList", "CreateGroup", "GroupUserList", "GetChatLogReadRecords"}
  BY <1>1, <1>2, PlainFits
<1>3. CASE http[r].ep = "FriendList"
  BY <1>1, <1>3, FriendListFits DEF W!Logic, W!Ep
<1>4. CASE http[r].ep = "CreateGroup"
  BY <1>1, <1>4, CreateGroupFits DEF W!Logic, W!Ep
<1>5. CASE http[r].ep = "GroupUserList"
  BY <1>1, <1>5, GroupUserListFits DEF W!Logic, W!Ep
<1>6. CASE http[r].ep = "GetChatLogReadRecords"
  BY <1>1, <1>6, ReadRecordsFit DEF W!Logic, W!Ep
<1> QED
  BY <1>2, <1>3, <1>4, <1>5, <1>6

(* The service is one of the three, and all messages fit.                   *)
FitInv == service \in DOMAIN W!Routes /\ \A r \in Requests : MessagesFit(http[r])

(* Whatever step a request makes, its messages fit.                         *)
LEMMA FitStep == GateInv /\ FitInv /\ W!Next => FitInv'
<1> SUFFICES ASSUME GateInv, FitInv, NEW r \in Requests,
                    \/ \E ep \in W!Routes[service], header \in Headers \cup {W!NoHeader} :
                         \E u \in W!Tokens(ep), b \in W!Bodies[service][ep] : W!Arrive(r, ep, u, b, header)
                    \/ W!Parse(r) \/ W!Logic(r) \/ W!SetLoad(r) \/ W!SetStore(r)
                    \/ W!OkHandler(r) \/ W!ErrHandler(r) \/ W!Cleanup(r) \/ W!CleanupByReqID(r)
             PROVE  FitInv'
  BY DEF W!Next
<1>1. DOMAIN http = Requests /\ Faithful(http[r]) /\ MessagesFit(http[r])
  BY DEF GateInv, FitInv
<1>2. ASSUME MessagesFit(http'[r]), \A q \in Requests \ {r} : http'[q] = http[q], service' = service
      PROVE  FitInv'
  <2>1. \A q \in Requests : MessagesFit(http'[q])
    BY <1>2 DEF FitInv
  <2> QED
    BY <1>2, <2>1 DEF FitInv, MessagesFit
<1>3. ASSUME NEW ep \in W!Routes[service], NEW header, NEW u \in W!Tokens(ep),
             NEW b \in W!Bodies[service][ep], W!Arrive(r, ep, u, b, header)
      PROVE  FitInv'
  <2>1. b \in BodyOf(ep) /\ u \in W!Uid
    BY <1>3, BodiesAre, TokenAssumption DEF FitInv, W!Tokens, W!Uid
  <2>2. /\ http'[r].ep = ep /\ http'[r].uid = u /\ http'[r].body = b /\ http'[r].got = <<>>
        /\ \A q \in Requests \ {r} : http'[q] = http[q]
        /\ service' = service
    BY <1>1, <1>3 DEF W!Arrive, W!NoRequest
  <2>3. MessagesFit(http'[r])
    BY <2>1, <2>2, Len(<<>>) = 0 DEF MessagesFit
  <2> QED
    BY <1>2, <2>2, <2>3
<1>4. ASSUME W!Parse(r) PROVE FitInv'
  <2>1. /\ \A q \in Requests \ {r} : http'[q] = http[q]
        /\ service' = service
    BY <1>1, <1>4 DEF W!Parse, W!GoTo, W!ReturnErr
  <2>2. ASSUME W!GoTo(r, "logic") PROVE MessagesFit(http'[r])
    <3>1. /\ http[r].pc = "parse" /\ http'[r].got = http[r].got /\ http'[r].ep = http[r].ep
          /\ http'[r].body = http[r].body /\ http'[r].uid = http[r].uid
      BY <1>1, <1>4, <2>2 DEF W!Parse, W!GoTo, Faithful, HttpFields
    <3> QED
      BY <1>1, <3>1 DEF MessagesFit
  <2> QED
    BY <1>1, <1>2, <1>4, <2>1, <2>2, LeaveFits DEF W!Parse
<1>5. ASSUME W!Logic(r) PROVE FitInv'
  <2>1. Moves(r) /\ service' = service /\ MessagesFit(http'[r])
    BY <1>1, <1>5, LogicMoves, LogicFits
  <2> QED
    BY <1>2, <2>1 DEF Moves
<1>6. ASSUME W!SetLoad(r) \/ W!SetStore(r) \/ W!OkHandler(r) \/ W!ErrHandler(r) \/ W!Cleanup(r)
      PROVE  FitInv'
  <2>1. /\ \A q \in Requests \ {r} : http'[q] = http[q]
        /\ service' = service
        /\ http'[r].got = http[r].got /\ http'[r].ep = http[r].ep
        /\ http'[r].pc \notin {"parse", "logic"}
    BY <1>1, <1>6 DEF W!SetLoad, W!SetStore, W!OkHandler, W!ErrHandler, W!Cleanup, W!GoTo,
       Faithful, HttpFields
  <2>2. MessagesFit(http'[r])
    BY <1>1, <2>1 DEF MessagesFit
  <2> QED
    BY <1>2, <2>1, <2>2
<1>7. ASSUME W!CleanupByReqID(r) PROVE FitInv'
  <2>1. /\ \A q \in Requests \ {r} : http'[q] = http[q]
        /\ service' = service
        /\ http'[r].got = <<>> /\ http'[r].pc = "done"
    BY <1>1, <1>7 DEF W!CleanupByReqID, W!NoRequest
  <2>2. MessagesFit(http'[r])
    BY <2>1, Len(<<>>) = 0 DEF MessagesFit
  <2> QED
    BY <1>2, <2>1, <2>2
<1> QED
  BY <1>3, <1>4, <1>5, <1>6, <1>7

(* GatewayRpcsAreTyped: every message a logic builds is one of the method   *)
(* it calls, and so is every reply it builds the next from.                 *)
THEOREM GatewayRpcsAreTyped == SocialSpec => []RpcsAreTyped
<1>1. SocialInit => FitInv
  <2> SUFFICES ASSUME W!Init PROVE FitInv
    BY DEF SocialInit
  <2>1. http = [r \in Requests |-> W!NoRequest] /\ service \in DOMAIN W!Routes
    BY DEF W!Init
  <2>2. MessagesFit(W!NoRequest)
    BY Len(<<>>) = 0 DEF W!NoRequest, MessagesFit
  <2> QED
    BY <2>1, <2>2 DEF FitInv
<1>2. GateInv /\ FitInv /\ [SocialNext]_<<part, vars, groupVars, userVars, gatewayVars>> => FitInv'
  <2>1. CASE W!Next
    BY <2>1, FitStep
  <2>2. CASE UNCHANGED gatewayVars
    BY <2>2 DEF gatewayVars, FitInv, MessagesFit
  <2> QED
    BY <2>1, <2>2 DEF SocialNext
<1>3. GateInv /\ FitInv => RpcsAreTyped
  <2> SUFFICES ASSUME GateInv, FitInv, NEW r \in Requests, NEW i \in DOMAIN W!Got(r),
                      W!Got(r)[i].method \notin {"Hgetall", "Hset"}
               PROVE  /\ W!Got(r)[i].in \in W!Method(W!Got(r)[i].method).in
                      /\ W!Failed(r, i) \/ W!Got(r)[i].out \in W!Method(W!Got(r)[i].method).out
    BY DEF RpcsAreTyped, W!RpcsAreTyped
  <2> DEFINE rpc == http[r].got[i]
  <2>1. i \in 1..Len(http[r].got)
    BY DEF GateInv, Faithful, W!Got
  <2>2. RpcFits(rpc)
    BY <2>1 DEF FitInv, MessagesFit
  <2>3. /\ rpc.method \in Methods /\ rpc.in \in W!Method(rpc.method).in
        /\ rpc.ok => rpc.out \in W!Replies(rpc.method, rpc.in)
    BY <2>2 DEF RpcFits, W!Got
  <2>4. rpc.ok => rpc.out \in W!Method(rpc.method).out
    BY <2>3, RepliesTyped
  <2> QED
    BY <2>3, <2>4 DEF W!Failed, W!Got
<1> QED
  BY <1>1, <1>2, <1>3, GateInvariant, PTL DEF SocialSpec
=============================================================================
