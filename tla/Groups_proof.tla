---------------------------- MODULE Groups_proof ----------------------------
(***************************************************************************)
(* Proofs about Groups, for any groups, users, calls and number of         *)
(* requests.                                                               *)
(***************************************************************************)
EXTENDS Groups, SequenceTheorems, TLAPS

(* What the proofs take of the constants: nobody is called "none", and the  *)
(* groups that exist from the start have a user as their founder.           *)
Setting ==
  /\ "none" \notin Users /\ Founder \in Users
  /\ Verified \subseteq Rooms
  /\ MaxRequests \in Nat

-----------------------------------------------------------------------------
(* Types *)

Row == [group: Rooms, user: Users, result: Results]
Creates == {"group", "owner", "conversation"}
Joins == {"member", "request", "verify", "ask", "join"}
Handles == {"find", "update", "evict"}
Call == [pc: Creates \cup Joins \cup Handles \cup {"idle", "done"}, group: Rooms \cup {"none"},
         user: Users \cup {"none"}, by: Users \cup {"none"}, id: Ids \cup {0},
         result: Results \cup {"none"}]

(* What a call knows by the step it has come to, with the requests in r.    *)
Fits(call, r) ==
  /\ call.pc \notin {"idle", "done"} => call.group \in Rooms /\ call.user \in Users
  /\ call.pc = "ask" => call.result \in Results
  /\ call.pc \in Handles =>
       /\ call.id \in DOMAIN r /\ call.result \in Results
       /\ r[call.id].group = call.group /\ r[call.id].user = call.user

TypeOK ==
  /\ groups \subseteq Rooms
  /\ owner \in [Rooms -> Users \cup {"none"}]
  /\ members \in [Rooms \X Users -> Nat]
  /\ requests \in Seq(Row) /\ Len(requests) <= MaxRequests
  /\ cached \in [Ids -> Results \cup {"none"}]
  /\ calls \in [Calls -> Call]
  /\ \A c \in Calls : Fits(calls[c], requests)

(* The places of the table are ids, and every row is a row.                 *)
LEMMA RowsAt ==
  ASSUME Setting, TypeOK, NEW i \in DOMAIN requests
  PROVE  i \in Ids /\ i \in 1..Len(requests) /\ requests[i] \in Row
BY DEF Setting, TypeOK, Ids

(* Rows are added and get other results; whose they are stays.              *)
RowsStay ==
  \A i \in DOMAIN requests :
    /\ i \in DOMAIN requests'
    /\ requests'[i].group = requests[i].group /\ requests'[i].user = requests[i].user

LEMMA AnsweredCall ==
  Answered \in Call /\ Answered.pc = "done" /\ Answered.group = "none" /\ NoCall \in Call
BY DEF Answered, NoCall, Call

(* One call takes a step and the others stay.                               *)
LEMMA OneCall ==
  ASSUME TypeOK, NEW c \in Calls, NEW x, calls' = [calls EXCEPT ![c] = x]
  PROVE  calls'[c] = x /\ \A d \in Calls \ {c} : calls'[d] = calls[d]
BY DEF TypeOK

LEMMA CallStep ==
  ASSUME TypeOK, NEW c \in Calls, NEW x \in Call, calls' = [calls EXCEPT ![c] = x],
         RowsStay, Fits(x, requests')
  PROVE  calls' \in [Calls -> Call] /\ \A d \in Calls : Fits(calls'[d], requests')
<1>1. calls' \in [Calls -> Call]
  BY DEF TypeOK
<1>2. ASSUME NEW d \in Calls, d # c PROVE Fits(calls'[d], requests')
  <2>1. calls'[d] = calls[d] /\ Fits(calls[d], requests)
    BY <1>2 DEF TypeOK
  <2> QED
    BY <2>1 DEF Fits, RowsStay
<1> QED
  BY <1>1, <1>2, OneCall

(* The step changes, the rest of the call stays.                            *)
LEMMA ContinueCall ==
  ASSUME TypeOK, NEW c \in Calls, NEW pc \in Creates \cup Joins \cup Handles, Continue(c, pc)
  PROVE  \E x \in Call :
           /\ calls' = [calls EXCEPT ![c] = x]
           /\ x.pc = pc /\ x.group = calls[c].group /\ x.user = calls[c].user
           /\ x.by = calls[c].by /\ x.id = calls[c].id /\ x.result = calls[c].result
<1> DEFINE x == [calls[c] EXCEPT !.pc = pc]
<1>1. calls[c] \in Call
  BY DEF TypeOK
<1>2. calls' = [calls EXCEPT ![c] = x]
  BY DEF Continue
<1>3. x \in Call
  BY <1>1 DEF Call
<1> QED
  BY <1>1, <1>2, <1>3 DEF Call

LEMMA ContinueStep ==
  ASSUME TypeOK, NEW c \in Calls, Active(c), NEW pc \in Creates \cup Joins \cup Handles, Continue(c, pc),
         RowsStay, pc = "ask" => calls[c].result \in Results,
         pc \in Handles => calls[c].pc \in Handles
  PROVE  calls' \in [Calls -> Call] /\ \A d \in Calls : Fits(calls'[d], requests')
<1>1. PICK x \in Call :
           /\ calls' = [calls EXCEPT ![c] = x]
           /\ x.pc = pc /\ x.group = calls[c].group /\ x.user = calls[c].user
           /\ x.by = calls[c].by /\ x.id = calls[c].id /\ x.result = calls[c].result
  BY ContinueCall
<1>2. Fits(calls[c], requests)
  BY DEF TypeOK
<1>3. Fits(x, requests')
  BY <1>1, <1>2 DEF Fits, RowsStay, Active
<1> QED
  BY <1>1, <1>3, CallStep

LEMMA AnswerStep ==
  ASSUME TypeOK, NEW c \in Calls, Answer(c), RowsStay
  PROVE  calls' \in [Calls -> Call] /\ \A d \in Calls : Fits(calls'[d], requests')
<1>1. Fits(Answered, requests')
  BY AnsweredCall DEF Fits, Handles
<1> QED
  BY <1>1, AnsweredCall, CallStep DEF Answer

(* A new row is the last; the others stay.                                  *)
LEMMA NewRow ==
  ASSUME Setting, TypeOK, NEW c \in Calls, InsertRequest(c, TRUE)
  PROVE  /\ requests' \in Seq(Row) /\ Len(requests') <= MaxRequests
         /\ Len(requests') = Len(requests) + 1
         /\ DOMAIN requests' = DOMAIN requests \cup {Len(requests) + 1}
         /\ \A i \in DOMAIN requests : i \in DOMAIN requests' /\ requests'[i] = requests[i]
         /\ Len(requests) + 1 \in Ids \ DOMAIN requests
         /\ requests'[Len(requests) + 1] =
              [group |-> calls[c].group, user |-> calls[c].user, result |-> calls[c].result]
<1> DEFINE row == [group |-> calls[c].group, user |-> calls[c].user, result |-> calls[c].result]
<1>1. row \in Row
  BY DEF InsertRequest, TypeOK, Fits, Row
<1>2. requests' = Append(requests, row)
  BY DEF InsertRequest
<1> HIDE DEF row
<1>3. requests \in Seq(Row)
  BY DEF TypeOK
<1>4. /\ requests' \in Seq(Row) /\ Len(requests') = Len(requests) + 1
      /\ \A i \in 1..Len(requests) : requests'[i] = requests[i]
      /\ requests'[Len(requests) + 1] = row
  BY <1>1, <1>2, <1>3, AppendProperties
<1>5. Len(requests) < MaxRequests /\ Len(requests) \in Nat /\ MaxRequests \in Nat
  BY <1>3, LenProperties DEF InsertRequest, Setting
<1>6. DOMAIN requests = 1..Len(requests) /\ DOMAIN requests' = 1..(Len(requests) + 1)
  BY <1>3, <1>4, LenProperties
<1>7. Len(requests) + 1 \in Ids \ DOMAIN requests
  BY <1>5, <1>6 DEF Ids
<1>8. DOMAIN requests' = DOMAIN requests \cup {Len(requests) + 1}
  BY <1>5, <1>6
<1> QED
  BY <1>4, <1>5, <1>6, <1>7, <1>8 DEF row

(* A decision changes the result of one row.                                *)
LEMMA DecidedRow ==
  ASSUME Setting, TypeOK, NEW c \in Calls, Update(c)
  PROVE  /\ calls[c].id \in DOMAIN requests /\ calls[c].result \in Results
         /\ requests' \in Seq(Row) /\ Len(requests') = Len(requests)
         /\ DOMAIN requests' = DOMAIN requests
         /\ \A i \in DOMAIN requests :
              requests'[i] = IF i = calls[c].id THEN [requests[i] EXCEPT !.result = calls[c].result]
                             ELSE requests[i]
<1>1. calls[c].id \in DOMAIN requests /\ calls[c].result \in Results
  BY DEF Update, TypeOK, Fits, Handles
<1>2. requests \in Seq(Row)
  BY DEF TypeOK
<1>3. [requests[calls[c].id] EXCEPT !.result = calls[c].result] \in Row
  BY <1>1, RowsAt DEF Row
<1>4. requests' = [requests EXCEPT ![calls[c].id] = [requests[calls[c].id] EXCEPT !.result = calls[c].result]]
  BY DEF Update
<1>5. requests' \in Seq(Row) /\ Len(requests') = Len(requests)
  BY <1>1, <1>2, <1>3, <1>4, ExceptSeq
<1> QED
  BY <1>1, <1>2, <1>4, <1>5

LEMMA DecidedStays ==
  ASSUME Setting, TypeOK, NEW c \in Calls, Update(c)
  PROVE  RowsStay
<1>1. \A i \in DOMAIN requests : requests[i] \in Row
  BY RowsAt
<1> QED
  BY <1>1, DecidedRow DEF RowsStay, Row

LEMMA InsertStays ==
  ASSUME Setting, TypeOK, NEW c \in Calls, NEW ok \in BOOLEAN, InsertRequest(c, ok)
  PROVE  RowsStay /\ requests' \in Seq(Row) /\ Len(requests') <= MaxRequests
<1>1. CASE ok = TRUE
  BY <1>1, NewRow DEF RowsStay
<1>2. CASE ok = FALSE
  BY <1>2 DEF InsertRequest, RowsStay, TypeOK
<1> QED
  BY <1>1, <1>2

LEMMA InitType == Setting /\ Init => TypeOK
<1> SUFFICES ASSUME Setting, Init PROVE TypeOK
  OBVIOUS
<1>1. Fits(NoCall, requests)
  BY DEF Fits, NoCall, Handles
<1>2. requests \in Seq(Row) /\ Len(requests) <= MaxRequests
  BY DEF Init, Setting
<1>3. owner \in [Rooms -> Users \cup {"none"}]
  BY DEF Init, Setting
<1> QED
  BY <1>1, <1>2, <1>3, AnsweredCall DEF Init, Setting, TypeOK

LEMMA StepType == Setting /\ TypeOK /\ [Next]_vars => TypeOK'
<1> SUFFICES ASSUME Setting, TypeOK, [Next]_vars PROVE TypeOK'
  OBVIOUS
<1> USE DEF tables, history
<1>a. ASSUME UNCHANGED requests PROVE RowsStay
  BY <1>a DEF RowsStay
<1>b. ASSUME UNCHANGED tables, UNCHANGED cached,
             calls' \in [Calls -> Call] /\ \A d \in Calls : Fits(calls'[d], requests')
      PROVE  TypeOK'
  BY <1>b DEF TypeOK
<1>1. ASSUME NEW c \in Calls, NEW g \in Rooms, NEW u \in Users, GroupCreate(c, g, u) PROVE TypeOK'
  <2> DEFINE x == [NoCall EXCEPT !.pc = "group", !.group = g, !.user = u]
  <2>1. x \in Call /\ Fits(x, requests')
    BY DEF NoCall, Call, Creates, Fits, Handles
  <2> QED
    BY <1>1, <1>a, <1>b, <2>1, CallStep DEF GroupCreate
<1>2. ASSUME NEW c \in Calls, InsertGroup(c) PROVE TypeOK'
  <2>1. calls' \in [Calls -> Call] /\ \A d \in Calls : Fits(calls'[d], requests')
    BY <1>2, <1>a, ContinueStep DEF InsertGroup, Active, Creates, Handles
  <2>2. calls[c].group \in Rooms
    BY <1>2 DEF InsertGroup, TypeOK, Fits
  <2> QED
    BY <1>2, <2>1, <2>2 DEF InsertGroup, TypeOK
<1>3. ASSUME NEW c \in Calls, InsertOwner(c) PROVE TypeOK'
  <2>1. calls' \in [Calls -> Call] /\ \A d \in Calls : Fits(calls'[d], requests')
    BY <1>3, <1>a, ContinueStep DEF InsertOwner, Active, Creates, Handles
  <2>2. calls[c].group \in Rooms /\ calls[c].user \in Users
    BY <1>3 DEF InsertOwner, TypeOK, Fits
  <2> QED
    BY <1>3, <2>1, <2>2 DEF InsertOwner, TypeOK
<1>4. ASSUME NEW c \in Calls, CreateGroupConversation(c) PROVE TypeOK'
  BY <1>4, <1>a, <1>b, AnswerStep DEF CreateGroupConversation
<1>5. ASSUME NEW c \in Calls, NEW g \in Rooms, NEW u \in Users, NEW by \in Users \cup {"none"},
             GroupPutIn(c, g, u, by)
      PROVE TypeOK'
  <2> DEFINE x == [NoCall EXCEPT !.pc = "member", !.group = g, !.user = u, !.by = by]
  <2>1. x \in Call /\ Fits(x, requests')
    BY DEF NoCall, Call, Joins, Fits, Handles
  <2> QED
    BY <1>5, <1>a, <1>b, <2>1, CallStep DEF GroupPutIn
<1>6. ASSUME NEW c \in Calls, FindMember(c) PROVE TypeOK'
  BY <1>6, <1>a, <1>b, AnswerStep, ContinueStep DEF FindMember, Active, Joins, Handles
<1>7. ASSUME NEW c \in Calls, FindRequest(c) PROVE TypeOK'
  BY <1>7, <1>a, <1>b, AnswerStep, ContinueStep DEF FindRequest, Active, Joins, Handles
<1>8. ASSUME NEW c \in Calls, Verify(c) PROVE TypeOK'
  <2>1. ASSUME NEW r \in {"no", "pass"}, Admit(c, r) PROVE TypeOK'
    <3> DEFINE x == [calls[c] EXCEPT !.pc = "ask", !.result = r]
    <3>1. calls[c] \in Call /\ Fits(calls[c], requests)
      BY DEF TypeOK
    <3>2. x \in Call
      BY <3>1 DEF Call, Joins, Results
    <3>3. Fits(x, requests')
      BY <1>8, <3>1 DEF Fits, Handles, Results, Verify, Call
    <3>4. calls' = [calls EXCEPT ![c] = x]
      BY <2>1 DEF Admit
    <3> QED
      BY <1>8, <1>a, <1>b, <3>2, <3>3, <3>4, CallStep DEF Verify
  <2>2. CASE Answer(c)
    BY <1>8, <2>2, <1>a, <1>b, AnswerStep DEF Verify
  <2>3. Answer(c) \/ Admit(c, "no") \/ Admit(c, "pass")
    BY <1>8 DEF Verify
  <2> QED
    BY <2>1, <2>2, <2>3
<1>9. ASSUME NEW c \in Calls, NEW ok \in BOOLEAN, InsertRequest(c, ok) PROVE TypeOK'
  <2>1. calls' \in [Calls -> Call] /\ \A d \in Calls : Fits(calls'[d], requests')
    BY <1>9, InsertStays, AnswerStep, ContinueStep DEF InsertRequest, Active, Joins, Handles
  <2> QED
    BY <1>9, <2>1, InsertStays DEF InsertRequest, TypeOK
<1>10. ASSUME NEW c \in Calls, InsertMember(c) PROVE TypeOK'
  <2>1. calls' \in [Calls -> Call] /\ \A d \in Calls : Fits(calls'[d], requests')
    BY <1>10, <1>a, AnswerStep DEF InsertMember
  <2>2. Seat(c) \in Rooms \X Users
    BY <1>10 DEF InsertMember, TypeOK, Fits, Seat
  <2>3. members' \in [Rooms \X Users -> Nat]
    BY <1>10, <2>2 DEF InsertMember, TypeOK
  <2> QED
    BY <1>10, <2>1, <2>3 DEF InsertMember, TypeOK
<1>11. ASSUME NEW c \in Calls, NEW id \in Ids, NEW result \in Results, GroupPutInHandle(c, id, result)
       PROVE TypeOK'
  <2> DEFINE x == [NoCall EXCEPT !.pc = "find", !.id = id, !.result = result,
                                 !.group = requests[id].group, !.user = requests[id].user]
  <2>1. requests[id] \in Row /\ id \in DOMAIN requests
    BY <1>11, RowsAt DEF GroupPutInHandle
  <2>2. x \in Call /\ Fits(x, requests)
    BY <2>1 DEF NoCall, Call, Handles, Fits, Row
  <2>3. UNCHANGED requests /\ calls' = [calls EXCEPT ![c] = x]
    BY <1>11 DEF GroupPutInHandle
  <2> HIDE DEF x
  <2>4. Fits(x, requests')
    BY <2>2, <2>3
  <2> QED
    BY <1>11, <1>a, <1>b, <2>2, <2>3, <2>4, CallStep DEF GroupPutInHandle
<1>12. ASSUME NEW c \in Calls, FindOne(c) PROVE TypeOK'
  <2>1. calls' \in [Calls -> Call] /\ \A d \in Calls : Fits(calls'[d], requests')
    BY <1>12, <1>a, AnswerStep, ContinueStep DEF FindOne, Active, Handles
  <2>2. calls[c].id \in DOMAIN requests
    BY <1>12 DEF FindOne, TypeOK, Fits, Handles
  <2>3. cached' \in [Ids -> Results \cup {"none"}]
    BY <1>12, <2>2, RowsAt DEF FindOne, TypeOK, Row
  <2> QED
    BY <1>12, <2>1, <2>3 DEF FindOne, TypeOK
<1>13. ASSUME NEW c \in Calls, Update(c) PROVE TypeOK'
  <2>1. calls' \in [Calls -> Call] /\ \A d \in Calls : Fits(calls'[d], requests')
    BY <1>13, DecidedStays, ContinueStep DEF Update, Active, Handles
  <2> QED
    BY <1>13, <2>1, DecidedRow DEF Update, TypeOK
<1>14. ASSUME NEW c \in Calls, NEW ok \in BOOLEAN, Evict(c, ok) PROVE TypeOK'
  <2>1. calls' \in [Calls -> Call] /\ \A d \in Calls : Fits(calls'[d], requests')
    BY <1>14, <1>a, AnswerStep, ContinueStep DEF Evict, Active, Joins, Handles
  <2>2. cached' \in [Ids -> Results \cup {"none"}]
    BY <1>14 DEF Evict, TypeOK
  <2> QED
    BY <1>14, <2>1, <2>2 DEF Evict, TypeOK
<1>15. ASSUME NEW c \in Calls, Fail(c) PROVE TypeOK'
  BY <1>15, <1>a, <1>b, AnswerStep DEF Fail
<1>16. CASE UNCHANGED vars
  BY <1>16 DEF vars, TypeOK
<1> QED
  BY <1>1, <1>2, <1>3, <1>4, <1>5, <1>6, <1>7, <1>8, <1>9, <1>10, <1>11, <1>12, <1>13, <1>14, <1>15, <1>16
  DEF Next, Creating, Joining, Deciding

LEMMA TypeCorrect == ASSUME Setting PROVE Spec => []TypeOK
<1>1. Init => TypeOK
  BY InitType
<1>2. TypeOK /\ [Next]_vars => TypeOK'
  BY StepType
<1> QED
  BY <1>1, <1>2, PTL DEF Spec

-----------------------------------------------------------------------------
(* How a call goes on: by its step alone, or to its end.                    *)
Goes(c, pc) ==
  /\ calls'[c].pc = pc /\ calls'[c].group = calls[c].group /\ calls'[c].user = calls[c].user
  /\ calls'[c].id = calls[c].id /\ calls'[c].result = calls[c].result
  /\ \A d \in Calls \ {c} : calls'[d] = calls[d]
Ends(c) ==
  /\ calls'[c].pc = "done"
  /\ \A d \in Calls \ {c} : calls'[d] = calls[d]

LEMMA GoesOn ==
  ASSUME TypeOK, NEW c \in Calls, NEW pc \in Creates \cup Joins \cup Handles, Continue(c, pc)
  PROVE  Goes(c, pc)
BY ContinueCall, OneCall DEF Goes

LEMMA EndsNow ==
  ASSUME TypeOK, NEW c \in Calls, Answer(c)
  PROVE  Ends(c)
BY AnsweredCall, OneCall DEF Answer, Ends

(* Let in or to wait: the result is the call's own.                         *)
LEMMA Admits ==
  ASSUME TypeOK, NEW c \in Calls, NEW r, Admit(c, r)
  PROVE  /\ calls'[c].pc = "ask" /\ calls'[c].group = calls[c].group /\ calls'[c].user = calls[c].user
         /\ \A d \in Calls \ {c} : calls'[d] = calls[d]
<1> DEFINE x == [calls[c] EXCEPT !.pc = "ask", !.result = r]
<1>1. calls[c] \in Call /\ calls' = [calls EXCEPT ![c] = x]
  BY DEF TypeOK, Admit
<1>2. x.pc = "ask" /\ x.group = calls[c].group /\ x.user = calls[c].user
  BY <1>1 DEF Call
<1> HIDE DEF x
<1> QED
  BY <1>1, <1>2, OneCall

(* How each of the three calls begins.                                      *)
Begins(c, pc, g, u) ==
  /\ calls[c].pc = "idle"
  /\ calls'[c].pc = pc /\ calls'[c].group = g /\ calls'[c].user = u
  /\ \A d \in Calls \ {c} : calls'[d] = calls[d]

LEMMA BeginsCreate ==
  ASSUME TypeOK, NEW c \in Calls, NEW g, NEW u, GroupCreate(c, g, u)
  PROVE  Begins(c, "group", g, u)
<1> DEFINE x == [NoCall EXCEPT !.pc = "group", !.group = g, !.user = u]
<1>1. calls[c].pc = "idle" /\ calls' = [calls EXCEPT ![c] = x]
  BY DEF GroupCreate
<1>2. x.pc = "group" /\ x.group = g /\ x.user = u
  BY DEF NoCall
<1> HIDE DEF x
<1> QED
  BY <1>1, <1>2, OneCall DEF Begins

LEMMA BeginsJoin ==
  ASSUME TypeOK, NEW c \in Calls, NEW g, NEW u, NEW by, GroupPutIn(c, g, u, by)
  PROVE  Begins(c, "member", g, u)
<1> DEFINE x == [NoCall EXCEPT !.pc = "member", !.group = g, !.user = u, !.by = by]
<1>1. calls[c].pc = "idle" /\ calls' = [calls EXCEPT ![c] = x]
  BY DEF GroupPutIn
<1>2. x.pc = "member" /\ x.group = g /\ x.user = u
  BY DEF NoCall
<1> HIDE DEF x
<1> QED
  BY <1>1, <1>2, OneCall DEF Begins

LEMMA BeginsHandle ==
  ASSUME TypeOK, NEW c \in Calls, NEW id, NEW result, GroupPutInHandle(c, id, result)
  PROVE  Begins(c, "find", requests[id].group, requests[id].user) /\ calls'[c].id = id
<1> DEFINE x == [NoCall EXCEPT !.pc = "find", !.id = id, !.result = result,
                               !.group = requests[id].group, !.user = requests[id].user]
<1>1. calls[c].pc = "idle" /\ calls' = [calls EXCEPT ![c] = x]
  BY DEF GroupPutInHandle
<1>2. x.pc = "find" /\ x.group = requests[id].group /\ x.user = requests[id].user /\ x.id = id
  BY DEF NoCall
<1> HIDE DEF x
<1> QED
  BY <1>1, <1>2, OneCall DEF Begins

-----------------------------------------------------------------------------
(* A group without an owner is one that nobody but the call that makes it   *)
(* knows of, if that call is still there: it has no members, no requests    *)
(* and no conversation.                                                     *)
Owned(g) == owner[g] # "none"
Founds(c) == calls[c].pc \in {"group", "owner"}

RoomInv ==
  /\ \A g \in conversations : g \in groups /\ Owned(g)
  /\ \A g \in Rooms : Owned(g) => g \in groups
  /\ \A c \in Calls : calls[c].pc = "owner" => calls[c].group \in groups
  /\ \A c \in Calls : Active(c) => (Founds(c) <=> ~Owned(calls[c].group))
  /\ \A c, d \in Calls : Founds(c) /\ Founds(d) /\ calls[c].group = calls[d].group => c = d
  /\ \A i \in DOMAIN requests : Owned(requests[i].group)
  /\ \A g \in Rooms, u \in Users : ~Owned(g) => members[<<g, u>>] = 0

(* A step that leaves the groups and their owners as they are.              *)
LEMMA RoomFrame ==
  ASSUME TypeOK, RoomInv, NEW c \in Calls, UNCHANGED <<groups, owner, conversations>>,
         \A d \in Calls \ {c} : calls'[d] = calls[d],
         ~Founds(c)', Active(c)' => Owned(calls'[c].group),
         \A i \in DOMAIN requests' : Owned(requests'[i].group),
         \A g \in Rooms, u \in Users : ~Owned(g) => members'[<<g, u>>] = 0
  PROVE  RoomInv'
<1>1. \A g : Owned(g)' <=> Owned(g)
  BY DEF Owned
<1>2. \A d \in Calls \ {c} : (Founds(d)' <=> Founds(d)) /\ (Active(d)' <=> Active(d))
  BY DEF Founds, Active
<1>3. calls'[c].pc # "owner"
  BY DEF Founds
<1> QED
  BY <1>1, <1>2, <1>3 DEF RoomInv

(* A call that goes on about an owned group, or ends.                       *)
LEMMA RoomGoes ==
  ASSUME TypeOK, RoomInv, NEW c \in Calls, UNCHANGED <<groups, owner, conversations>>,
         Active(c), NEW pc \in (Creates \cup Joins \cup Handles) \ {"group", "owner"},
         (~Founds(c) /\ Goes(c, pc)) \/ Ends(c),
         \A i \in DOMAIN requests' : Owned(requests'[i].group),
         \A g \in Rooms, u \in Users : ~Owned(g) => members'[<<g, u>>] = 0
  PROVE  RoomInv'
<1>1. ~Founds(c)'
  BY DEF Goes, Ends, Founds
<1>2. Active(c)' => Owned(calls'[c].group)
  BY DEF Goes, Ends, Active, RoomInv
<1>3. \A d \in Calls \ {c} : calls'[d] = calls[d]
  BY DEF Goes, Ends
<1> QED
  BY <1>1, <1>2, <1>3, RoomFrame

LEMMA InitRoom == Setting /\ Init => RoomInv
<1> SUFFICES ASSUME Setting, Init PROVE RoomInv
  OBVIOUS
<1>1. \A c \in Calls : ~Active(c) /\ ~Founds(c)
  BY DEF Init, NoCall, Active, Founds
<1>2. \A g \in Rooms : Owned(g) <=> g \in Verified
  BY DEF Init, Owned, Setting
<1>3. \A c \in Calls : calls[c].pc # "owner"
  BY DEF Init, NoCall
<1>4. \A g \in Rooms, u \in Users : members[<<g, u>>] = 0
  BY DEF Init
<1> QED
  BY <1>1, <1>2, <1>3, <1>4 DEF Init, RoomInv, Setting

LEMMA StepRoom == Setting /\ TypeOK /\ TypeOK' /\ RoomInv /\ [Next]_vars => RoomInv'
<1> SUFFICES ASSUME Setting, TypeOK, TypeOK', RoomInv, [Next]_vars PROVE RoomInv'
  OBVIOUS
<1> USE DEF tables, history
<1>a. ASSUME UNCHANGED <<owner, members, requests>>
      PROVE  /\ \A i \in DOMAIN requests' : Owned(requests'[i].group)
             /\ \A g \in Rooms, u \in Users : ~Owned(g) => members'[<<g, u>>] = 0
  BY <1>a DEF RoomInv
<1>b. \A c \in Calls : Active(c) => calls[c].group \in Rooms /\ calls[c].user \in Users
  BY DEF TypeOK, Fits, Active
<1>1. ASSUME NEW c \in Calls, NEW g \in Rooms, NEW u \in Users, GroupCreate(c, g, u) PROVE RoomInv'
  <2>1. Begins(c, "group", g, u)
    BY <1>1, BeginsCreate
  <2>2. ~Owned(g) /\ \A d \in Calls : calls[d].group # g
    BY <1>1 DEF GroupCreate, RoomInv
  <2>3. \A h : Owned(h)' <=> Owned(h)
    BY <1>1 DEF GroupCreate, Owned
  <2>4. Active(c)' /\ Founds(c)' /\ calls'[c].group = g /\ calls'[c].pc # "owner"
    BY <2>1 DEF Begins, Active, Founds
  <2>5. \A d \in Calls \ {c} : /\ calls'[d] = calls[d] /\ calls'[d].group # g
                               /\ (Founds(d)' <=> Founds(d)) /\ (Active(d)' <=> Active(d))
    BY <2>1, <2>2 DEF Begins, Active, Founds
  <2>6. UNCHANGED <<groups, conversations, requests, members>>
    BY <1>1 DEF GroupCreate
  <2> QED
    BY <2>2, <2>3, <2>4, <2>5, <2>6 DEF RoomInv
<1>2. ASSUME NEW c \in Calls, InsertGroup(c) PROVE RoomInv'
  <2>1. Goes(c, "owner") /\ Active(c) /\ Founds(c)
    BY <1>2, GoesOn DEF InsertGroup, Creates, Active, Founds
  <2>2. UNCHANGED <<owner, conversations, requests, members>> /\ groups' = groups \cup {calls[c].group}
    BY <1>2 DEF InsertGroup
  <2>3. \A h : Owned(h)' <=> Owned(h)
    BY <2>2 DEF Owned
  <2>4. Active(c)' /\ Founds(c)' /\ calls'[c].group = calls[c].group
    BY <2>1 DEF Goes, Active, Founds
  <2>5. \A d \in Calls \ {c} : /\ calls'[d] = calls[d]
                               /\ (Founds(d)' <=> Founds(d)) /\ (Active(d)' <=> Active(d))
    BY <2>1 DEF Goes, Active, Founds
  <2> QED
    BY <2>1, <2>2, <2>3, <2>4, <2>5 DEF RoomInv
<1>3. ASSUME NEW c \in Calls, InsertOwner(c) PROVE RoomInv'
  <2> DEFINE g == calls[c].group
  <2>1. Goes(c, "conversation") /\ Active(c) /\ Founds(c) /\ calls[c].pc = "owner"
    BY <1>3, GoesOn DEF InsertOwner, Creates, Active, Founds
  <2>2. UNCHANGED <<groups, conversations, requests, members>> /\ g \in groups /\ g \in Rooms
    BY <1>3, <1>b, <2>1 DEF InsertOwner, RoomInv
  <2>3. owner' = [owner EXCEPT ![g] = calls[c].user] /\ calls[c].user # "none"
    BY <1>3, <1>b, <2>1 DEF InsertOwner, Setting
  <2>4. \A h \in Rooms : Owned(h)' <=> Owned(h) \/ h = g
    BY <2>2, <2>3 DEF Owned, TypeOK
  <2>5. Active(c)' /\ ~Founds(c)' /\ calls'[c].group = g /\ calls'[c].pc # "owner"
    BY <2>1 DEF Goes, Active, Founds
  <2>6. \A d \in Calls \ {c} : /\ calls'[d] = calls[d]
                               /\ (Founds(d)' <=> Founds(d)) /\ (Active(d)' <=> Active(d))
    BY <2>1 DEF Goes, Active, Founds
  <2>7. ~Owned(g) /\ \A d \in Calls \ {c} : Active(d) => calls[d].group # g
    <3>1. ~Owned(g)
      BY <2>1 DEF RoomInv
    <3> QED
      BY <2>1, <3>1 DEF RoomInv
  <2>8. \A i \in DOMAIN requests : requests[i].group \in Rooms
    BY RowsAt DEF Row
  <2>9. \A h \in conversations : h \in Rooms
    BY DEF RoomInv, TypeOK
  <2> HIDE DEF g
  <2>10. \A d \in Calls : Active(d)' => calls'[d].group \in Rooms
    BY <1>b, <2>2, <2>5, <2>6
  <2>11. ASSUME NEW d \in Calls, Active(d)' PROVE Founds(d)' <=> ~Owned(calls[d].group)'
    <3>1. CASE d = c
      BY <2>2, <2>4, <2>5, <3>1
    <3>2. CASE d # c
      BY <2>4, <2>6, <2>7, <2>10, <2>11, <3>2 DEF RoomInv
    <3> QED
      BY <3>1, <3>2
  <2>12. \A d \in Calls : (calls'[d].pc = "owner" => calls'[d].group \in groups')
    BY <2>2, <2>5, <2>6 DEF RoomInv
  <2>13. \A d, e \in Calls : Founds(d)' /\ Founds(e)' /\ calls'[d].group = calls'[e].group => d = e
    BY <2>5, <2>6 DEF RoomInv
  <2>14. /\ \A h \in conversations' : h \in groups' /\ Owned(h)'
         /\ \A h \in Rooms : Owned(h)' => h \in groups'
         /\ \A i \in DOMAIN requests' : Owned(requests[i].group)'
         /\ \A h \in Rooms, u \in Users : ~Owned(h)' => members'[<<h, u>>] = 0
    BY <2>2, <2>4, <2>8, <2>9 DEF RoomInv
  <2> QED
    BY <2>11, <2>12, <2>13, <2>14 DEF RoomInv
<1>4. ASSUME NEW c \in Calls, CreateGroupConversation(c) PROVE RoomInv'
  <2> DEFINE g == calls[c].group
  <2>1. Ends(c) /\ Active(c) /\ ~Founds(c)
    BY <1>4, EndsNow DEF CreateGroupConversation, Active, Founds
  <2>2. UNCHANGED <<groups, owner, requests, members>> /\ conversations' = conversations \cup {g}
    BY <1>4 DEF CreateGroupConversation
  <2>3. Owned(g) /\ g \in groups
    BY <1>b, <2>1 DEF RoomInv
  <2>4. \A h : Owned(h)' <=> Owned(h)
    BY <2>2 DEF Owned
  <2>5. ~Active(c)' /\ ~Founds(c)' /\ calls'[c].pc # "owner"
    BY <2>1 DEF Ends, Active, Founds
  <2>6. \A d \in Calls \ {c} : /\ calls'[d] = calls[d]
                               /\ (Founds(d)' <=> Founds(d)) /\ (Active(d)' <=> Active(d))
    BY <2>1 DEF Ends, Active, Founds
  <2> HIDE DEF g
  <2> QED
    BY <2>2, <2>3, <2>4, <2>5, <2>6 DEF RoomInv
<1>5. ASSUME NEW c \in Calls, NEW g \in Rooms, NEW u \in Users, NEW by \in Users \cup {"none"},
             GroupPutIn(c, g, u, by)
      PROVE RoomInv'
  <2>1. Begins(c, "member", g, u) /\ Owned(g)
    BY <1>5, BeginsJoin DEF GroupPutIn, Owned
  <2>2. ~Founds(c)' /\ calls'[c].group = g
    BY <2>1 DEF Begins, Founds
  <2> QED
    BY <1>5, <1>a, <2>1, <2>2, RoomFrame DEF GroupPutIn, Begins
<1>6. ASSUME NEW c \in Calls, FindMember(c) \/ FindRequest(c) PROVE RoomInv'
  <2>1. Ends(c) \/ Goes(c, "request") \/ Goes(c, "verify")
    BY <1>6, EndsNow, GoesOn DEF FindMember, FindRequest, Joins
  <2>2. Active(c) /\ ~Founds(c)
    BY <1>6 DEF FindMember, FindRequest, Active, Founds
  <2> QED
    BY <1>6, <1>a, <2>1, <2>2, RoomGoes DEF FindMember, FindRequest, Joins
<1>7. ASSUME NEW c \in Calls, Verify(c) PROVE RoomInv'
  <2>1. Active(c) /\ ~Founds(c)
    BY <1>7 DEF Verify, Active, Founds
  <2>2. CASE Answer(c)
    BY <1>7, <1>a, <2>1, <2>2, EndsNow, RoomGoes DEF Verify, Joins
  <2>3. ASSUME NEW r, Admit(c, r) PROVE RoomInv'
    <3>1. ~Founds(c)' /\ calls'[c].group = calls[c].group
      BY <2>3, Admits DEF Founds
    <3>2. Owned(calls[c].group)
      BY <2>1 DEF RoomInv
    <3> QED
      BY <1>7, <1>a, <2>3, <3>1, <3>2, Admits, RoomFrame DEF Verify
  <2> QED
    BY <1>7, <2>2, <2>3 DEF Verify
<1>8. ASSUME NEW c \in Calls, NEW ok \in BOOLEAN, InsertRequest(c, ok) PROVE RoomInv'
  <2>1. Ends(c) \/ Goes(c, "join")
    BY <1>8, EndsNow, GoesOn DEF InsertRequest, Joins
  <2>2. Active(c) /\ ~Founds(c) /\ Owned(calls[c].group)
    BY <1>8 DEF InsertRequest, Active, Founds, RoomInv
  <2>3. \A i \in DOMAIN requests' : Owned(requests'[i].group)
    <3>1. CASE ok = TRUE
      <4>1. InsertRequest(c, TRUE)
        BY <1>8, <3>1
      <4> DEFINE new == Len(requests) + 1
      <4>2. /\ DOMAIN requests' = DOMAIN requests \cup {new}
            /\ \A i \in DOMAIN requests : requests'[i] = requests[i]
            /\ requests'[new] =
                 [group |-> calls[c].group, user |-> calls[c].user, result |-> calls[c].result]
        BY <4>1, NewRow
      <4> HIDE DEF new
      <4>3. requests'[new].group = calls[c].group
        BY <4>2
      <4> QED
        BY <2>2, <4>2, <4>3 DEF RoomInv
    <3>2. CASE ok = FALSE
      BY <1>8, <3>2 DEF InsertRequest, RoomInv
    <3> QED
      BY <3>1, <3>2
  <2>4. \A g \in Rooms, u \in Users : ~Owned(g) => members'[<<g, u>>] = 0
    BY <1>8 DEF InsertRequest, RoomInv
  <2> QED
    BY <1>8, <2>1, <2>2, <2>3, <2>4, RoomGoes DEF InsertRequest, Joins
<1>9. ASSUME NEW c \in Calls, InsertMember(c) PROVE RoomInv'
  <2>1. Ends(c) /\ Active(c) /\ Owned(calls[c].group)
    BY <1>9, EndsNow DEF InsertMember, Active, Founds, RoomInv
  <2>2. \A g \in Rooms, u \in Users : ~Owned(g) => members'[<<g, u>>] = 0
    BY <1>9, <2>1 DEF InsertMember, Seat, RoomInv, TypeOK
  <2>3. \A i \in DOMAIN requests' : Owned(requests'[i].group)
    BY <1>9 DEF InsertMember, RoomInv
  <2> QED
    BY <1>9, <2>1, <2>2, <2>3, RoomGoes DEF InsertMember, Joins
<1>10. ASSUME NEW c \in Calls, NEW id \in Ids, NEW result \in Results, GroupPutInHandle(c, id, result)
       PROVE RoomInv'
  <2>1. Begins(c, "find", requests[id].group, requests[id].user) /\ Owned(requests[id].group)
    BY <1>10, BeginsHandle DEF GroupPutInHandle, RoomInv
  <2>2. ~Founds(c)' /\ calls'[c].group = requests[id].group
    BY <2>1 DEF Begins, Founds
  <2> QED
    BY <1>10, <1>a, <2>1, <2>2, RoomFrame DEF GroupPutInHandle, Begins
<1>11. ASSUME NEW c \in Calls, FindOne(c) PROVE RoomInv'
  <2>1. (Ends(c) \/ Goes(c, "update")) /\ Active(c) /\ ~Founds(c)
    BY <1>11, EndsNow, GoesOn DEF FindOne, Handles, Active, Founds
  <2> QED
    BY <1>11, <1>a, <2>1, RoomGoes DEF FindOne, Handles
<1>12. ASSUME NEW c \in Calls, Update(c) PROVE RoomInv'
  <2>1. Goes(c, "evict") /\ Active(c) /\ ~Founds(c)
    BY <1>12, GoesOn DEF Update, Handles, Active, Founds
  <2>2. \A i \in DOMAIN requests' : Owned(requests'[i].group)
    BY <1>12, DecidedRow, DecidedStays DEF RowsStay, RoomInv
  <2>3. \A g \in Rooms, u \in Users : ~Owned(g) => members'[<<g, u>>] = 0
    BY <1>12 DEF Update, RoomInv
  <2> QED
    BY <1>12, <2>1, <2>2, <2>3, RoomGoes DEF Update, Handles
<1>13. ASSUME NEW c \in Calls, NEW ok \in BOOLEAN, Evict(c, ok) PROVE RoomInv'
  <2>1. (Ends(c) \/ Goes(c, "join")) /\ Active(c) /\ ~Founds(c)
    BY <1>13, EndsNow, GoesOn DEF Evict, Joins, Active, Founds
  <2> QED
    BY <1>13, <1>a, <2>1, RoomGoes DEF Evict, Joins
<1>14. ASSUME NEW c \in Calls, Fail(c) PROVE RoomInv'
  BY <1>14, <1>a, EndsNow, RoomGoes DEF Fail, Joins
<1>15. CASE UNCHANGED vars
  BY <1>15 DEF vars, RoomInv, Owned, Founds, Active
<1> QED
  BY <1>1, <1>2, <1>3, <1>4, <1>5, <1>6, <1>7, <1>8, <1>9, <1>10, <1>11, <1>12, <1>13, <1>14, <1>15
  DEF Next, Creating, Joining, Deciding

LEMMA RoomsAreOwned == ASSUME Setting PROVE Spec => []RoomInv
<1>1. Init => RoomInv
  BY InitRoom
<1>2. TypeOK /\ TypeOK' /\ RoomInv /\ [Next]_vars => RoomInv'
  BY StepRoom
<1> QED
  BY <1>1, <1>2, TypeCorrect, PTL DEF Spec

-----------------------------------------------------------------------------
(* An accepted request has made a member, or the call that is to do so is   *)
(* past accepting it, or that call has failed.                              *)
On(c, g, u) == Active(c) /\ calls[c].group = g /\ calls[c].user = u
Making(c, g, u) ==
  On(c, g, u) /\ calls[c].pc \in {"evict", "join"} /\ calls[c].result = "pass"
Settled(g, u) == IsMember(g, u) \/ <<g, u>> \in broken \/ \E c \in Calls : Making(c, g, u)
AcceptedSettled ==
  /\ \A c \in Calls : calls[c].pc = "join" => calls[c].result = "pass"
  /\ \A i \in DOMAIN requests :
       requests[i].result = "pass" => Settled(requests[i].group, requests[i].user)

(* Nobody's membership ends: rows are only added.                           *)
LEMMA MembersStay ==
  ASSUME Setting, TypeOK, TypeOK', RoomInv, [Next]_vars, NEW g \in Rooms, NEW u \in Users, IsMember(g, u)
  PROVE  IsMember(g, u)'
<1>1. ASSUME NEW c \in Calls, InsertOwner(c) PROVE IsMember(g, u)'
  <2>1. calls[c].group \in Rooms /\ ~Owned(calls[c].group) /\ members' = members
    BY <1>1 DEF InsertOwner, TypeOK, Fits, RoomInv, Active, Founds
  <2>2. owner[g] = u => g # calls[c].group
    BY <2>1 DEF Owned, Setting
  <2> QED
    BY <1>1, <2>1, <2>2 DEF InsertOwner, TypeOK, IsMember
<1>2. ASSUME NEW c \in Calls, InsertMember(c) PROVE IsMember(g, u)'
  <2>1. Seat(c) \in Rooms \X Users /\ owner' = owner
    BY <1>2 DEF InsertMember, TypeOK, Fits, Seat
  <2> DEFINE p == <<g, u>>
  <2>2. members'[p] = IF p = Seat(c) THEN members[p] + 1 ELSE members[p]
    BY <1>2, <2>1 DEF InsertMember, TypeOK
  <2>3. members[p] \in Nat
    BY DEF TypeOK
  <2> QED
    BY <2>1, <2>2, <2>3 DEF IsMember
<1>3. (\E c \in Calls : InsertOwner(c) \/ InsertMember(c)) \/ UNCHANGED <<owner, members>>
  BY DEF Next, Creating, Joining, Deciding, vars, tables, GroupCreate, InsertGroup, CreateGroupConversation,
         GroupPutIn, FindMember, FindRequest, Verify, InsertRequest, GroupPutInHandle, FindOne, Update,
         Evict, Fail
<1> QED
  BY <1>1, <1>2, <1>3 DEF IsMember

(* A settled seat stays so, if a call that was to make a member goes on to  *)
(* do so, makes him, or is known to have failed.                            *)
LEMMA SettledStays ==
  ASSUME Setting, TypeOK, TypeOK', RoomInv, [Next]_vars, NEW g \in Rooms, NEW u \in Users, Settled(g, u),
         NEW c \in Calls, \A d \in Calls \ {c} : calls'[d] = calls[d],
         \A p \in broken : p \in broken',
         Making(c, g, u) => Making(c, g, u)' \/ IsMember(g, u)' \/ <<g, u>> \in broken'
  PROVE  Settled(g, u)'
<1>1. CASE IsMember(g, u)
  BY <1>1, MembersStay DEF Settled
<1>2. CASE \E d \in Calls \ {c} : Making(d, g, u)
  BY <1>2 DEF Settled, Making, On, Active
<1> QED
  BY <1>1, <1>2 DEF Settled

(* The same of the requests, when no result becomes "pass".                 *)
LEMMA AcceptedStay ==
  ASSUME Setting, TypeOK, TypeOK', RoomInv, [Next]_vars, AcceptedSettled, UNCHANGED requests,
         NEW c \in Calls, \A d \in Calls \ {c} : calls'[d] = calls[d],
         calls'[c].pc = "join" => calls'[c].result = "pass",
         \A p \in broken : p \in broken',
         \A g \in Rooms, u \in Users :
           Making(c, g, u) => Making(c, g, u)' \/ IsMember(g, u)' \/ <<g, u>> \in broken'
  PROVE  AcceptedSettled'
<1>1. \A i \in DOMAIN requests : requests[i].group \in Rooms /\ requests[i].user \in Users
  BY RowsAt DEF Row
<1>2. ASSUME NEW i \in DOMAIN requests, requests[i].result = "pass"
      PROVE  Settled(requests[i].group, requests[i].user)'
  BY <1>1, <1>2, SettledStays DEF AcceptedSettled
<1>3. \A d \in Calls : calls'[d].pc = "join" => calls'[d].result = "pass"
  BY DEF AcceptedSettled
<1>4. \A i \in DOMAIN requests' :
        requests'[i].result = "pass" => Settled(requests[i].group, requests[i].user)'
  BY <1>2
<1> QED
  BY <1>3, <1>4 DEF AcceptedSettled

LEMMA StepSettled ==
  Setting /\ TypeOK /\ TypeOK' /\ RoomInv /\ AcceptedSettled /\ [Next]_vars => AcceptedSettled'
<1> SUFFICES ASSUME Setting, TypeOK, TypeOK', RoomInv, AcceptedSettled, [Next]_vars PROVE AcceptedSettled'
  OBVIOUS
<1> USE DEF tables, history
(* A call that is not past accepting a request.                             *)
<1>a. ASSUME NEW c \in Calls, UNCHANGED requests, \A d \in Calls \ {c} : calls'[d] = calls[d],
             \A p \in broken : p \in broken', calls'[c].pc # "join", calls[c].pc \notin {"evict", "join"}
      PROVE  AcceptedSettled'
  BY <1>a, AcceptedStay DEF Making
<1>1. ASSUME NEW c \in Calls, Creating(c) PROVE AcceptedSettled'
  <2>1. ASSUME NEW g \in Rooms, NEW u \in Users, GroupCreate(c, g, u) PROVE AcceptedSettled'
    <3>1. Begins(c, "group", g, u)
      BY <2>1, BeginsCreate
    <3> QED
      BY <2>1, <3>1, <1>a DEF GroupCreate, Begins
  <2>2. CASE InsertGroup(c)
    <3>1. Goes(c, "owner")
      BY <2>2, GoesOn DEF InsertGroup, Creates
    <3> QED
      BY <2>2, <3>1, <1>a DEF InsertGroup, Goes
  <2>3. CASE InsertOwner(c)
    <3>1. Goes(c, "conversation")
      BY <2>3, GoesOn DEF InsertOwner, Creates
    <3> QED
      BY <2>3, <3>1, <1>a DEF InsertOwner, Goes
  <2>4. CASE CreateGroupConversation(c)
    <3>1. Ends(c)
      BY <2>4, EndsNow DEF CreateGroupConversation
    <3> QED
      BY <2>4, <3>1, <1>a DEF CreateGroupConversation, Ends
  <2> QED
    BY <1>1, <2>1, <2>2, <2>3, <2>4 DEF Creating
<1>2. ASSUME NEW c \in Calls, NEW g \in Rooms, NEW u \in Users, NEW by \in Users \cup {"none"},
             GroupPutIn(c, g, u, by)
      PROVE AcceptedSettled'
  <2>1. Begins(c, "member", g, u)
    BY <1>2, BeginsJoin
  <2> QED
    BY <1>2, <2>1, <1>a DEF GroupPutIn, Begins
<1>3. ASSUME NEW c \in Calls, FindMember(c) \/ FindRequest(c) PROVE AcceptedSettled'
  <2>1. Ends(c) \/ Goes(c, "request") \/ Goes(c, "verify")
    BY <1>3, EndsNow, GoesOn DEF FindMember, FindRequest, Joins
  <2> QED
    BY <1>3, <2>1, <1>a DEF FindMember, FindRequest, Ends, Goes
<1>4. ASSUME NEW c \in Calls, Verify(c) PROVE AcceptedSettled'
  <2>1. CASE Answer(c)
    BY <1>4, <2>1, <1>a, EndsNow DEF Verify, Ends
  <2>2. ASSUME NEW r, Admit(c, r) PROVE AcceptedSettled'
    <3>1. calls'[c].pc = "ask" /\ \A d \in Calls \ {c} : calls'[d] = calls[d]
      BY <2>2, Admits
    <3> QED
      BY <1>4, <3>1, <1>a DEF Verify
  <2> QED
    BY <1>4, <2>1, <2>2 DEF Verify
<1>5. ASSUME NEW c \in Calls, NEW ok \in BOOLEAN, InsertRequest(c, ok) PROVE AcceptedSettled'
  <2> DEFINE new == Len(requests) + 1
             g == calls[c].group
             u == calls[c].user
  <2>1. /\ calls[c].pc = "ask" /\ broken' = broken /\ g \in Rooms /\ u \in Users
        /\ \/ Ends(c) /\ calls[c].result # "pass"
           \/ Goes(c, "join") /\ calls[c].result = "pass"
    BY <1>5, EndsNow, GoesOn DEF InsertRequest, Joins, TypeOK, Fits
  <2>2. /\ \A d \in Calls \ {c} : calls'[d] = calls[d]
        /\ calls'[c].pc = "join" => calls'[c].result = "pass"
    BY <2>1 DEF Goes, Ends
  <2>3. \A h, v : ~Making(c, h, v)
    BY <2>1 DEF Making
  <2>4. CASE ok = FALSE
    <3>1. UNCHANGED requests
      BY <1>5, <2>4 DEF InsertRequest
    <3> QED
      BY <2>1, <2>2, <2>3, <3>1, AcceptedStay
  <2>5. CASE ok = TRUE
    <3>1. InsertRequest(c, TRUE)
      BY <1>5, <2>5
    <3>2. /\ DOMAIN requests' = DOMAIN requests \cup {new}
          /\ \A i \in DOMAIN requests : requests'[i] = requests[i]
          /\ requests'[new] = [group |-> g, user |-> u, result |-> calls[c].result]
      BY <3>1, NewRow
    <3> HIDE DEF new, g, u
    <3>3. requests'[new].group = g /\ requests'[new].user = u /\ requests'[new].result = calls[c].result
      BY <3>2
    <3>4. ASSUME NEW i \in DOMAIN requests, requests[i].result = "pass"
          PROVE  Settled(requests[i].group, requests[i].user)'
      <4>1. requests[i].group \in Rooms /\ requests[i].user \in Users
        BY RowsAt DEF Row
      <4>2. Settled(requests[i].group, requests[i].user)
        BY <3>4 DEF AcceptedSettled
      <4>3. \A x \in Rooms, y \in Users : Settled(x, y) => Settled(x, y)'
        BY <2>1, <2>2, <2>3, SettledStays
      <4> QED
        BY <3>2, <4>1, <4>2, <4>3 DEF Settled, IsMember, Making, On
    <3>5. calls[c].result = "pass" => Making(c, g, u)'
      BY <2>1 DEF Making, On, Active, Goes, g, u
    <3>6. calls[c].result = "pass" => Settled(g, u)'
      BY <3>5 DEF Settled
    <3>7. \A d \in Calls : calls'[d].pc = "join" => calls'[d].result = "pass"
      BY <2>2 DEF AcceptedSettled
    <3>8. ASSUME NEW i \in DOMAIN requests', requests'[i].result = "pass"
          PROVE  Settled(requests[i].group, requests[i].user)'
      <4>1. CASE i = new
        BY <2>1, <3>3, <3>6, <3>8, <4>1 DEF Settled, IsMember, Making, On, Goes, g, u
      <4>2. CASE i # new
        <5>1. i \in DOMAIN requests /\ requests'[i] = requests[i]
          BY <3>2, <3>8, <4>2
        <5> QED
          BY <3>4, <3>8, <5>1 DEF Settled, IsMember, Making, On
      <4> QED
        BY <4>1, <4>2
    <3> QED
      BY <3>7, <3>8 DEF AcceptedSettled
  <2> QED
    BY <2>4, <2>5
<1>6. ASSUME NEW c \in Calls, InsertMember(c) PROVE AcceptedSettled'
  <2>1. Ends(c)
    BY <1>6, EndsNow DEF InsertMember
  <2>2. ASSUME NEW g \in Rooms, NEW u \in Users, Making(c, g, u) PROVE IsMember(g, u)'
    <3>1. members'[<<g, u>>] = members[<<g, u>>] + 1 /\ members[<<g, u>>] \in Nat
      BY <1>6, <2>2 DEF InsertMember, Making, On, Seat, TypeOK
    <3> QED
      BY <3>1 DEF IsMember
  <2> QED
    BY <1>6, <2>1, <2>2, AcceptedStay DEF InsertMember, Ends
<1>7. ASSUME NEW c \in Calls, NEW id \in Ids, NEW result \in Results, GroupPutInHandle(c, id, result)
      PROVE AcceptedSettled'
  <2>1. Begins(c, "find", requests[id].group, requests[id].user)
    BY <1>7, BeginsHandle
  <2> QED
    BY <1>7, <2>1, <1>a DEF GroupPutInHandle, Begins
<1>8. ASSUME NEW c \in Calls, FindOne(c) PROVE AcceptedSettled'
  <2>1. Ends(c) \/ Goes(c, "update")
    BY <1>8, EndsNow, GoesOn DEF FindOne, Handles
  <2> QED
    BY <1>8, <2>1, <1>a DEF FindOne, Ends, Goes
<1>9. ASSUME NEW c \in Calls, Update(c) PROVE AcceptedSettled'
  <2>1. Goes(c, "evict") /\ calls[c].pc = "update" /\ broken' = broken
    BY <1>9, GoesOn DEF Update, Handles
  <2>2. \A h, v : ~Making(c, h, v)
    BY <2>1 DEF Making
  <2>3. /\ \A d \in Calls \ {c} : calls'[d] = calls[d]
        /\ \A d \in Calls : calls'[d].pc = "join" => calls'[d].result = "pass"
    BY <2>1 DEF Goes, AcceptedSettled
  <2>4. RowsStay
    BY <1>9, DecidedStays
  <2>5. ASSUME NEW i \in DOMAIN requests', requests'[i].result = "pass"
        PROVE  Settled(requests[i].group, requests[i].user)'
    <3>1. /\ i \in DOMAIN requests
          /\ requests'[i].group = requests[i].group /\ requests'[i].user = requests[i].user
          /\ requests[i].group \in Rooms /\ requests[i].user \in Users
      BY <1>9, <2>4, <2>5, DecidedRow, RowsAt DEF RowsStay, Row
    <3>2. CASE i = calls[c].id
      <4>1. requests[i].group = calls[c].group /\ requests[i].user = calls[c].user
        BY <2>1, <3>2 DEF TypeOK, Fits, Handles
      <4>2. requests[i] \in Row
        BY <3>1, RowsAt
      <4>3. calls[c].result = "pass"
        BY <1>9, <2>5, <3>1, <3>2, <4>2, DecidedRow DEF Row
      <4>4. Making(c, requests[i].group, requests[i].user)'
        BY <2>1, <3>1, <4>1, <4>3 DEF Making, On, Active, Goes
      <4> QED
        BY <4>4 DEF Settled
    <3>3. CASE i # calls[c].id
      <4>1. requests[i].result = "pass"
        BY <1>9, <2>5, <3>1, <3>3, DecidedRow
      <4>2. Settled(requests[i].group, requests[i].user)
        BY <3>1, <4>1 DEF AcceptedSettled
      <4>3. \A x \in Rooms, y \in Users : Settled(x, y) => Settled(x, y)'
        BY <2>1, <2>2, <2>3, SettledStays
      <4> QED
        BY <3>1, <4>2, <4>3 DEF Settled, IsMember, Making, On
    <3> QED
      BY <3>2, <3>3
  <2> QED
    BY <2>3, <2>5 DEF AcceptedSettled
<1>10. ASSUME NEW c \in Calls, NEW ok \in BOOLEAN, Evict(c, ok) PROVE AcceptedSettled'
  <2>1. \/ Ends(c) /\ calls[c].result # "pass"
        \/ Goes(c, "join") /\ calls[c].result = "pass"
    BY <1>10, EndsNow, GoesOn DEF Evict, Joins
  <2>2. \A g \in Rooms, u \in Users : Making(c, g, u) => Making(c, g, u)'
    BY <2>1 DEF Making, On, Active, Goes
  <2>3. calls'[c].pc = "join" => calls'[c].result = "pass"
    BY <2>1 DEF Goes, Ends
  <2>4. \A d \in Calls \ {c} : calls'[d] = calls[d]
    BY <2>1 DEF Goes, Ends
  <2> QED
    BY <1>10, <2>2, <2>3, <2>4, AcceptedStay DEF Evict
<1>11. ASSUME NEW c \in Calls, Fail(c) PROVE AcceptedSettled'
  <2>1. Ends(c)
    BY <1>11, EndsNow DEF Fail
  <2>2. \A g \in Rooms, u \in Users : Making(c, g, u) => <<g, u>> \in broken'
    BY <1>11 DEF Fail, Making, On, Seat
  <2>3. \A p \in broken : p \in broken'
    BY <1>11 DEF Fail
  <2> QED
    BY <1>11, <2>1, <2>2, <2>3, AcceptedStay DEF Fail, Ends
<1>12. CASE UNCHANGED vars
  BY <1>12 DEF vars, AcceptedSettled, Settled, IsMember, Making, On, Active
<1> QED
  BY <1>1, <1>2, <1>3, <1>4, <1>5, <1>6, <1>7, <1>8, <1>9, <1>10, <1>11, <1>12
  DEF Next, Joining, Deciding

(* A group with a conversation has its creator as a member, and an accepted *)
(* request has made one, up to the failures that RoomsAreComplete names     *)
(* (creategrouplogic.go of the api, groupputinhandlelogic.go of the rpc).   *)
THEOREM GroupsAreComplete == ASSUME Setting PROVE Spec => []RoomsAreComplete
<1>1. Init => AcceptedSettled
  BY DEF Init, AcceptedSettled, NoCall
<1>2. TypeOK /\ TypeOK' /\ RoomInv /\ AcceptedSettled /\ [Next]_vars => AcceptedSettled'
  BY StepSettled
<1>3. ASSUME RoomInv, AcceptedSettled PROVE RoomsAreComplete
  <2>1. \A g \in conversations : g \in groups /\ owner[g] # "none"
    BY <1>3 DEF RoomInv, Owned
  <2>2. ASSUME NEW i \in DOMAIN requests, requests[i].result = "pass"
        PROVE  \/ IsMember(requests[i].group, requests[i].user)
               \/ <<requests[i].group, requests[i].user>> \in broken
               \/ \E c \in Calls : Active(c) /\ Seat(c) = <<requests[i].group, requests[i].user>>
                                   /\ calls[c].result = "pass"
    BY <1>3, <2>2 DEF AcceptedSettled, Settled, Making, On, Seat
  <2> QED
    BY <2>1, <2>2 DEF RoomsAreComplete
<1>4. RoomInv /\ AcceptedSettled => RoomsAreComplete
  BY <1>3
<1> QED
  BY <1>1, <1>2, <1>4, TypeCorrect, RoomsAreOwned, PTL DEF Spec

-----------------------------------------------------------------------------
(* What holds of a user and a group while the calls about them come one     *)
(* after the other and the cached copies of their requests are no older     *)
(* than the rows: a call has made sure of what its next step relies on, and *)
(* a request that has not been accepted has made no member.                 *)
Of(i, g, u) == requests[i].group = g /\ requests[i].user = u
Total(g, u) == members[<<g, u>>] + (IF owner[g] = u THEN 1 ELSE 0)
Alone(g, u) == \A c, d \in Calls : On(c, g, u) /\ On(d, g, u) => c = d
OneRequest(g, u) == \A i, j \in DOMAIN requests : Of(i, g, u) /\ Of(j, g, u) => i = j
Fresh(i, g, u) ==
  \/ cached[i] = "none" \/ cached[i] = requests[i].result
  \/ \E c \in Calls : On(c, g, u) /\ calls[c].pc = "evict" /\ calls[c].id = i
Waits(i, g, u) == requests[i].result # "pass" => Total(g, u) = 0
Current(g, u) == \A i \in DOMAIN requests : Of(i, g, u) => Fresh(i, g, u) /\ Waits(i, g, u)
Knows(c, g, u) ==
  /\ calls[c].pc \in {"request", "verify", "ask", "update", "evict", "join"} => Total(g, u) = 0
  /\ calls[c].pc \in {"verify", "ask"} => \A i \in DOMAIN requests : ~Of(i, g, u)
  /\ calls[c].pc = "update" => requests[calls[c].id].result \notin Decided
  /\ calls[c].pc = "evict" => requests[calls[c].id].result = calls[c].result
  /\ calls[c].pc = "join" => \A i \in DOMAIN requests : Of(i, g, u) => requests[i].result = "pass"
Good(g, u) ==
  /\ Alone(g, u) /\ OneRequest(g, u) /\ Total(g, u) \in {0, 1} /\ Current(g, u)
  /\ \A c \in Calls : On(c, g, u) => Knows(c, g, u)
JoinInv ==
  /\ \A g \in Rooms, u \in Users : <<g, u>> \notin disturbed => Good(g, u)
  /\ \A i \in Ids \ DOMAIN requests : cached[i] = "none"

(* A call that is about somebody else, or ends, spoils nothing.             *)
LEMMA Leave ==
  ASSUME TypeOK, NEW c \in Calls, NEW g \in Rooms, NEW u \in Users, Good(g, u),
         \A d \in Calls \ {c} : calls'[d] = calls[d], ~On(c, g, u)',
         Total(g, u)' = Total(g, u),
         \A i \in DOMAIN requests : i \in DOMAIN requests' /\ requests'[i] = requests[i],
         \A i \in DOMAIN requests' : Of(i, g, u)' =>
           /\ i \in DOMAIN requests
           /\ \/ cached'[i] = "none" \/ cached'[i] = requests[i].result
              \/ cached'[i] = cached[i] /\ ~(On(c, g, u) /\ calls[c].pc = "evict")
  PROVE  Good(g, u)'
<1>1. \A d \in Calls : On(d, g, u)' => d # c /\ On(d, g, u) /\ calls'[d] = calls[d]
  BY DEF On, Active
<1>2. \A i \in DOMAIN requests' : Of(i, g, u)' => i \in DOMAIN requests /\ Of(i, g, u) /\ requests'[i] = requests[i]
  BY DEF Of
<1>3. Alone(g, u)' /\ OneRequest(g, u)' /\ Total(g, u)' \in {0, 1}
  BY <1>1, <1>2 DEF Good, Alone, OneRequest
<1>4. ASSUME NEW i \in DOMAIN requests', Of(i, g, u)' PROVE Fresh(i, g, u)' /\ Waits(i, g, u)'
  <2>1. i \in DOMAIN requests /\ Fresh(i, g, u) /\ Waits(i, g, u) /\ requests'[i] = requests[i]
    BY <1>2, <1>4 DEF Good, Current
  <2>2. \A d \in Calls \ {c} : On(d, g, u) => On(d, g, u)' /\ calls'[d] = calls[d]
    BY DEF On, Active
  <2>3. Waits(i, g, u)'
    BY <2>1 DEF Waits
  <2>4. Fresh(i, g, u)'
    BY <1>4, <2>1, <2>2 DEF Fresh
  <2> QED
    BY <2>3, <2>4
<1>5. ASSUME NEW d \in Calls, On(d, g, u)' PROVE Knows(d, g, u)'
  <2>1. On(d, g, u) /\ calls'[d] = calls[d] /\ Knows(d, g, u)
    BY <1>1, <1>5 DEF Good
  <2>2. calls[d].pc \in {"update", "evict"} => calls[d].id \in DOMAIN requests
    BY DEF TypeOK, Fits, Handles
  <2> QED
    BY <1>2, <2>1, <2>2 DEF Knows
<1> QED
  BY <1>3, <1>4, <1>5 DEF Good, Current

(* The only call about somebody has nobody's knowledge to spoil but his.    *)
LEMMA Stays ==
  ASSUME TypeOK, NEW c \in Calls, NEW g \in Rooms, NEW u \in Users,
         \A d \in Calls : On(d, g, u) => d = c,
         \A d \in Calls \ {c} : calls'[d] = calls[d],
         OneRequest(g, u)', Total(g, u)' \in {0, 1}, Current(g, u)', On(c, g, u)' => Knows(c, g, u)'
  PROVE  Good(g, u)'
<1>1. \A d \in Calls : On(d, g, u)' => d = c
  BY DEF On, Active
<1> QED
  BY <1>1 DEF Good, Alone

(* The tables and the cache stay as they are for somebody.                  *)
LEMMA SameRows ==
  ASSUME NEW g, NEW u, NEW c \in Calls, UNCHANGED <<owner, members, requests, cached>>,
         \A d \in Calls \ {c} : calls'[d] = calls[d], ~(On(c, g, u) /\ calls[c].pc = "evict")
  PROVE  /\ Total(g, u)' = Total(g, u)
         /\ OneRequest(g, u) => OneRequest(g, u)'
         /\ Current(g, u) => Current(g, u)'
<1>1. Total(g, u)' = Total(g, u) /\ \A i : Of(i, g, u)' <=> Of(i, g, u)
  BY DEF Total, Of
<1>2. \A i : (Fresh(i, g, u) => Fresh(i, g, u)') /\ (Waits(i, g, u) => Waits(i, g, u)')
  BY <1>1 DEF Fresh, Waits, On, Active
<1> QED
  BY <1>1, <1>2 DEF OneRequest, Current

LEMMA InitJoin == Setting /\ Init => JoinInv
<1> SUFFICES ASSUME Setting, Init PROVE JoinInv
  OBVIOUS
<1>1. \A c \in Calls : \A g, u : ~On(c, g, u)
  BY DEF Init, NoCall, On, Active
<1>2. ASSUME NEW g \in Rooms, NEW u \in Users PROVE Total(g, u) \in {0, 1}
  <2>1. members[<<g, u>>] = 0
    BY DEF Init
  <2> QED
    BY <2>1 DEF Total
<1>3. DOMAIN requests = {}
  BY DEF Init
<1> QED
  BY <1>1, <1>2, <1>3 DEF JoinInv, Good, Alone, OneRequest, Current, Init

LEMMA StepJoin == Setting /\ TypeOK /\ TypeOK' /\ RoomInv /\ JoinInv /\ [Next]_vars => JoinInv'
<1> SUFFICES ASSUME Setting, TypeOK, TypeOK', RoomInv, JoinInv, [Next]_vars PROVE JoinInv'
  OBVIOUS
<1> USE DEF tables, history
(* A step of call c that changes no row and no cached copy: it is enough    *)
(* that what it is about after the step is good.                            *)
<1>a. ASSUME NEW c \in Calls, UNCHANGED <<owner, members, requests, cached>>,
             \A d \in Calls \ {c} : calls'[d] = calls[d], \A p \in disturbed : p \in disturbed',
             calls[c].pc = "evict" => Seat(c) \in disturbed',
             \A g \in Rooms, u \in Users :
               <<g, u>> \notin disturbed' /\ On(c, g, u)' =>
                 (\A d \in Calls : On(d, g, u) => d = c) /\ Knows(c, g, u)'
      PROVE  JoinInv'
  <2>1. ASSUME NEW g \in Rooms, NEW u \in Users, <<g, u>> \notin disturbed' PROVE Good(g, u)'
    <3>1. Good(g, u) /\ ~(On(c, g, u) /\ calls[c].pc = "evict")
      BY <1>a, <2>1 DEF JoinInv, On, Seat
    <3>2. Total(g, u)' = Total(g, u) /\ OneRequest(g, u)' /\ Current(g, u)'
      BY <1>a, <3>1, SameRows DEF Good
    <3>3. CASE On(c, g, u)'
      <4>1. Knows(c, g, u)' /\ \A d \in Calls : On(d, g, u) => d = c
        BY <1>a, <2>1, <3>3
      <4>2. Total(g, u)' \in {0, 1}
        BY <3>1, <3>2 DEF Good
      <4> QED
        BY <1>a, <3>2, <4>1, <4>2, Stays
    <3>4. CASE ~On(c, g, u)'
      BY <1>a, <3>1, <3>2, <3>4, Leave
    <3> QED
      BY <3>3, <3>4
  <2> QED
    BY <1>a, <2>1 DEF JoinInv
(* The same when the call ends.                                             *)
<1>b. ASSUME NEW c \in Calls, Ends(c), UNCHANGED <<owner, members, requests, cached>>,
             \A p \in disturbed : p \in disturbed', calls[c].pc = "evict" => Seat(c) \in disturbed'
      PROVE  JoinInv'
  BY <1>a, <1>b DEF Ends, On, Active
(* What an undisturbed call knows, and that it is the only one.             *)
<1>c. ASSUME NEW c \in Calls, NEW g \in Rooms, NEW u \in Users, <<g, u>> \notin disturbed, On(c, g, u)
      PROVE  Good(g, u) /\ Knows(c, g, u) /\ \A d \in Calls : On(d, g, u) => d = c
  BY <1>c DEF JoinInv, Good, Alone
(* A call begins: it is the only one, or disturbs.                          *)
<1>d. ASSUME NEW c \in Calls, NEW g \in Rooms, NEW u \in Users, <<g, u>> \notin Disturb(<<g, u>>)
      PROVE  \A d \in Calls : ~On(d, g, u)
  BY <1>d DEF Disturb, On, Seat
<1>e. \A p, q : p \in disturbed => p \in Disturb(q)
  BY DEF Disturb
<1>1. ASSUME NEW c \in Calls, NEW h \in Rooms, NEW v \in Users, GroupCreate(c, h, v) PROVE JoinInv'
  <2>1. Begins(c, "group", h, v) /\ \A d \in Calls : calls[d].group # h
    BY <1>1, BeginsCreate DEF GroupCreate
  <2>2. \A g, u : On(c, g, u)' => (\A d \in Calls : ~On(d, g, u)) /\ Knows(c, g, u)'
    BY <2>1 DEF On, Begins, Knows
  <2> QED
    BY <1>1, <1>a, <2>1, <2>2 DEF GroupCreate, Begins
<1>2. ASSUME NEW c \in Calls, InsertGroup(c) PROVE JoinInv'
  <2>1. Goes(c, "owner") /\ calls[c].pc = "group"
    BY <1>2, GoesOn DEF InsertGroup, Creates
  <2>2. ASSUME NEW g \in Rooms, NEW u \in Users, <<g, u>> \notin disturbed', On(c, g, u)'
        PROVE  (\A d \in Calls : On(d, g, u) => d = c) /\ Knows(c, g, u)'
    <3>1. On(c, g, u) /\ <<g, u>> \notin disturbed
      BY <1>2, <2>1, <2>2 DEF InsertGroup, On, Active, Goes
    <3> QED
      BY <1>c, <2>1, <3>1 DEF Goes, Knows
  <2> QED
    BY <1>2, <1>a, <2>1, <2>2 DEF InsertGroup, Goes
<1>3. ASSUME NEW c \in Calls, InsertOwner(c) PROVE JoinInv'
  <2>1. Goes(c, "conversation") /\ calls[c].pc = "owner" /\ Active(c) /\ Founds(c)
    BY <1>3, GoesOn DEF InsertOwner, Creates, Active, Founds
  <2>2. /\ UNCHANGED <<members, requests, cached, disturbed>>
        /\ owner' = [owner EXCEPT ![calls[c].group] = calls[c].user]
        /\ calls[c].group \in Rooms /\ calls[c].user \in Users /\ ~Owned(calls[c].group)
    BY <1>3, <2>1 DEF InsertOwner, TypeOK, Fits, RoomInv
  <2>3. \A d \in Calls \ {c} : calls'[d] = calls[d]
    BY <2>1 DEF Goes
  <2>4. ASSUME NEW g \in Rooms, NEW u \in Users, <<g, u>> \notin disturbed' PROVE Good(g, u)'
    <3>1. Good(g, u)
      BY <2>2, <2>4 DEF JoinInv
    <3>2. CASE g # calls[c].group
      <4>1. Total(g, u)' = Total(g, u) /\ ~On(c, g, u)' /\ ~On(c, g, u)
        BY <2>1, <2>2, <3>2 DEF Total, TypeOK, On, Goes
      <4> QED
        BY <2>2, <2>3, <3>1, <4>1, Leave DEF Of, Good, Current, Fresh
    <3>3. CASE g = calls[c].group
      <4>1. \A d \in Calls : On(d, g, u) => d = c
        BY <2>1, <2>2, <3>3 DEF RoomInv, On
      <4>2. \A i \in DOMAIN requests : requests[i].group # g
        BY <2>2, <3>3 DEF RoomInv
      <4>3. OneRequest(g, u)' /\ Current(g, u)'
        BY <2>2, <4>2 DEF OneRequest, Current, Of
      <4>4. Total(g, u)' \in {0, 1}
        <5>1. members[<<g, u>>] = 0
          BY <2>2, <3>3 DEF RoomInv
        <5> QED
          BY <2>2, <5>1 DEF Total
      <4>5. Knows(c, g, u)'
        BY <2>1 DEF Goes, Knows
      <4> QED
        BY <2>3, <4>1, <4>3, <4>4, <4>5, Stays
    <3> QED
      BY <3>2, <3>3
  <2> QED
    BY <2>2, <2>4 DEF JoinInv
<1>4. ASSUME NEW c \in Calls, CreateGroupConversation(c) PROVE JoinInv'
  <2>1. Ends(c) /\ calls[c].pc # "evict"
    BY <1>4, EndsNow DEF CreateGroupConversation
  <2> QED
    BY <1>4, <1>b, <2>1 DEF CreateGroupConversation
<1>5. ASSUME NEW c \in Calls, NEW h \in Rooms, NEW v \in Users, NEW by \in Users \cup {"none"},
             GroupPutIn(c, h, v, by)
      PROVE JoinInv'
  <2>1. Begins(c, "member", h, v) /\ disturbed' = Disturb(<<h, v>>)
    BY <1>5, BeginsJoin DEF GroupPutIn
  <2>2. ASSUME NEW g \in Rooms, NEW u \in Users, <<g, u>> \notin disturbed', On(c, g, u)'
        PROVE  (\A d \in Calls : On(d, g, u) => d = c) /\ Knows(c, g, u)'
    <3>1. g = h /\ u = v
      BY <2>1, <2>2 DEF On, Begins
    <3> QED
      BY <1>d, <2>1, <2>2, <3>1 DEF Begins, Knows
  <2> QED
    BY <1>5, <1>a, <1>e, <2>1, <2>2 DEF GroupPutIn, Begins
<1>6. ASSUME NEW c \in Calls, FindMember(c) PROVE JoinInv'
  <2>1. CASE Answer(c)
    BY <1>6, <1>b, <2>1, EndsNow DEF FindMember
  <2>2. CASE Continue(c, "request") /\ ~IsMember(calls[c].group, calls[c].user)
    <3>1. Goes(c, "request") /\ calls[c].pc = "member"
      BY <1>6, <2>2, GoesOn DEF FindMember, Joins
    <3>2. ASSUME NEW g \in Rooms, NEW u \in Users, <<g, u>> \notin disturbed', On(c, g, u)'
          PROVE  (\A d \in Calls : On(d, g, u) => d = c) /\ Knows(c, g, u)'
      <4>1. On(c, g, u) /\ <<g, u>> \notin disturbed
        BY <1>6, <3>1, <3>2 DEF FindMember, On, Active, Goes
      <4>2. members[<<g, u>>] \in Nat
        BY DEF TypeOK
      <4>3. Total(g, u) = 0
        BY <2>2, <4>1, <4>2 DEF IsMember, Total, On
      <4>4. Total(g, u)' = 0
        BY <1>6, <4>3 DEF FindMember, Total
      <4> QED
        BY <1>c, <3>1, <4>1, <4>4 DEF Goes, Knows
    <3> QED
      BY <1>6, <1>a, <3>1, <3>2 DEF FindMember, Goes
  <2> QED
    BY <1>6, <2>1, <2>2 DEF FindMember
<1>7. ASSUME NEW c \in Calls, FindRequest(c) PROVE JoinInv'
  <2>1. CASE Answer(c)
    BY <1>7, <1>b, <2>1, EndsNow DEF FindRequest
  <2>2. CASE Continue(c, "verify") /\ \A i \in DOMAIN requests : <<requests[i].group, requests[i].user>> # Seat(c)
    <3>1. Goes(c, "verify") /\ calls[c].pc = "request"
      BY <1>7, <2>2, GoesOn DEF FindRequest, Joins
    <3>2. ASSUME NEW g \in Rooms, NEW u \in Users, <<g, u>> \notin disturbed', On(c, g, u)'
          PROVE  (\A d \in Calls : On(d, g, u) => d = c) /\ Knows(c, g, u)'
      <4>1. On(c, g, u) /\ <<g, u>> \notin disturbed
        BY <1>7, <3>1, <3>2 DEF FindRequest, On, Active, Goes
      <4>2. Total(g, u) = 0
        BY <1>c, <3>1, <4>1 DEF Knows
      <4>3. Total(g, u)' = 0
        BY <1>7, <4>2 DEF FindRequest, Total
      <4>4. \A i \in DOMAIN requests' : ~Of(i, g, u)'
        BY <1>7, <2>2, <4>1 DEF FindRequest, Of, On, Seat
      <4> QED
        BY <1>c, <3>1, <4>1, <4>3, <4>4 DEF Goes, Knows
    <3> QED
      BY <1>7, <1>a, <3>1, <3>2 DEF FindRequest, Goes
  <2> QED
    BY <1>7, <2>1, <2>2 DEF FindRequest
<1>8. ASSUME NEW c \in Calls, Verify(c) PROVE JoinInv'
  <2>1. CASE Answer(c)
    BY <1>8, <1>b, <2>1, EndsNow DEF Verify
  <2>2. ASSUME NEW r, Admit(c, r) PROVE JoinInv'
    <3>1. /\ calls'[c].pc = "ask" /\ calls'[c].group = calls[c].group /\ calls'[c].user = calls[c].user
          /\ \A d \in Calls \ {c} : calls'[d] = calls[d]
      BY <2>2, Admits
    <3>2. ASSUME NEW g \in Rooms, NEW u \in Users, <<g, u>> \notin disturbed', On(c, g, u)'
          PROVE  (\A d \in Calls : On(d, g, u) => d = c) /\ Knows(c, g, u)'
      <4>1. On(c, g, u) /\ <<g, u>> \notin disturbed /\ calls[c].pc = "verify"
        BY <1>8, <3>1, <3>2 DEF Verify, On, Active
      <4>2. Total(g, u) = 0 /\ \A i \in DOMAIN requests : ~Of(i, g, u)
        BY <1>c, <4>1 DEF Knows
      <4>3. Total(g, u)' = 0 /\ \A i \in DOMAIN requests' : ~Of(i, g, u)'
        BY <1>8, <4>2 DEF Verify, Total, Of
      <4> QED
        BY <1>c, <3>1, <4>1, <4>3 DEF Knows
    <3> QED
      BY <1>8, <1>a, <3>1, <3>2 DEF Verify
  <2> QED
    BY <1>8, <2>1, <2>2 DEF Verify
<1>9. ASSUME NEW c \in Calls, NEW ok \in BOOLEAN, InsertRequest(c, ok) PROVE JoinInv'
  <2> DEFINE new == Len(requests) + 1
  <2>1. /\ calls[c].pc = "ask" /\ UNCHANGED <<owner, members, cached, disturbed>>
        /\ Ends(c) \/ (Goes(c, "join") /\ calls[c].result = "pass")
    BY <1>9, EndsNow, GoesOn DEF InsertRequest, Joins
  <2>2. \A d \in Calls \ {c} : calls'[d] = calls[d]
    BY <2>1 DEF Goes, Ends
  <2>3. \A g, u : Total(g, u)' = Total(g, u)
    BY <2>1 DEF Total
  <2>4. CASE ok = FALSE
    <3>1. UNCHANGED requests
      BY <1>9, <2>4 DEF InsertRequest
    <3>2. ASSUME NEW g \in Rooms, NEW u \in Users, <<g, u>> \notin disturbed', On(c, g, u)'
          PROVE  (\A d \in Calls : On(d, g, u) => d = c) /\ Knows(c, g, u)'
      <4>1. Goes(c, "join") /\ On(c, g, u) /\ <<g, u>> \notin disturbed
        BY <2>1, <3>2 DEF On, Active, Goes, Ends
      <4>2. Total(g, u)' = 0 /\ \A i \in DOMAIN requests' : ~Of(i, g, u)'
        BY <1>c, <2>1, <2>3, <3>1, <4>1 DEF Knows, Of
      <4> QED
        BY <1>c, <4>1, <4>2 DEF Knows, Goes
    <3> QED
      BY <1>a, <2>1, <2>2, <3>1, <3>2
  <2>5. CASE ok = TRUE
    <3>1. InsertRequest(c, TRUE)
      BY <1>9, <2>5
    <3>2. /\ DOMAIN requests' = DOMAIN requests \cup {new} /\ new \in Ids \ DOMAIN requests
          /\ \A i \in DOMAIN requests : requests'[i] = requests[i]
          /\ requests'[new] =
               [group |-> calls[c].group, user |-> calls[c].user, result |-> calls[c].result]
      BY <3>1, NewRow
    <3> HIDE DEF new
    <3>3. /\ requests'[new].group = calls[c].group /\ requests'[new].user = calls[c].user
          /\ requests'[new].result = calls[c].result /\ cached[new] = "none"
      BY <3>2 DEF JoinInv
    <3>4. ASSUME NEW g \in Rooms, NEW u \in Users, <<g, u>> \notin disturbed' PROVE Good(g, u)'
      <4>1. Good(g, u)
        BY <2>1, <3>4 DEF JoinInv
      <4>2. CASE ~On(c, g, u)
        <5>1. ~On(c, g, u)' /\ ~(requests'[new].group = g /\ requests'[new].user = u)
          BY <2>1, <3>3, <4>2 DEF On, Active, Goes, Ends
        <5>2. ASSUME NEW i \in DOMAIN requests', Of(i, g, u)'
              PROVE  i \in DOMAIN requests /\ cached'[i] = cached[i]
          BY <2>1, <3>2, <5>1, <5>2 DEF Of
        <5> QED
          BY <2>2, <2>3, <3>2, <4>1, <4>2, <5>1, <5>2, Leave
      <4>3. CASE On(c, g, u)
        <5>1. Total(g, u) = 0 /\ \A i \in DOMAIN requests : ~Of(i, g, u)
          BY <1>c, <2>1, <3>4, <4>3 DEF Knows
        <5>2. \A i \in DOMAIN requests' : Of(i, g, u)' => i = new
          BY <3>2, <5>1 DEF Of
        <5>3. OneRequest(g, u)' /\ Total(g, u)' = 0
          BY <2>3, <5>1, <5>2 DEF OneRequest
        <5>4. Current(g, u)'
          BY <2>1, <3>3, <5>2, <5>3 DEF Current, Fresh, Waits
        <5>5. On(c, g, u)' => Knows(c, g, u)'
          BY <2>1, <3>3, <5>2, <5>3 DEF On, Active, Goes, Ends, Knows
        <5>6. \A d \in Calls : On(d, g, u) => d = c
          BY <2>1, <3>4, <4>3, <1>c
        <5> QED
          BY <2>2, <5>3, <5>4, <5>5, <5>6, Stays
      <4> QED
        BY <4>2, <4>3
    <3> QED
      BY <2>1, <3>2, <3>4 DEF JoinInv
  <2> QED
    BY <2>4, <2>5
<1>10. ASSUME NEW c \in Calls, InsertMember(c) PROVE JoinInv'
  <2>1. /\ Ends(c) /\ calls[c].pc = "join" /\ Active(c)
        /\ UNCHANGED <<owner, requests, cached, disturbed>>
        /\ members' = [members EXCEPT ![Seat(c)] = @ + 1]
    BY <1>10, EndsNow DEF InsertMember, Active
  <2>2. \A g, u : ~On(c, g, u)'
    BY <2>1 DEF Ends, On, Active
  <2>3. ASSUME NEW g \in Rooms, NEW u \in Users, <<g, u>> \notin disturbed' PROVE Good(g, u)'
    <3>1. Good(g, u) /\ <<g, u>> \notin disturbed
      BY <2>1, <2>3 DEF JoinInv
    <3>2. CASE ~On(c, g, u)
      <4>1. Seat(c) # <<g, u>>
        BY <2>1, <3>2 DEF On, Seat
      <4>2. Total(g, u)' = Total(g, u)
        BY <2>1, <4>1 DEF Total, TypeOK
      <4> QED
        BY <2>1, <2>2, <3>1, <3>2, <4>2, Leave DEF Ends
    <3>3. CASE On(c, g, u)
      <4>1. Total(g, u) = 0 /\ \A i \in DOMAIN requests : Of(i, g, u) => requests[i].result = "pass"
        BY <1>c, <2>1, <3>1, <3>3 DEF Knows
      <4>2. Seat(c) = <<g, u>>
        BY <3>3 DEF On, Seat
      <4>3. members'[<<g, u>>] = members[<<g, u>>] + 1 /\ members[<<g, u>>] \in Nat
        BY <2>1, <4>2 DEF TypeOK
      <4>4. Total(g, u)' = 1
        BY <2>1, <4>1, <4>3 DEF Total
      <4>5. \A i : Of(i, g, u)' <=> Of(i, g, u)
        BY <2>1 DEF Of
      <4>6. OneRequest(g, u)'
        BY <2>1, <3>1, <4>5 DEF Good, OneRequest
      <4>7. ASSUME NEW i \in DOMAIN requests', Of(i, g, u)' PROVE Fresh(i, g, u)' /\ Waits(i, g, u)'
        <5>1. i \in DOMAIN requests /\ Of(i, g, u)
          BY <2>1, <4>5, <4>7
        <5>2. \A d \in Calls : On(d, g, u) => d = c
          BY <1>c, <3>1, <3>3
        <5>3. cached[i] = "none" \/ cached[i] = requests[i].result
          BY <2>1, <3>1, <5>1, <5>2 DEF Good, Current, Fresh
        <5> QED
          BY <2>1, <4>1, <5>1, <5>3 DEF Fresh, Waits
      <4>8. \A d \in Calls : On(d, g, u) => d = c
        BY <1>c, <3>1, <3>3
      <4> QED
        BY <2>1, <2>2, <4>4, <4>6, <4>7, <4>8, Stays DEF Ends, Current
    <3> QED
      BY <3>2, <3>3
  <2> QED
    BY <2>1, <2>3 DEF JoinInv
<1>11. ASSUME NEW c \in Calls, NEW id \in Ids, NEW result \in Results, GroupPutInHandle(c, id, result)
       PROVE JoinInv'
  <2>1. /\ Begins(c, "find", requests[id].group, requests[id].user)
        /\ disturbed' = Disturb(<<requests[id].group, requests[id].user>>)
    BY <1>11, BeginsHandle DEF GroupPutInHandle
  <2>2. ASSUME NEW g \in Rooms, NEW u \in Users, <<g, u>> \notin disturbed', On(c, g, u)'
        PROVE  (\A d \in Calls : On(d, g, u) => d = c) /\ Knows(c, g, u)'
    <3>1. g = requests[id].group /\ u = requests[id].user
      BY <2>1, <2>2 DEF On, Begins
    <3> QED
      BY <1>d, <2>1, <2>2, <3>1 DEF Begins, Knows
  <2> QED
    BY <1>11, <1>a, <1>e, <2>1, <2>2 DEF GroupPutInHandle, Begins
<1>12. ASSUME NEW c \in Calls, FindOne(c) PROVE JoinInv'
  <2> DEFINE id == calls[c].id
             read == IF cached[id] # "none" THEN cached[id] ELSE requests[id].result
  <2>1. /\ calls[c].pc = "find" /\ Active(c) /\ id \in DOMAIN requests
        /\ Of(id, calls[c].group, calls[c].user)
        /\ UNCHANGED <<owner, members, requests, disturbed>>
        /\ cached' = [cached EXCEPT ![id] = read]
    BY <1>12 DEF FindOne, Active, TypeOK, Fits, Handles, Of
  <2>2. id \in Ids
    BY <2>1, RowsAt
  <2>3. Ends(c) \/ (Goes(c, "update") /\ read \notin Decided)
    BY <1>12, EndsNow, GoesOn DEF FindOne, Handles
  <2>4. \A d \in Calls \ {c} : calls'[d] = calls[d]
    BY <2>3 DEF Ends, Goes
  <2> HIDE DEF read
  <2>5. ASSUME NEW g \in Rooms, NEW u \in Users, <<g, u>> \notin disturbed' PROVE Good(g, u)'
    <3>1. Good(g, u) /\ <<g, u>> \notin disturbed
      BY <2>1, <2>5 DEF JoinInv
    <3>2. Total(g, u)' = Total(g, u)
      BY <2>1 DEF Total
    <3>3. CASE ~On(c, g, u)
      <4>1. ~On(c, g, u)' /\ ~Of(id, g, u)
        BY <2>1, <2>3, <3>3 DEF On, Active, Ends, Goes, Of
      <4>2. \A i \in DOMAIN requests' : Of(i, g, u)' => i # id /\ i \in Ids
        BY <2>1, <4>1, RowsAt DEF Of
      <4>3. \A i \in DOMAIN requests' : Of(i, g, u)' => cached'[i] = cached[i]
        BY <2>1, <4>2 DEF TypeOK
      <4> QED
        BY <2>1, <2>4, <3>1, <3>2, <3>3, <4>1, <4>3, Leave
    <3>4. CASE On(c, g, u)
      <4>1. \A d \in Calls : On(d, g, u) => d = c
        BY <1>c, <3>1, <3>4
      <4>2. \A i \in DOMAIN requests : Of(i, g, u) =>
              /\ cached[i] = "none" \/ cached[i] = requests[i].result
              /\ Waits(i, g, u)
        BY <2>1, <3>1, <4>1 DEF Good, Current, Fresh
      <4>3. Of(id, g, u)
        BY <2>1, <3>4 DEF On
      <4>4. read = requests[id].result
        BY <2>1, <4>2, <4>3 DEF read
      <4>5. \A i : Of(i, g, u)' <=> Of(i, g, u)
        BY <2>1 DEF Of
      <4>6. OneRequest(g, u)'
        BY <2>1, <3>1, <4>5 DEF Good, OneRequest
      <4>7. ASSUME NEW i \in DOMAIN requests', Of(i, g, u)' PROVE Fresh(i, g, u)' /\ Waits(i, g, u)'
        <5>1. i \in DOMAIN requests /\ Of(i, g, u) /\ i \in Ids
          BY <2>1, <4>5, <4>7, RowsAt
        <5>2. cached'[i] = "none" \/ cached'[i] = requests[i].result
          BY <2>1, <4>2, <4>4, <5>1 DEF TypeOK
        <5> QED
          BY <2>1, <3>2, <4>2, <5>1, <5>2 DEF Fresh, Waits
      <4>8. On(c, g, u)' => Knows(c, g, u)'
        <5>1. requests[id].result \notin Decided => Total(g, u) = 0
          BY <2>1, <4>2, <4>3 DEF Waits, Decided
        <5> QED
          BY <2>1, <2>3, <3>2, <4>4, <5>1 DEF On, Active, Ends, Goes, Knows
      <4>9. Total(g, u)' \in {0, 1}
        BY <3>1, <3>2 DEF Good
      <4> QED
        BY <2>4, <4>1, <4>6, <4>7, <4>8, <4>9, Stays DEF Current
    <3> QED
      BY <3>3, <3>4
  <2> QED
    BY <2>1, <2>2, <2>5 DEF JoinInv, TypeOK
<1>13. ASSUME NEW c \in Calls, Update(c) PROVE JoinInv'
  <2> DEFINE id == calls[c].id
  <2>1. /\ Goes(c, "evict") /\ calls[c].pc = "update" /\ Active(c) /\ id \in DOMAIN requests
        /\ Of(id, calls[c].group, calls[c].user)
        /\ UNCHANGED <<owner, members, cached, disturbed>>
    BY <1>13, GoesOn DEF Update, Active, TypeOK, Fits, Handles, Of
  <2>2. /\ DOMAIN requests' = DOMAIN requests
        /\ \A i \in DOMAIN requests : i # id => requests'[i] = requests[i]
        /\ requests'[id].result = calls[c].result
    <3>1. requests[id] \in Row
      BY <2>1, RowsAt
    <3> QED
      BY <1>13, <2>1, <3>1, DecidedRow DEF Row
  <2>3. \A i, g, u : i \in DOMAIN requests => (Of(i, g, u)' <=> Of(i, g, u))
    BY <1>13, DecidedStays DEF RowsStay, Of
  <2>4. \A g, u : Total(g, u)' = Total(g, u)
    BY <2>1 DEF Total
  <2>5. ASSUME NEW g \in Rooms, NEW u \in Users, <<g, u>> \notin disturbed' PROVE Good(g, u)'
    <3>1. Good(g, u) /\ <<g, u>> \notin disturbed
      BY <2>1, <2>5 DEF JoinInv
    <3>2. CASE ~On(c, g, u)
      <4>1. ~On(c, g, u)' /\ ~Of(id, g, u)
        BY <2>1, <3>2 DEF On, Active, Goes, Of
      <4>2. \A d \in Calls : On(d, g, u)' <=> On(d, g, u)
        BY <2>1, <3>2, <4>1 DEF On, Active, Goes
      <4>3. OneRequest(g, u)' /\ Alone(g, u)'
        BY <2>2, <2>3, <3>1, <4>2 DEF Good, OneRequest, Alone
      <4>4. ASSUME NEW i \in DOMAIN requests, Of(i, g, u) PROVE Fresh(i, g, u)' /\ Waits(i, g, u)'
        <5>1. i # id /\ requests'[i] = requests[i] /\ Fresh(i, g, u) /\ Waits(i, g, u)
          BY <2>2, <3>1, <4>1, <4>4 DEF Good, Current
        <5>2. \A d \in Calls : On(d, g, u) => calls'[d] = calls[d]
          BY <2>1, <3>2 DEF Goes
        <5> QED
          BY <2>1, <2>4, <4>2, <5>1, <5>2 DEF Fresh, Waits
      <4>5. Current(g, u)'
        BY <2>2, <2>3, <4>4 DEF Current
      <4>6. ASSUME NEW d \in Calls, On(d, g, u)' PROVE Knows(d, g, u)'
        <5>1. On(d, g, u) /\ Knows(d, g, u) /\ calls'[d] = calls[d]
          BY <2>1, <3>1, <3>2, <4>2, <4>6 DEF Good, Goes
        <5>2. calls[d].pc \in Handles => calls[d].id \in DOMAIN requests /\ Of(calls[d].id, g, u)
          BY <5>1 DEF TypeOK, Fits, On, Of
        <5>3. calls[d].pc \in Handles => requests'[calls[d].id] = requests[calls[d].id]
          BY <2>2, <4>1, <5>2
        <5>4. \A i \in DOMAIN requests : Of(i, g, u) => requests'[i] = requests[i]
          BY <2>2, <4>1
        <5> QED
          BY <2>2, <2>3, <2>4, <5>1, <5>3, <5>4 DEF Knows, Handles
      <4> QED
        BY <2>4, <3>1, <4>3, <4>5, <4>6 DEF Good
    <3>3. CASE On(c, g, u)
      <4>1. Total(g, u) = 0 /\ \A d \in Calls : On(d, g, u) => d = c
        BY <1>c, <2>1, <3>1, <3>3 DEF Knows
      <4>2. OneRequest(g, u)' /\ \A i \in DOMAIN requests : Of(i, g, u) => i = id
        BY <2>1, <2>2, <2>3, <3>1, <3>3 DEF Good, OneRequest, On
      <4>3. On(c, g, u)' /\ calls'[c].pc = "evict" /\ calls'[c].id = id /\ calls'[c].result = calls[c].result
        BY <2>1, <3>3 DEF On, Active, Goes
      <4>4. Current(g, u)'
        BY <2>2, <2>3, <2>4, <4>1, <4>2, <4>3 DEF Current, Fresh, Waits
      <4>5. Knows(c, g, u)'
        BY <2>2, <2>4, <4>1, <4>3 DEF Knows
      <4>6. Total(g, u)' \in {0, 1} /\ \A d \in Calls \ {c} : calls'[d] = calls[d]
        BY <2>1, <2>4, <4>1 DEF Goes
      <4> QED
        BY <4>1, <4>2, <4>4, <4>5, <4>6, Stays
    <3> QED
      BY <3>2, <3>3
  <2> QED
    BY <2>1, <2>2, <2>5 DEF JoinInv
<1>14. ASSUME NEW c \in Calls, NEW ok \in BOOLEAN, Evict(c, ok) PROVE JoinInv'
  <2> DEFINE id == calls[c].id
  <2>1. /\ calls[c].pc = "evict" /\ Active(c) /\ id \in DOMAIN requests
        /\ Of(id, calls[c].group, calls[c].user)
        /\ UNCHANGED <<owner, members, requests>>
        /\ \A p \in disturbed : p \in disturbed'
        /\ cached' = IF ok THEN [cached EXCEPT ![id] = "none"] ELSE cached
        /\ ok \/ Seat(c) \in disturbed'
    BY <1>14 DEF Evict, Active, TypeOK, Fits, Handles, Of
  <2>2. Ends(c) \/ (Goes(c, "join") /\ calls[c].result = "pass")
    BY <1>14, EndsNow, GoesOn DEF Evict, Joins
  <2>3. \A d \in Calls \ {c} : calls'[d] = calls[d]
    BY <2>2 DEF Ends, Goes
  <2>4. \A g, u : Total(g, u)' = Total(g, u) /\ \A i : Of(i, g, u)' <=> Of(i, g, u)
    BY <2>1 DEF Total, Of
  <2>5. \A i \in Ids : cached'[i] = "none" \/ cached'[i] = cached[i]
    BY <2>1 DEF TypeOK
  <2>6. \A i \in DOMAIN requests : i \in Ids
    BY RowsAt
  <2>7. ASSUME NEW g \in Rooms, NEW u \in Users, <<g, u>> \notin disturbed' PROVE Good(g, u)'
    <3>1. Good(g, u) /\ <<g, u>> \notin disturbed
      BY <2>1, <2>7 DEF JoinInv
    <3>2. CASE ~On(c, g, u)
      <4>1. ~On(c, g, u)'
        BY <2>1, <2>2, <3>2 DEF On, Active, Ends, Goes
      <4> QED
        BY <2>1, <2>3, <2>4, <2>5, <2>6, <3>1, <3>2, <4>1, Leave
    <3>3. CASE On(c, g, u)
      <4>1. ok /\ \A d \in Calls : On(d, g, u) => d = c
        BY <1>c, <2>1, <2>7, <3>1, <3>3 DEF On, Seat
      <4>2. /\ Total(g, u) = 0 /\ requests[id].result = calls[c].result
            /\ \A i \in DOMAIN requests : Of(i, g, u) => i = id
        BY <1>c, <2>1, <3>1, <3>3 DEF Knows, Good, OneRequest, On
      <4>3. cached'[id] = "none"
        BY <2>1, <2>6, <4>1 DEF TypeOK
      <4>4. OneRequest(g, u)'
        BY <2>1, <2>4, <4>2 DEF OneRequest
      <4>5. Current(g, u)'
        BY <2>1, <2>4, <4>2, <4>3 DEF Current, Fresh, Waits
      <4>6. On(c, g, u)' => Knows(c, g, u)'
        BY <2>1, <2>2, <2>4, <4>2 DEF On, Active, Ends, Goes, Knows
      <4> QED
        BY <2>3, <2>4, <4>1, <4>2, <4>4, <4>5, <4>6, Stays
    <3> QED
      BY <3>2, <3>3
  <2> QED
    BY <2>1, <2>5, <2>7 DEF JoinInv
<1>16. ASSUME NEW c \in Calls, Fail(c) PROVE JoinInv'
  <2>1. Ends(c)
    BY <1>16, EndsNow DEF Fail
  <2>2. (\A p \in disturbed : p \in disturbed') /\ (calls[c].pc = "evict" => Seat(c) \in disturbed')
    BY <1>16 DEF Fail
  <2> QED
    BY <1>16, <1>b, <2>1, <2>2 DEF Fail
<1>15. CASE UNCHANGED vars
  <2>1. \A c \in Calls : \A g, u : (On(c, g, u)' <=> On(c, g, u)) /\ (Knows(c, g, u)' <=> Knows(c, g, u))
    BY <1>15 DEF vars, On, Active, Knows, Total, Of
  <2>2. \A g, u : Current(g, u)' <=> Current(g, u)
    BY <1>15, <2>1 DEF vars, Current, Of, Fresh, Waits, Total
  <2> QED
    BY <1>15, <2>1, <2>2 DEF vars, JoinInv, Good, Alone, OneRequest, Of, Total
<1> QED
  BY <1>1, <1>2, <1>3, <1>4, <1>5, <1>6, <1>7, <1>8, <1>9, <1>10, <1>11, <1>12, <1>13, <1>14, <1>15, <1>16
  DEF Next, Creating, Joining, Deciding

(* Nobody is in a group twice, up to the overlaps and the stale copies that *)
(* JoinedOnce names (groupputinlogic.go, groupputinhandlelogic.go): the     *)
(* checks before the insert are enough when calls do not overlap.           *)
THEOREM MembersJoinOnce == ASSUME Setting PROVE Spec => []JoinedOnce
<1>1. Init => JoinInv
  BY InitJoin
<1>2. TypeOK /\ TypeOK' /\ RoomInv /\ JoinInv /\ [Next]_vars => JoinInv'
  BY StepJoin
<1>3. ASSUME TypeOK, JoinInv PROVE JoinedOnce
  <2>1. ASSUME NEW p \in DOMAIN members \ disturbed
        PROVE  members[p] + (IF owner[p[1]] = p[2] THEN 1 ELSE 0) <= 1
    <3>1. p[1] \in Rooms /\ p[2] \in Users /\ p = <<p[1], p[2]>>
      BY <1>3, <2>1 DEF TypeOK
    <3>2. Total(p[1], p[2]) \in {0, 1}
      BY <1>3, <2>1, <3>1 DEF JoinInv, Good
    <3> QED
      BY <3>1, <3>2 DEF Total
  <2> QED
    BY <2>1 DEF JoinedOnce
<1>4. TypeOK /\ JoinInv => JoinedOnce
  BY <1>3
<1> QED
  BY <1>1, <1>2, <1>4, TypeCorrect, RoomsAreOwned, PTL DEF Spec
=============================================================================
