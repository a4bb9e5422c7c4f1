------------------------------- MODULE Friends -------------------------------
(***************************************************************************)
(* Friend requests of the social service: asking, handling, listing.       *)
(*                                                                         *)
(* The rows of the tables friend_requests and friends, the cached copy of  *)
(* a request that FindOne keeps in Redis, and the calls of the rpc         *)
(* service, one database or cache command a step.  The tables have no      *)
(* unique key but the id, and what the code calls a transaction updates    *)
(* the request on a connection of its own, so every prefix of a call may   *)
(* remain when a command fails or the process dies (Fail).                 *)
(***************************************************************************)
EXTENDS Integers, Sequences, FiniteSets

CONSTANTS
  Users,
  Calls,        \* the calls that arrive, each a goroutine of the rpc server
  MaxRequests   \* bound: rows of friend_requests

ASSUME MaxRequestsAssumption == MaxRequests \in Nat

VARIABLES
  requests,   \* the table friend_requests: a row's place is its id
  friends,    \* the table friends: how many rows it has for <<user_id, friend_uid>>
  cached,     \* Redis: the handle_result in the cached copy of a request, or "none"
  calls,      \* the calls of the rpc service
  made,       \* history: how often the friends of a request were inserted
  disturbed,  \* history: requests whose handlings overlapped or whose cached copy outlived an update
  broken      \* history: requests accepted by a call that failed before it inserted the friends

rows == <<requests, friends>>
history == <<made, disturbed, broken>>
vars == <<rows, cached, calls, history>>

-----------------------------------------------------------------------------
Results == {"no", "pass", "refuse", "cancel"}
Decided == {"pass", "refuse"}

Ids == 1..MaxRequests
Row == [user: Users, req: Users, result: Results]

(* A call: its next step, what it was asked and what it read.               *)
Asks == {"friends", "requests", "ask"}
Handles == {"find", "fill", "update", "evict", "insert"}
Call == [pc: Asks \cup Handles \cup {"idle", "done"}, user: Users \cup {"none"},
         req: Users \cup {"none"}, id: Ids \cup {0},
         result: Results \cup {"none"}, read: Results \cup {"none"}]
NoCall == [pc |-> "idle", user |-> "none", req |-> "none", id |-> 0, result |-> "none", read |-> "none"]
Answered == [NoCall EXCEPT !.pc = "done"]

Handling(c) == calls[c].pc \in Handles
HandlingOf(id) == {c \in Calls : Handling(c) /\ calls[c].id = id}

Init ==
  /\ requests = <<>>
  /\ friends = [p \in Users \X Users |-> 0]
  /\ cached = [i \in Ids |-> "none"]
  /\ calls = [c \in Calls |-> NoCall]
  /\ made = [i \in Ids |-> 0]
  /\ disturbed = {} /\ broken = {}

Continue(c, pc) == calls' = [calls EXCEPT ![c].pc = pc]
Answer(c) == calls' = [calls EXCEPT ![c] = Answered]

-----------------------------------------------------------------------------
(* The api: a user asks another to be friends, or handles a request.  The   *)
(* result is whatever number the caller sends.                              *)
FriendPutIn(c, u, v) ==
  /\ calls[c].pc = "idle"
  /\ calls' = [calls EXCEPT ![c] = [NoCall EXCEPT !.pc = "friends", !.user = u, !.req = v]]
  /\ UNCHANGED <<rows, cached, history>>

(* Mutant: of a request that does not exist, too.                           *)
HandleAnyId(c, id, result) ==
  /\ calls[c].pc = "idle"
  /\ calls' = [calls EXCEPT ![c] = [NoCall EXCEPT !.pc = "find", !.id = id, !.result = result]]
  /\ disturbed' = IF HandlingOf(id) # {} THEN disturbed \cup {id} ELSE disturbed
  /\ UNCHANGED <<rows, cached, made, broken>>
FriendPutInHandle(c, id, result) ==
  /\ calls[c].pc = "idle"
  /\ id \in DOMAIN requests
  /\ calls' = [calls EXCEPT ![c] = [NoCall EXCEPT !.pc = "find", !.id = id, !.result = result]]
  /\ disturbed' = IF HandlingOf(id) # {} THEN disturbed \cup {id} ELSE disturbed
  /\ UNCHANGED <<rows, cached, made, broken>>

-----------------------------------------------------------------------------
(* FriendPutIn *)

(* FindByUidAndFid: they are friends already.                               *)
FindFriends(c) ==
  /\ calls[c].pc = "friends"
  /\ IF friends[<<calls[c].user, calls[c].req>>] > 0
     THEN Answer(c) ELSE Continue(c, "requests")
  /\ UNCHANGED <<rows, cached, history>>

(* FindByReqUidAndUserId: he asked before, with whatever result.            *)
Asked(u, v) == \E i \in DOMAIN requests : requests[i].user = u /\ requests[i].req = v
FindRequest(c) ==
  /\ calls[c].pc = "requests"
  /\ IF Asked(calls[c].user, calls[c].req)
     THEN Answer(c) ELSE Continue(c, "ask")
  /\ UNCHANGED <<rows, cached, history>>

(* Insert.  Its error is not looked at: see Fail.                           *)
InsertRequest(c) ==
  /\ calls[c].pc = "ask"
  /\ Len(requests) < MaxRequests
  /\ requests' = Append(requests, [user |-> calls[c].user, req |-> calls[c].req, result |-> "no"])
  /\ Answer(c)
  /\ UNCHANGED <<friends, cached, history>>

-----------------------------------------------------------------------------
(* FriendPutInHandle *)

(* The copy just read says whether someone handled the request before.      *)
Check(c, read) ==
  calls' = [calls EXCEPT ![c] =
              IF read \in Decided THEN Answered ELSE [@ EXCEPT !.pc = "update", !.read = read]]

(* FindOne answers from the cache, else from the table ...                  *)
FindOne(c) ==
  LET id == calls[c].id
  IN /\ calls[c].pc = "find"
     /\ IF cached[id] # "none"
        THEN Check(c, cached[id])
        ELSE calls' = [calls EXCEPT ![c].pc = "fill", ![c].read = requests[id].result]
     /\ UNCHANGED <<rows, cached, history>>

(* ... and then the cache gets what was read.                               *)
FillCache(c) ==
  /\ calls[c].pc = "fill"
  /\ cached' = [cached EXCEPT ![calls[c].id] = calls[c].read]
  /\ Check(c, calls[c].read)
  /\ UNCHANGED <<rows, history>>

(* Update writes the row that was read back with the new result, unasked    *)
(* whether it still is as it was read.                                      *)
Update(c) ==
  /\ calls[c].pc = "update"
  /\ requests' = [requests EXCEPT ![calls[c].id].result = calls[c].result]
  /\ Continue(c, "evict")
  /\ UNCHANGED <<friends, cached, history>>

(* The cached copy is deleted after the update.  A failure to do so is      *)
(* logged and retried later.  Only an accepted request makes friends.       *)
(* Mutant: the cached copy stays.                                           *)
KeepCached(c, ok) ==
  LET id == calls[c].id
  IN /\ calls[c].pc = "evict"
     /\ disturbed' = IF ok THEN disturbed ELSE disturbed \cup {id}
     /\ IF calls[c].result = "pass" THEN Continue(c, "insert") ELSE Answer(c)
     /\ UNCHANGED <<rows, cached, made, broken>>
Evict(c, ok) ==
  LET id == calls[c].id
  IN /\ calls[c].pc = "evict"
     /\ cached' = IF ok THEN [cached EXCEPT ![id] = "none"] ELSE cached
     /\ disturbed' = IF ok THEN disturbed ELSE disturbed \cup {id}
     /\ IF calls[c].result = "pass" THEN Continue(c, "insert") ELSE Answer(c)
     /\ UNCHANGED <<rows, made, broken>>

(* Inserts: both rows of the friendship in one statement.                   *)
(* Mutant: only the one of the user who asked.                              *)
BefriendOneWay(u, v) == [friends EXCEPT ![<<u, v>>] = @ + 1]
Befriend(u, v) ==
  [p \in DOMAIN friends |->
     friends[p] + (IF p = <<u, v>> THEN 1 ELSE 0) + (IF p = <<v, u>> THEN 1 ELSE 0)]
InsertFriends(c) ==
  LET id == calls[c].id
  IN /\ calls[c].pc = "insert"
     /\ friends' = Befriend(requests[id].user, requests[id].req)
     /\ made' = [made EXCEPT ![id] = @ + 1]
     /\ Answer(c)
     /\ UNCHANGED <<requests, cached, disturbed, broken>>

-----------------------------------------------------------------------------
(* A command fails, or the process dies: the call ends there.  What it did  *)
(* before stays, the transaction having nothing of it to roll back.         *)
Fail(c) ==
  LET id == calls[c].id
  IN /\ calls[c].pc \notin {"idle", "done"}
     /\ disturbed' = IF calls[c].pc = "evict" THEN disturbed \cup {id} ELSE disturbed
     /\ broken' = IF calls[c].pc \in {"evict", "insert"} /\ calls[c].result = "pass"
                  THEN broken \cup {id} ELSE broken
     /\ Answer(c)
     /\ UNCHANGED <<rows, cached, made>>

(* Redis drops the cached copy when its time is over.                       *)
Expire(id) ==
  /\ cached[id] # "none"
  /\ cached' = [cached EXCEPT ![id] = "none"]
  /\ UNCHANGED <<rows, calls, history>>

Asking(c) == (\E u, v \in Users : FriendPutIn(c, u, v)) \/ FindFriends(c) \/ FindRequest(c) \/ InsertRequest(c)

Deciding(c) ==
  \/ \E id \in Ids, result \in Results : FriendPutInHandle(c, id, result)
  \/ FindOne(c) \/ FillCache(c) \/ Update(c) \/ InsertFriends(c)
  \/ \E ok \in BOOLEAN : Evict(c, ok)

Next == \/ \E c \in Calls : Asking(c) \/ Deciding(c) \/ Fail(c)
        \/ \E id \in Ids : Expire(id)

Spec == Init /\ [][Next]_vars

-----------------------------------------------------------------------------
(* Properties *)

(* What a call knows by the step it has come to.                            *)
Fits(call) ==
  /\ call.pc \in Asks => call.user \in Users /\ call.req \in Users
  /\ call.pc \in Handles => call.id \in DOMAIN requests /\ call.result \in Results
  /\ call.pc = "fill" => call.read \in Results

(* TypeOK: the tables, the cache and the calls keep their shape.            *)
TypeOK ==
  /\ requests \in Seq(Row) /\ Len(requests) <= MaxRequests
  /\ friends \in [Users \X Users -> Nat]
  /\ cached \in [Ids -> Results \cup {"none"}]
  /\ calls \in [Calls -> Call]
  /\ \A c \in Calls : Fits(calls[c])
  /\ made \in [Ids -> Nat]
  /\ disturbed \subseteq Ids /\ broken \subseteq Ids

(* DecidedOnce: "before passed" and "before refused" can be relied on       *)
(* (friendputinhandlelogic.go:45-50), although the check reads a cached     *)
(* copy and the update does not repeat it: a request makes its two friends  *)
(* at most once, and only while it stays accepted.  The exceptions are a    *)
(* request that two calls handled at once and one whose cached copy         *)
(* survived an update.                                                      *)
DecidedOnce ==
  \A id \in DOMAIN requests \ disturbed :
    made[id] = 0 \/ (made[id] = 1 /\ requests[id].result = "pass")

(* DecisionIsFinal: under the same exceptions nobody changes a decision.    *)
DecisionIsFinal ==
  [][\A id \in DOMAIN requests \ disturbed :
       requests[id].result \in Decided => requests'[id] = requests[id]]_vars

(* AcceptedAreFriends: an accepted request has made both users friends of   *)
(* each other, or the call that accepted it is on its way to do so, or it   *)
(* failed in between (the update is not part of the transaction).           *)
AcceptedAreFriends ==
  \A id \in DOMAIN requests :
    LET u == requests[id].user
        v == requests[id].req
    IN requests[id].result = "pass" =>
         \/ friends[<<u, v>>] > 0 /\ friends[<<v, u>>] > 0
         \/ id \in broken
         \/ \E c \in HandlingOf(id) : calls[c].pc \in {"evict", "insert"} /\ calls[c].result = "pass"
=============================================================================
