------------------------------- MODULE Groups -------------------------------
(***************************************************************************)
(* Groups of the social service: creating one, joining it, handling the    *)
(* requests to join.  Modelled like Friends, one database or cache command *)
(* a step: the tables groups, group_members and group_requests, the cached *)
(* copy of a request, and the conversation the api creates for a new group *)
(* in the IM service (the subject of Conversation).                        *)
(*                                                                         *)
(* GroupCreate makes every group free to join; a group with is_verify set  *)
(* is one somebody changed in the table, as no code does.                  *)
(***************************************************************************)
EXTENDS Integers, Sequences, FiniteSets

CONSTANTS
  Users,
  Rooms,         \* the ids of the groups
  Verified,      \* the groups that exist from the start, with is_verify set
  Founder,       \* who created them
  Calls,
  MaxRequests    \* bound: rows of group_requests

VARIABLES
  groups,         \* the table groups: the ids it has
  owner,          \* group_members: whose row has the creator's role, by group
  members,        \* group_members: how many other rows it has for <<group_id, user_id>>
  requests,       \* the table group_requests: a row's place is its id
  cached,         \* Redis: the handle_result in the cached copy of a request, or "none"
  conversations,  \* IM: the groups with a conversation
  calls,
  disturbed,      \* history: <<group, user>> whose requests overlapped, or whose cached request was stale
  broken          \* history: <<group, user>> let in by a call that failed before it inserted the member

tables == <<groups, owner, members, requests>>
history == <<disturbed, broken>>
vars == <<tables, cached, conversations, calls, history>>

-----------------------------------------------------------------------------
Results == {"no", "pass", "refuse", "cancel"}
Decided == {"pass", "refuse"}
Ids == 1..MaxRequests

NoCall == [pc |-> "idle", group |-> "none", user |-> "none", by |-> "none",
           id |-> 0, result |-> "none"]
Answered == [NoCall EXCEPT !.pc = "done"]
Seat(c) == <<calls[c].group, calls[c].user>>

Init ==
  /\ groups = Verified
  /\ owner = [g \in Rooms |-> IF g \in Verified THEN Founder ELSE "none"]
  /\ members = [p \in Rooms \X Users |-> 0]
  /\ requests = <<>>
  /\ cached = [i \in Ids |-> "none"]
  /\ conversations = Verified
  /\ calls = [c \in Calls |-> NoCall]
  /\ disturbed = {} /\ broken = {}

Continue(c, pc) == calls' = [calls EXCEPT ![c].pc = pc]
Answer(c) == calls' = [calls EXCEPT ![c] = Answered]
Active(c) == calls[c].pc \notin {"idle", "done"}

(* A call about a seat that another call is about as well.                  *)
Disturb(p) == IF \E c \in Calls : Active(c) /\ Seat(c) = p THEN disturbed \cup {p} ELSE disturbed

-----------------------------------------------------------------------------
(* GroupCreate: the group under a new id, then its creator's member row,    *)
(* then, by the api, the conversation.                                      *)
GroupCreate(c, g, u) ==
  /\ calls[c].pc = "idle"
  /\ g \notin groups /\ \A d \in Calls : calls[d].group # g
  /\ calls' = [calls EXCEPT ![c] = [NoCall EXCEPT !.pc = "group", !.group = g, !.user = u]]
  /\ UNCHANGED <<tables, cached, conversations, history>>

InsertGroup(c) ==
  /\ calls[c].pc = "group"
  /\ groups' = groups \cup {calls[c].group}
  /\ Continue(c, "owner")
  /\ UNCHANGED <<owner, members, requests, cached, conversations, history>>

(* Mutant: the conversation is asked for whether or not the insert worked.  *)
InsertOwnerAnyway(c) ==
  /\ calls[c].pc = "owner"
  /\ Continue(c, "conversation")
  /\ UNCHANGED <<tables, cached, conversations, history>>
InsertOwner(c) ==
  /\ calls[c].pc = "owner"
  /\ owner' = [owner EXCEPT ![calls[c].group] = calls[c].user]
  /\ Continue(c, "conversation")
  /\ UNCHANGED <<groups, members, requests, cached, conversations, history>>

CreateGroupConversation(c) ==
  /\ calls[c].pc = "conversation"
  /\ conversations' = conversations \cup {calls[c].group}
  /\ Answer(c)
  /\ UNCHANGED <<tables, cached, history>>

-----------------------------------------------------------------------------
(* GroupPutin: a user asks to join (by = "none") or is invited by another.  *)
(* He learnt of the group from its member list.                             *)
GroupPutIn(c, g, u, by) ==
  /\ calls[c].pc = "idle"
  /\ g \in groups /\ owner[g] # "none"
  /\ calls' = [calls EXCEPT ![c] = [NoCall EXCEPT !.pc = "member", !.group = g, !.user = u, !.by = by]]
  /\ disturbed' = Disturb(<<g, u>>)
  /\ UNCHANGED <<tables, cached, conversations, broken>>

IsMember(g, u) == owner[g] = u \/ members[<<g, u>>] > 0
FindMember(c) ==
  /\ calls[c].pc = "member"
  /\ IF IsMember(calls[c].group, calls[c].user) THEN Answer(c) ELSE Continue(c, "request")
  /\ UNCHANGED <<tables, cached, conversations, history>>

FindRequest(c) ==
  /\ calls[c].pc = "request"
  /\ IF \E i \in DOMAIN requests : <<requests[i].group, requests[i].user>> = Seat(c)
     THEN Answer(c) ELSE Continue(c, "verify")
  /\ UNCHANGED <<tables, cached, conversations, history>>

(* Whether he is let in at once: no verification, or the creator invites    *)
(* him.  Who invites must be a member himself.                              *)
Admit(c, result) == calls' = [calls EXCEPT ![c].pc = "ask", ![c].result = result]
Verify(c) ==
  LET g == calls[c].group
      by == calls[c].by
  IN /\ calls[c].pc = "verify"
     /\ IF g \notin Verified THEN Admit(c, "pass")
        ELSE IF by = "none" THEN Admit(c, "no")
        ELSE IF IsMember(g, by) THEN Admit(c, IF owner[g] = by THEN "pass" ELSE "no")
        ELSE Answer(c)
     /\ UNCHANGED <<tables, cached, conversations, history>>

(* createGroupReq: the insert may fail, and the deferred createGroupMember  *)
(* runs even so: err is not the one it looks at.                            *)
(* Mutant: it runs for a request that is to wait, too.                      *)
AskAndJoin(c, ok) ==
  /\ calls[c].pc = "ask"
  /\ Len(requests) < MaxRequests
  /\ requests' = IF ok THEN Append(requests, [group |-> calls[c].group, user |-> calls[c].user,
                                              result |-> calls[c].result])
                 ELSE requests
  /\ Continue(c, "join")
  /\ UNCHANGED <<groups, owner, members, cached, conversations, history>>
InsertRequest(c, ok) ==
  /\ calls[c].pc = "ask"
  /\ Len(requests) < MaxRequests
  /\ requests' = IF ok THEN Append(requests, [group |-> calls[c].group, user |-> calls[c].user,
                                              result |-> calls[c].result])
                 ELSE requests
  /\ IF calls[c].result = "pass" THEN Continue(c, "join") ELSE Answer(c)
  /\ UNCHANGED <<groups, owner, members, cached, conversations, history>>

(* createGroupMember, and the insert at the end of GroupPutInHandle.        *)
InsertMember(c) ==
  /\ calls[c].pc = "join"
  /\ members' = [members EXCEPT ![Seat(c)] = @ + 1]
  /\ Answer(c)
  /\ UNCHANGED <<groups, owner, requests, cached, conversations, history>>

-----------------------------------------------------------------------------
(* GroupPutInHandle *)

GroupPutInHandle(c, id, result) ==
  /\ calls[c].pc = "idle"
  /\ id \in DOMAIN requests
  /\ calls' = [calls EXCEPT ![c] = [NoCall EXCEPT !.pc = "find", !.id = id, !.result = result,
                                     !.group = requests[id].group, !.user = requests[id].user]]
  /\ disturbed' = Disturb(<<requests[id].group, requests[id].user>>)
  /\ UNCHANGED <<tables, cached, conversations, broken>>

(* FindOne, from the cache or else from the table, filling the cache.       *)
FindOne(c) ==
  LET id == calls[c].id
      read == IF cached[id] # "none" THEN cached[id] ELSE requests[id].result
  IN /\ calls[c].pc = "find"
     /\ cached' = [cached EXCEPT ![id] = read]
     /\ IF read \in Decided THEN Answer(c) ELSE Continue(c, "update")
     /\ UNCHANGED <<tables, conversations, history>>

Update(c) ==
  /\ calls[c].pc = "update"
  /\ requests' = [requests EXCEPT ![calls[c].id].result = calls[c].result]
  /\ Continue(c, "evict")
  /\ UNCHANGED <<groups, owner, members, cached, conversations, history>>

(* The cached copy is deleted, or that fails and is retried later.          *)
Evict(c, ok) ==
  /\ calls[c].pc = "evict"
  /\ cached' = IF ok THEN [cached EXCEPT ![calls[c].id] = "none"] ELSE cached
  /\ disturbed' = IF ok THEN disturbed ELSE disturbed \cup {Seat(c)}
  /\ IF calls[c].result = "pass" THEN Continue(c, "join") ELSE Answer(c)
  /\ UNCHANGED <<tables, conversations, broken>>

-----------------------------------------------------------------------------
(* A command fails or the process dies; what was written before stays.      *)
Fail(c) ==
  /\ Active(c)
  /\ disturbed' = IF calls[c].pc = "evict" THEN disturbed \cup {Seat(c)} ELSE disturbed
  /\ broken' = IF calls[c].pc = "join" \/ (calls[c].pc = "evict" /\ calls[c].result = "pass")
               THEN broken \cup {Seat(c)} ELSE broken
  /\ Answer(c)
  /\ UNCHANGED <<tables, cached, conversations>>

Creating(c) ==
  \/ \E g \in Rooms, u \in Users : GroupCreate(c, g, u)
  \/ InsertGroup(c) \/ InsertOwner(c) \/ CreateGroupConversation(c)

Joining(c) ==
  \/ \E g \in Rooms, u \in Users, by \in Users \cup {"none"} : GroupPutIn(c, g, u, by)
  \/ FindMember(c) \/ FindRequest(c) \/ Verify(c) \/ InsertMember(c)
  \/ \E ok \in BOOLEAN : InsertRequest(c, ok)

Deciding(c) ==
  \/ \E id \in Ids, result \in Results : GroupPutInHandle(c, id, result)
  \/ FindOne(c) \/ Update(c)
  \/ \E ok \in BOOLEAN : Evict(c, ok)

Next == \E c \in Calls : Creating(c) \/ Joining(c) \/ Deciding(c) \/ Fail(c)

Spec == Init /\ [][Next]_vars

-----------------------------------------------------------------------------
(* Properties *)

(* JoinedOnce: joining checks that he is no member and has not asked,       *)
(* handling checks that nobody handled the request, both well before the    *)
(* insert, and the table has no unique key: still nobody is a member twice  *)
(* unless calls about the same user and group overlapped or the cached      *)
(* request was stale.                                                       *)
JoinedOnce ==
  \A p \in DOMAIN members \ disturbed :
    members[p] + (IF owner[p[1]] = p[2] THEN 1 ELSE 0) <= 1

(* RoomsAreComplete: a group has a conversation only if its creator is a    *)
(* member (CreateGroup asks for it after the rpc's two inserts), and an     *)
(* accepted request has made a member, unless the call that accepted it is  *)
(* still on its way or failed before the insert.                            *)
RoomsAreComplete ==
  /\ \A g \in conversations : g \in groups /\ owner[g] # "none"
  /\ \A i \in DOMAIN requests :
       LET p == <<requests[i].group, requests[i].user>>
       IN requests[i].result = "pass" =>
            \/ IsMember(p[1], p[2]) \/ p \in broken
            \/ \E c \in Calls : Active(c) /\ Seat(c) = p /\ calls[c].result = "pass"
=============================================================================
