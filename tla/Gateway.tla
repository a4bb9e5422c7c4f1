------------------------------- MODULE Gateway -------------------------------
(***************************************************************************)
(* The HTTP services: a request goes through the request id middleware,    *)
(* is parsed, its logic asks the rpc services and Redis one after the      *)
(* other, and OkHandler or ErrHandler writes the answer.                   *)
(*                                                                         *)
(* The social, the IM and the user api are processes of their own; a       *)
(* behaviour is one of them.  What its requests share is storex, the map   *)
(* from request id to the message that the answer is to carry.  The entry  *)
(* is found by the X-Request-ID of the client, if it sends one.            *)
(*                                                                         *)
(* The logic of an endpoint is an action here.  An rpc answers with any    *)
(* reply its server makes for the message, or fails, by itself or on the   *)
(* way, retries included (the subject of Idempotence).                     *)
(***************************************************************************)
EXTENDS Messages

CONSTANTS
  Requests,     \* the requests that arrive, each a goroutine
  Callers,      \* the users, of Uids, whose tokens come with them
  Headers,      \* the X-Request-ID a client may send, as numbers: N is req_N
  MaxIds        \* bound: the request ids that are generated

VARIABLES
  service,       \* which api it is
  http,          \* the requests
  reqIDCounter,  \* storex: the last id generated
  store,         \* storex: the ids whose entry holds a message
  shared         \* history: the requests that met another live one with their id

vars == <<service, http, reqIDCounter, store, shared>>

-----------------------------------------------------------------------------
(* The endpoints and what the body or the query of a request holds.         *)
Pass == 2
SocialBody == [
  FriendPutIn       |-> [UserId: Uids],
  FriendPutInHandle |-> [FriendReqId: {1}, HandleResult: {Pass}],
  FriendPutInList   |-> {<<>>},
  FriendList        |-> {<<>>},
  FriendsOnline     |-> {<<>>},
  CreateGroup       |-> [Name: Texts, Icon: Texts],
  GroupPutIn        |-> [GroupId: Gids, JoinSource: {1}],
  GroupPutInHandle  |-> [GroupReqId: {1}, GroupId: Gids, HandleResult: {Pass, 3}],
  GroupPutInList    |-> [GroupId: Gids],
  GroupUserList     |-> [GroupId: Gids],
  GroupUserOnline   |-> [GroupId: Gids],
  GroupList         |-> {<<>>}]

(* A conversation as the client writes it back.                             *)
SeenConversation == [ConversationId: ChatIds, ChatType: {1}, TargetId: {Unset}, IsShow: {TRUE},
                     Seq: {0}, Total: {1}, Read: {1}]
ImBody == [
  GetChatLog            |-> [ConversationId: ChatIds, Count: {20}],
  GetChatLogReadRecords |-> [MsgId: Text],
  GetConversations      |-> {<<>>},
  PutConversations      |-> [ConversationList: MapOf(ChatIds, SeenConversation)],
  SetUpUserConversation |-> [SendId: Uids, RecvId: Uids, ChatType: {2}]]

UserBody == [
  Login    |-> [Phone: Phones, Password: Texts],
  Register |-> [Phone: Phones, Password: Texts, Nickname: Texts, Sex: {1}, Avatar: Texts],
  Detail   |-> {<<>>}]

SocialRoutes == DOMAIN SocialBody
ImRoutes == DOMAIN ImBody
UserRoutes == DOMAIN UserBody
Routes == [social |-> SocialRoutes, im |-> ImRoutes, user |-> UserRoutes]
Bodies == [social |-> SocialBody, im |-> ImBody, user |-> UserBody]

-----------------------------------------------------------------------------
(* What can come back instead of a reply: what an rpc service answers for   *)
(* an error that is no CodeMsg, or that it did not answer in time.          *)
Failures == {"Unknown", "DeadlineExceeded"}
ParseErrors == {"invalid", "unmarshal", "missing"}

NoHeader == 0
NoRequest == [pc |-> "idle", ep |-> "none", uid |-> Unset, body |-> <<>>, id |-> NoHeader,
              got |-> <<>>, err |-> "none", status |-> 0, msg |-> "none"]

Init ==
  /\ service \in DOMAIN Routes
  /\ http = [r \in Requests |-> NoRequest]
  /\ reqIDCounter = 0
  /\ store = {} /\ shared = {}

Ep(r) == http[r].ep
uid(r) == http[r].uid       \* ctxdata.GetUid
body(r) == http[r].body
Key(r) == http[r].id
Live(r) == http[r].pc \notin {"idle", "done"}

GoTo(r, pc) == http' = [http EXCEPT ![r].pc = pc]

(* RequestIDMiddleware: the client's id, or the next number.  The user is   *)
(* the token's; login and registration have none.                           *)
Arrive(r, ep, u, b, header) ==
  LET id == IF header = NoHeader THEN reqIDCounter + 1 ELSE header
      twins == {q \in Requests : Live(q) /\ Key(q) = id}
  IN /\ http[r].pc = "idle"
     /\ header = NoHeader => reqIDCounter < MaxIds
     /\ http' = [http EXCEPT ![r] = [NoRequest EXCEPT !.pc = "parse", !.ep = ep, !.uid = u,
                                                      !.body = b, !.id = id]]
     /\ reqIDCounter' = IF header = NoHeader THEN id ELSE reqIDCounter
     /\ shared' = IF twins = {} THEN shared ELSE shared \cup twins \cup {r}
     /\ UNCHANGED <<service, store>>

(* return nil, err: of the request its error is left.                       *)
ReturnErr(r, e) == http' = [http EXCEPT ![r].pc = "error", ![r].err = e,
                                        ![r].got = <<>>, ![r].body = <<>>]

(* The handler: parse, then the logic.                                      *)
Parse(r) ==
  /\ http[r].pc = "parse"
  /\ \/ GoTo(r, "logic")
     \/ \E e \in ParseErrors : ReturnErr(r, e)
  /\ UNCHANGED <<service, reqIDCounter, store, shared>>

-----------------------------------------------------------------------------
(* What a service replies to a message, as its logic computes it.           *)
Lists(S) == {[List |-> <<>>]} \cup {[List |-> <<x>>] : x \in S}

FriendListOf(m) ==
  Lists({[Id |-> 1, UserId |-> m.UserId, Remark |-> Unset, FriendUid |-> v] : v \in Uids \ {m.UserId}})
FriendPutInListOf(m) ==
  Lists({[Id |-> 1, UserId |-> m.UserId, ReqUid |-> v, ReqMsg |-> Unset, HandleResult |-> 0] :
         v \in Uids \ {m.UserId}})
GroupListOf(m) ==
  Lists({[Id |-> g, Name |-> Unset, Icon |-> Unset, CreatorUid |-> m.UserId, IsVerify |-> FALSE] :
         g \in Gids})
GroupPutinListOf(m) ==
  Lists({[Id |-> 1, GroupId |-> m.GroupId, ReqId |-> v, ReqMsg |-> Unset, JoinSource |-> 0,
          InviterUId |-> Unset, HandleUid |-> Unset, HandleResult |-> 0] : v \in Uids})
GroupUsersOf(m) ==
  Lists({[Id |-> 1, GroupId |-> m.GroupId, UserId |-> v, RoleLevel |-> 1, InviterUid |-> Unset] : v \in Uids})

(* By the id of a message: its row, without the read records.  The sender's *)
(* client chose the chat type, and may have named neither; only such a      *)
(* message can be in no conversation.                                       *)
Receivers == (Uids \X {2}) \cup (Gids \X {1}) \cup (Gids \X {0})
GetChatLogOf(m) ==
  IF m.MsgId # Unset
  THEN {[List |-> <<[Id |-> m.MsgId, ConversationId |-> k, SendId |-> u, RecvId |-> to[1],
                     ChatType |-> to[2], ReadRecords |-> <<>>]>>] :
        k \in ChatIds, u \in Uids, to \in Receivers}
  ELSE Lists({[Id |-> Unset, ConversationId |-> m.ConversationId, SendId |-> u, RecvId |-> u,
               ChatType |-> IF m.ConversationId = Unset THEN 0 ELSE 2, ReadRecords |-> <<>>] : u \in Uids})
GetConversationsOf(m) ==
  {[ConversationList |-> {<<k, [ConversationId |-> k, ChatType |-> 1, TargetId |-> Unset, IsShow |-> TRUE,
                                Seq |-> 0, Total |-> 1, ToRead |-> 1, Read |-> 0]>> : k \in K}] :
   K \in SUBSET ChatIds}

Entity(u) == [Id |-> u, Avatar |-> Unset, Nickname |-> Unset, Phone |-> Unset, Status |-> 0, Sex |-> 0]
GetUserInfoOf(m) == {[User |-> Entity(m.Id)]}
FindUserOf(m) == {[User |-> [i \in DOMAIN m.Ids |-> Entity(m.Ids[i])]]}

Empty == {<<>>}
Replies(method, m) ==
  CASE method = "FriendList" -> FriendListOf(m)
    [] method = "FriendPutInList" -> FriendPutInListOf(m)
    [] method = "GroupList" -> GroupListOf(m)
    [] method = "GroupPutinList" -> GroupPutinListOf(m)
    [] method = "GroupUsers" -> GroupUsersOf(m)
    [] method = "GroupCreate" -> [Id: Gids]
    [] method = "GroupPutin" -> [GroupId: {Unset, m.GroupId}]
    [] method = "GroupPutInHandle" -> [GroupId: {Unset}]
    [] method = "GetChatLog" -> GetChatLogOf(m)
    [] method = "GetConversations" -> GetConversationsOf(m)
    [] method = "GetUserInfo" -> GetUserInfoOf(m)
    [] method = "FindUser" -> FindUserOf(m)
    [] method = "Login" -> [Token: Texts, Id: Uids]
    [] method = "Register" -> [Token: Texts]
    [] OTHER -> Empty

(* The nth thing a logic asks for: an rpc, or a command of Redis.  The      *)
(* answer is kept, with the question.                                       *)
Got(r) == http[r].got
Step(r, n) == http[r].pc = "logic" /\ Len(Got(r)) = n
Heard(r, method, m, ok, outs) ==
  \E out \in outs : http' = [http EXCEPT ![r].got =
                      Append(@, [method |-> method, in |-> m, ok |-> ok, out |-> out])]
Ask(r, n, method, m) ==
  /\ Step(r, n)
  /\ Heard(r, method, m, TRUE, Replies(method, m)) \/ Heard(r, method, m, FALSE, Failures)
AskRedis(r, n, command) ==
  /\ Step(r, n)
  /\ Heard(r, command, <<>>, TRUE, {<<>>}) \/ Heard(r, command, <<>>, FALSE, {"redis"})

Out(r, n) == Got(r)[n].out
Failed(r, n) == ~Got(r)[n].ok

(* return resp, nil; a nil dereference, which the HTTP server turns into a  *)
(* 500.                                                                     *)
ReturnOk(r) == GoTo(r, "ok")
Panic(r) == http' = [http EXCEPT ![r].pc = "cleanup", ![r].status = 500,
                                     ![r].got = <<>>, ![r].body = <<>>]
Return(r, n) == Step(r, n) /\ IF Failed(r, n) THEN ReturnErr(r, Out(r, n)) ELSE ReturnOk(r)

-----------------------------------------------------------------------------
(* Friends *)

FriendPutIn(r) ==
  \/ Ask(r, 0, "FriendPutIn", [UserId |-> uid(r), ReqUid |-> body(r).UserId, ReqMsg |-> Unset])
  \/ Return(r, 1)

FriendPutInHandle(r) ==
  \/ Ask(r, 0, "FriendPutInHandle", [FriendReqId |-> body(r).FriendReqId, UserId |-> uid(r),
                                     HandleResult |-> body(r).HandleResult])
  \/ Return(r, 1)

FriendPutInList(r) == Ask(r, 0, "FriendPutInList", [UserId |-> uid(r)]) \/ Return(r, 1)

Ids(list) == [i \in DOMAIN list |-> list[i].UserId]

(* No users found: the answer is an empty list, not an error.               *)
FriendList(r) ==
  \/ Ask(r, 0, "FriendList", [UserId |-> uid(r)])
  \/ /\ Step(r, 1)
     /\ \/ Failed(r, 1) /\ ReturnErr(r, Out(r, 1))
        \/ ~Failed(r, 1) /\ Out(r, 1).List = <<>> /\ ReturnOk(r)
        \/ /\ ~Failed(r, 1) /\ Out(r, 1).List # <<>>
           /\ LET list == Out(r, 1).List
              IN Ask(r, 1, "FindUser", [Name |-> Unset, Phone |-> Unset,
                                        Ids |-> [i \in DOMAIN list |-> list[i].FriendUid]])
  \/ Step(r, 2) /\ ReturnOk(r)

FriendsOnline(r) ==
  \/ Ask(r, 0, "FriendList", [UserId |-> uid(r)])
  \/ /\ Step(r, 1)
     /\ \/ Failed(r, 1) /\ ReturnErr(r, Out(r, 1))
        \/ ~Failed(r, 1) /\ Out(r, 1).List = <<>> /\ ReturnOk(r)
        \/ ~Failed(r, 1) /\ Out(r, 1).List # <<>> /\ AskRedis(r, 1, "Hgetall")
  \/ Return(r, 2)

-----------------------------------------------------------------------------
(* Groups *)

(* The group, then its conversation.                                        *)
(* Mutant: the error of the conversation is lost.                           *)
CreateGroupQuietly(r) ==
  \/ Ask(r, 0, "GroupCreate", [Name |-> body(r).Name, Icon |-> body(r).Icon, CreatorUid |-> uid(r)])
  \/ /\ Step(r, 1)
     /\ \/ Failed(r, 1) /\ ReturnErr(r, Out(r, 1))
        \/ /\ ~Failed(r, 1)
           /\ Ask(r, 1, "CreateGroupConversation", [GroupId |-> Out(r, 1).Id, CreateId |-> uid(r)])
  \/ Step(r, 2) /\ ReturnOk(r)
CreateGroup(r) ==
  \/ Ask(r, 0, "GroupCreate", [Name |-> body(r).Name, Icon |-> body(r).Icon, CreatorUid |-> uid(r)])
  \/ /\ Step(r, 1)
     /\ \/ Failed(r, 1) /\ ReturnErr(r, Out(r, 1))
        \/ ~Failed(r, 1) /\ Out(r, 1).Id = Unset /\ ReturnOk(r)
        \/ /\ ~Failed(r, 1) /\ Out(r, 1).Id # Unset
           /\ Ask(r, 1, "CreateGroupConversation", [GroupId |-> Out(r, 1).Id, CreateId |-> uid(r)])
  \/ Return(r, 2)

(* The request; if he is in at once, the conversation in his list.          *)
(* Mutant: the two ids are swapped.                                         *)
GroupPutInSwapped(r) ==
  \/ Ask(r, 0, "GroupPutin", [GroupId |-> uid(r), ReqId |-> body(r).GroupId, ReqMsg |-> Unset,
                              JoinSource |-> body(r).JoinSource, InviterUid |-> Unset])
  \/ Return(r, 1)
GroupPutIn(r) ==
  \/ Ask(r, 0, "GroupPutin", [GroupId |-> body(r).GroupId, ReqId |-> uid(r), ReqMsg |-> Unset,
                              JoinSource |-> body(r).JoinSource, InviterUid |-> Unset])
  \/ /\ Step(r, 1)
     /\ \/ Failed(r, 1) /\ ReturnErr(r, Out(r, 1))
        \/ ~Failed(r, 1) /\ Out(r, 1).GroupId = Unset /\ ReturnOk(r)
        \/ /\ ~Failed(r, 1) /\ Out(r, 1).GroupId # Unset
           /\ Ask(r, 1, "SetUpUserConversation",
                  [SendId |-> uid(r), RecvId |-> body(r).GroupId, ChatType |-> 1])
  \/ Return(r, 2)

(* Accepting a request: the conversation is asked for whether or not the    *)
(* rpc worked, and its error takes the place of the first.                  *)
GroupPutInHandle(r) ==
  \/ Ask(r, 0, "GroupPutInHandle",
         [GroupReqId |-> body(r).GroupReqId, GroupId |-> body(r).GroupId, HandleUid |-> uid(r),
          HandleResult |-> body(r).HandleResult])
  \/ body(r).HandleResult # Pass /\ Return(r, 1)
  \/ /\ body(r).HandleResult = Pass
     /\ Ask(r, 1, "SetUpUserConversation",
            [SendId |-> uid(r), RecvId |-> body(r).GroupId, ChatType |-> 1])
  \/ Return(r, 2)

(* The list of a failed rpc is nil.                                         *)
GroupPutInList(r) ==
  \/ Ask(r, 0, "GroupPutinList", [GroupId |-> body(r).GroupId])
  \/ Step(r, 1) /\ IF Failed(r, 1) THEN Panic(r) ELSE ReturnOk(r)

GroupUserList(r) ==
  \/ Ask(r, 0, "GroupUsers", [GroupId |-> body(r).GroupId])
  \/ /\ Step(r, 1)
     /\ IF Failed(r, 1) THEN ReturnErr(r, Out(r, 1))
        ELSE Ask(r, 1, "FindUser", [Name |-> Unset, Phone |-> Unset, Ids |-> Ids(Out(r, 1).List)])
  \/ Return(r, 2)

GroupUserOnline(r) ==
  \/ Ask(r, 0, "GroupUsers", [GroupId |-> body(r).GroupId])
  \/ Step(r, 1) /\ IF Failed(r, 1) THEN Panic(r) ELSE AskRedis(r, 1, "Hgetall")
  \/ Return(r, 2)

GroupList(r) == Ask(r, 0, "GroupList", [UserId |-> uid(r)]) \/ Return(r, 1)

-----------------------------------------------------------------------------
(* Chat logs and conversations *)

GetChatLog(r) ==
  \/ Ask(r, 0, "GetChatLog", [ConversationId |-> body(r).ConversationId, Count |-> body(r).Count,
                              MsgId |-> Unset])
  \/ Return(r, 1)

(* Who has read a message: the message, the members of its group if it has  *)
(* one, and then the users of all of these; nobody is asked for if its chat *)
(* type is neither.  Without a message the answer is empty.                 *)
GetChatLogReadRecords(r) ==
  LET log == Out(r, 1).List[1]
      AskUsers(n, ids) == Ask(r, n, "FindUser", [Name |-> Unset, Phone |-> Unset, Ids |-> ids])
  IN \/ Ask(r, 0, "GetChatLog", [ConversationId |-> Unset, Count |-> 0, MsgId |-> body(r).MsgId])
     \/ Step(r, 1) /\ Failed(r, 1) /\ ReturnErr(r, Out(r, 1))
     \/ Step(r, 1) /\ ~Failed(r, 1) /\ Out(r, 1).List = <<>> /\ ReturnOk(r)
     \/ /\ Step(r, 1) /\ ~Failed(r, 1) /\ Out(r, 1).List # <<>>
        /\ \/ log.ChatType = 1 /\ Ask(r, 1, "GroupUsers", [GroupId |-> log.RecvId])
           \/ log.ChatType = 2 /\ AskUsers(1, <<log.RecvId, log.SendId>>)
           \/ log.ChatType \notin {1, 2} /\ AskUsers(1, <<>>)
     \/ /\ Step(r, 2)
        /\ IF Got(r)[2].method = "FindUser" THEN Return(r, 2)
           ELSE IF Failed(r, 2) THEN ReturnErr(r, Out(r, 2)) ELSE AskUsers(2, Ids(Out(r, 2).List))
     \/ Return(r, 3)

GetConversations(r) == Ask(r, 0, "GetConversations", [UserId |-> uid(r)]) \/ Return(r, 1)

(* The error of the rpc is overwritten by that of copying its reply, which  *)
(* is nil then, and nil is not copied.                                      *)
PutConversations(r) ==
  LET Copied(c) == [ConversationId |-> c.ConversationId, ChatType |-> c.ChatType,
                    TargetId |-> c.TargetId, IsShow |-> c.IsShow, Seq |-> c.Seq,
                    Total |-> c.Total, ToRead |-> 0, Read |-> c.Read]
  IN \/ Ask(r, 0, "PutConversations",
            [Id |-> Unset, UserId |-> uid(r),
             ConversationList |-> {<<e[1], Copied(e[2])>> : e \in body(r).ConversationList}])
     \/ Step(r, 1) /\ IF Failed(r, 1) THEN ReturnErr(r, "copy") ELSE ReturnOk(r)

SetUpUserConversation(r) ==
  \/ Ask(r, 0, "SetUpUserConversation",
         [SendId |-> body(r).SendId, RecvId |-> body(r).RecvId, ChatType |-> body(r).ChatType])
  \/ Return(r, 1)

-----------------------------------------------------------------------------
(* Users *)

Register(r) ==
  \/ Ask(r, 0, "Register", [Phone |-> body(r).Phone, Nickname |-> body(r).Nickname,
                            Password |-> body(r).Password, Avatar |-> body(r).Avatar, Sex |-> body(r).Sex])
  \/ Return(r, 1)

(* Whether he could be marked as online is not looked at.                   *)
Login(r) ==
  \/ Ask(r, 0, "Login", [Phone |-> body(r).Phone, Password |-> body(r).Password])
  \/ Step(r, 1) /\ IF Failed(r, 1) THEN ReturnErr(r, Out(r, 1)) ELSE AskRedis(r, 1, "Hset")
  \/ Step(r, 2) /\ ReturnOk(r)

(* The one endpoint with a message of its own.                              *)
Detail(r) ==
  \/ Ask(r, 0, "GetUserInfo", [Id |-> uid(r)])
  \/ Step(r, 1) /\ IF Failed(r, 1) THEN ReturnErr(r, Out(r, 1)) ELSE GoTo(r, "set")

-----------------------------------------------------------------------------
(* storex.Set: a map of the request is looked up, and a new one stored if   *)
(* there is none.  One that is found holds the same message already.        *)
SetLoad(r) ==
  /\ http[r].pc = "set"
  /\ GoTo(r, IF Key(r) \in store THEN "ok" ELSE "setnew")
  /\ UNCHANGED <<service, reqIDCounter, store, shared>>
SetStore(r) ==
  /\ http[r].pc = "setnew"
  /\ store' = store \cup {Key(r)}
  /\ GoTo(r, "ok")
  /\ UNCHANGED <<service, reqIDCounter, shared>>

(* OkHandler of respx reads the message of the request; that of resultx,    *)
(* which the social api registers, sets none.                               *)
(* Mutant: the message is the process's, not the request's.                 *)
AnyMessage(r) == IF store # {} THEN "detail" ELSE "success"
GetSuccessMsg(r) == IF Key(r) \in store THEN "detail" ELSE "success"
OkHandler(r) ==
  /\ http[r].pc = "ok"
  /\ http' = [http EXCEPT ![r].pc = "cleanup", ![r].status = 200,
                          ![r].msg = IF service = "social" THEN "none" ELSE GetSuccessMsg(r)]
  /\ UNCHANGED <<service, reqIDCounter, store, shared>>

(* The status of an error: by its gRPC code, else by words in its text.     *)
respxStatus == [DeadlineExceeded |-> 504, invalid |-> 401, unmarshal |-> 400,
                missing |-> 500, copy |-> 500, Unknown |-> 500, redis |-> 500]
resultxStatus == 400
ErrHandler(r) ==
  /\ http[r].pc = "error"
  /\ http' = [http EXCEPT ![r].pc = "cleanup", ![r].err = "none",
                          ![r].status = IF service = "social" THEN resultxStatus
                                        ELSE respxStatus[http[r].err]]
  /\ UNCHANGED <<service, reqIDCounter, store, shared>>

(* The two deferred deletes of the request's entry.                         *)
Cleanup(r) ==
  /\ http[r].pc = "cleanup"
  /\ store' = store \ {Key(r)}
  /\ GoTo(r, "cleanupbyid")
  /\ UNCHANGED <<service, reqIDCounter, shared>>
CleanupByReqID(r) ==
  /\ http[r].pc = "cleanupbyid"
  /\ store' = store \ {Key(r)}
  /\ http' = [http EXCEPT ![r] = [NoRequest EXCEPT !.pc = "done"]]
  /\ UNCHANGED <<service, reqIDCounter, shared>>

-----------------------------------------------------------------------------
Logic(r) ==
  /\ http[r].pc = "logic"
  /\ \/ Ep(r) = "FriendPutIn" /\ FriendPutIn(r)
     \/ Ep(r) = "FriendPutInHandle" /\ FriendPutInHandle(r)
     \/ Ep(r) = "FriendPutInList" /\ FriendPutInList(r)
     \/ Ep(r) = "FriendList" /\ FriendList(r)
     \/ Ep(r) = "FriendsOnline" /\ FriendsOnline(r)
     \/ Ep(r) = "CreateGroup" /\ CreateGroup(r)
     \/ Ep(r) = "GroupPutIn" /\ GroupPutIn(r)
     \/ Ep(r) = "GroupPutInHandle" /\ GroupPutInHandle(r)
     \/ Ep(r) = "GroupPutInList" /\ GroupPutInList(r)
     \/ Ep(r) = "GroupUserList" /\ GroupUserList(r)
     \/ Ep(r) = "GroupUserOnline" /\ GroupUserOnline(r)
     \/ Ep(r) = "GroupList" /\ GroupList(r)
     \/ Ep(r) = "GetChatLog" /\ GetChatLog(r)
     \/ Ep(r) = "GetChatLogReadRecords" /\ GetChatLogReadRecords(r)
     \/ Ep(r) = "GetConversations" /\ GetConversations(r)
     \/ Ep(r) = "PutConversations" /\ PutConversations(r)
     \/ Ep(r) = "SetUpUserConversation" /\ SetUpUserConversation(r)
     \/ Ep(r) = "Register" /\ Register(r)
     \/ Ep(r) = "Login" /\ Login(r)
     \/ Ep(r) = "Detail" /\ Detail(r)
  /\ UNCHANGED <<service, reqIDCounter, store, shared>>

Tokens(ep) == IF ep \in {"Login", "Register"} THEN {Unset} ELSE Callers

Next ==
  \E r \in Requests :
    \/ \E ep \in Routes[service], header \in Headers \cup {NoHeader} :
         \E u \in Tokens(ep), b \in Bodies[service][ep] : Arrive(r, ep, u, b, header)
    \/ Parse(r) \/ Logic(r) \/ SetLoad(r) \/ SetStore(r)
    \/ OkHandler(r) \/ ErrHandler(r) \/ Cleanup(r) \/ CleanupByReqID(r)

Spec == Init /\ [][Next]_vars

-----------------------------------------------------------------------------
(* Properties *)

(* RpcsAreTyped: whatever a logic builds from a body, a token and earlier   *)
(* replies is a message of the method it calls, ids of users, groups and    *)
(* conversations not mixed up, and so is every reply.                       *)
Method(m) == IF m \in DOMAIN Social THEN Social[m] ELSE IF m \in DOMAIN Im THEN Im[m] ELSE User[m]
RpcsAreTyped ==
  \A r \in Requests : \A i \in DOMAIN Got(r) :
    LET rpc == Got(r)[i]
    IN rpc.method \notin {"Hgetall", "Hset"} =>
         rpc.in \in Method(rpc.method).in /\ (Failed(r, i) \/ rpc.out \in Method(rpc.method).out)

(* SuccessIsTrue: an answer says 200 only if everything its logic asked for *)
(* succeeded, through all the err variables that are assigned twice.  The   *)
(* exceptions are FriendList (friendlistlogic.go:59), whether Login marked  *)
(* the user online (loginlogic.go:45), and GroupPutInHandle, whose first    *)
(* error is overwritten (groupputinhandlelogic.go:49).                      *)
Excused == {<<"FriendList", "FindUser">>, <<"Login", "Hset">>, <<"GroupPutInHandle", "GroupPutInHandle">>}
SuccessIsTrue ==
  \A r \in Requests : http[r].status = 200 =>
    \A i \in DOMAIN Got(r) : ~Failed(r, i) \/ <<Ep(r), Got(r)[i].method>> \in Excused

(* OwnMessage: an answer carries the message of its own request, and no     *)
(* entry of storex outlives the requests it belongs to, unless clients used *)
(* one X-Request-ID for two requests at a time, or one that the server      *)
(* generated, too.                                                          *)
OwnMessage ==
  /\ \A r \in Requests \ shared :
       http[r].status = 200 /\ service # "social" =>
         http[r].msg = IF Ep(r) = "Detail" THEN "detail" ELSE "success"
  /\ \A k \in store : \E r \in Requests : Live(r) /\ Key(r) = k
=============================================================================
