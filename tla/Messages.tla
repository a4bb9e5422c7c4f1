------------------------------ MODULE Messages ------------------------------
(***************************************************************************)
(* The messages of the three rpc services as sets of records, one for each *)
(* generated type, and which method takes and returns which.  A record is  *)
(* what the getters of a message answer: a field its sender left out has   *)
(* its zero value, and ids of different kinds do not mix.                  *)
(***************************************************************************)
EXTENDS Naturals, Sequences

CONSTANTS
  Uids,       \* users
  Gids,       \* groups
  Phones,
  ChatIds,    \* conversations
  Texts       \* names, remarks, times and whatever else nothing depends on

Unset == ""
Uid == Uids \cup {Unset}
Gid == Gids \cup {Unset}
Phone == Phones \cup {Unset}
ChatId == ChatIds \cup {Unset}
Text == Texts \cup {Unset}

Results == 0..4      \* constants.HandlerResult: 1 none, 2 pass, 3 refuse, 4 cancel
ChatTypes == 0..2    \* constants.ChatType: 1 a group chat, 2 a single one
MapOf(K, V) == SUBSET (K \X V)    \* a map is the set of its entries

-----------------------------------------------------------------------------
(* social.proto *)
Friends == [Id: Nat, UserId: Uid, Remark: Text, FriendUid: Uid]
FriendRequests == [Id: Nat, UserId: Uid, ReqUid: Uid, ReqMsg: Text, HandleResult: Results]
Groups == [Id: Gid, Name: Text, Icon: Text, CreatorUid: Uid, IsVerify: BOOLEAN]
GroupMembers == [Id: Nat, GroupId: Gid, UserId: Uid, RoleLevel: 0..3, InviterUid: Uid]
GroupRequests == [Id: Nat, GroupId: Gid, ReqId: Uid, ReqMsg: Text, JoinSource: Nat,
                  InviterUId: Uid, HandleUid: Uid, HandleResult: Results]

FriendPutInReq == [UserId: Uid, ReqUid: Uid, ReqMsg: Text]
FriendPutInResp == {<<>>}
FriendPutInHandleReq == [FriendReqId: Nat, UserId: Uid, HandleResult: Results]
FriendPutInHandleResp == {<<>>}
FriendPutInListReq == [UserId: Uid]
FriendPutInListResp == [List: Seq(FriendRequests)]
FriendListReq == [UserId: Uid]
FriendListResp == [List: Seq(Friends)]
GroupCreateReq == [Name: Text, Icon: Text, CreatorUid: Uid]
GroupCreateResp == [Id: Gid]
GroupPutinReq == [GroupId: Gid, ReqId: Uid, ReqMsg: Text, JoinSource: Nat, InviterUid: Uid]
GroupPutinResp == [GroupId: Gid]
GroupPutinListReq == [GroupId: Gid]
GroupPutinListResp == [List: Seq(GroupRequests)]
GroupPutInHandleReq == [GroupReqId: Nat, GroupId: Gid, HandleUid: Uid, HandleResult: Results]
GroupPutInHandleResp == [GroupId: Gid]
GroupListReq == [UserId: Uid]
GroupListResp == [List: Seq(Groups)]
GroupUsersReq == [GroupId: Gid]
GroupUsersResp == [List: Seq(GroupMembers)]

-----------------------------------------------------------------------------
(* im.proto.  A conversation with a group has the group's id as its target. *)
ChatLog == [Id: Text, ConversationId: ChatId, SendId: Uid, RecvId: Uid \cup Gid,
            ChatType: ChatTypes, ReadRecords: Seq(0..255)]
Conversation == [ConversationId: ChatId, ChatType: ChatTypes, TargetId: Uid \cup Gid,
                 IsShow: BOOLEAN, Seq: Nat, Total: Nat, ToRead: Nat, Read: Nat]

GetConversationsReq == [UserId: Uid]
GetConversationsResp == [ConversationList: MapOf(ChatIds, Conversation)]
PutConversationsReq == [Id: Text, UserId: Uid, ConversationList: MapOf(ChatIds, Conversation)]
PutConversationsResp == {<<>>}
GetChatLogReq == [ConversationId: ChatId, Count: Nat, MsgId: Text]
GetChatLogResp == [List: Seq(ChatLog)]
SetUpUserConversationReq == [SendId: Uid, RecvId: Uid \cup Gid, ChatType: ChatTypes]
SetUpUserConversationResp == {<<>>}
CreateGroupConversationReq == [GroupId: Gid, CreateId: Uid]
CreateGroupConversationResp == {<<>>}

-----------------------------------------------------------------------------
(* user.proto *)
UserEntity == [Id: Uid, Avatar: Text, Nickname: Text, Phone: Phone, Status: Nat, Sex: Nat]

LoginReq == [Phone: Phone, Password: Text]
LoginResp == [Token: Text, Id: Uid]
RegisterReq == [Phone: Phone, Nickname: Text, Password: Text, Avatar: Text, Sex: Nat]
RegisterResp == [Token: Text]
GetUserInfoReq == [Id: Uid]
GetUserInfoResp == [User: UserEntity]
FindUserReq == [Name: Text, Phone: Phone, Ids: Seq(Uid)]
FindUserResp == [User: Seq(UserEntity)]

-----------------------------------------------------------------------------
(* The methods of the services and the types of their messages.             *)
Rpc(in, out) == [in |-> in, out |-> out]

Social == [
  FriendPutIn       |-> Rpc(FriendPutInReq, FriendPutInResp),
  FriendPutInHandle |-> Rpc(FriendPutInHandleReq, FriendPutInHandleResp),
  FriendPutInList   |-> Rpc(FriendPutInListReq, FriendPutInListResp),
  FriendList        |-> Rpc(FriendListReq, FriendListResp),
  GroupCreate       |-> Rpc(GroupCreateReq, GroupCreateResp),
  GroupPutin        |-> Rpc(GroupPutinReq, GroupPutinResp),
  GroupPutinList    |-> Rpc(GroupPutinListReq, GroupPutinListResp),
  GroupPutInHandle  |-> Rpc(GroupPutInHandleReq, GroupPutInHandleResp),
  GroupList         |-> Rpc(GroupListReq, GroupListResp),
  GroupUsers        |-> Rpc(GroupUsersReq, GroupUsersResp)]

Im == [
  GetChatLog              |-> Rpc(GetChatLogReq, GetChatLogResp),
  SetUpUserConversation   |-> Rpc(SetUpUserConversationReq, SetUpUserConversationResp),
  GetConversations        |-> Rpc(GetConversationsReq, GetConversationsResp),
  PutConversations        |-> Rpc(PutConversationsReq, PutConversationsResp),
  CreateGroupConversation |-> Rpc(CreateGroupConversationReq, CreateGroupConversationResp)]

User == [
  Login       |-> Rpc(LoginReq, LoginResp),
  Register    |-> Rpc(RegisterReq, RegisterResp),
  GetUserInfo |-> Rpc(GetUserInfoReq, GetUserInfoResp),
  FindUser    |-> Rpc(FindUserReq, FindUserResp)]
=============================================================================
