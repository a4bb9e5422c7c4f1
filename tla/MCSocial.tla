------------------------------ MODULE MCSocial ------------------------------
(* Friends, Groups, Users and Gateway for TLC.  They share no state, so a   *)
(* behaviour moves one of them, which part names; what holds of each alone  *)
(* holds of all of them side by side.                                       *)
EXTENDS Friends, TLC

CONSTANTS FewCalls, Members, Rooms, Verified, Founder, Phones,
          Uids, Gids, ChatIds, Texts, Requests, Callers, Headers, MaxIds, MaxRows

(* "none" stands for nobody; a group has a user as its founder.             *)
ASSUME NobodyAssumption == "none" \notin Members /\ Founder \in Members
ASSUME VerifiedAssumption == Verified \subseteq Rooms

(* A token names a user.                                                    *)
ASSUME TokenAssumption == Callers \subseteq Uids

VARIABLES
  part,
  groups, owner, members, groupRequests, groupCached, conversations, groupCalls,
  groupDisturbed, groupBroken,
  users, userCached, online, userCalls, userDisturbed,
  service, http, reqIDCounter, store, shared

G == INSTANCE Groups WITH requests <- groupRequests, cached <- groupCached,
       calls <- groupCalls, disturbed <- groupDisturbed, broken <- groupBroken,
       Users <- Members, Calls <- FewCalls
U == INSTANCE Users WITH cached <- userCached, calls <- userCalls, disturbed <- userDisturbed,
       Calls <- FewCalls
W == INSTANCE Gateway

groupVars == <<groups, owner, members, groupRequests, groupCached, conversations, groupCalls,
               groupDisturbed, groupBroken>>
userVars == <<users, userCached, online, userCalls, userDisturbed>>
gatewayVars == <<service, http, reqIDCounter, store, shared>>

Parts == {"friends", "groups", "users", "gateway"}

SocialInit ==
  /\ part \in Parts /\ Init /\ G!Init /\ U!Init /\ W!Init
  /\ part # "gateway" => service = "social"

SocialNext ==
  /\ UNCHANGED part
  /\ \/ part = "friends" /\ Next /\ UNCHANGED <<groupVars, userVars, gatewayVars>>
     \/ part = "groups" /\ G!Next /\ UNCHANGED <<vars, userVars, gatewayVars>>
     \/ part = "users" /\ U!Next /\ UNCHANGED <<vars, groupVars, gatewayVars>>
     \/ part = "gateway" /\ W!Next /\ UNCHANGED <<vars, groupVars, userVars>>

SocialSpec == SocialInit /\ [][SocialNext]_<<part, vars, groupVars, userVars, gatewayVars>>

JoinedOnce == G!JoinedOnce
RoomsAreComplete == G!RoomsAreComplete
OneUserPerPhone == U!OneUserPerPhone
NotRegisteredIsTrue == U!NotRegisteredIsTrue
RpcsAreTyped == W!RpcsAreTyped
SuccessIsTrue == W!SuccessIsTrue
OwnMessage == W!OwnMessage

Symmetry == Permutations(Requests)
=============================================================================
