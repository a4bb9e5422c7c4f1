-------------------------------- MODULE Users --------------------------------
(***************************************************************************)
(* Users of the user service: registering a phone number, logging in with  *)
(* it, looking it up.  The table users has no unique key on the phone.     *)
(* FindByPhone caches what it finds under the phone, and that it found     *)
(* nothing as well, for about a minute; Insert deletes the key of the new  *)
(* id, not the one of the phone.                                           *)
(***************************************************************************)
EXTENDS Naturals

CONSTANTS
  Phones,
  Calls,     \* the calls that arrive, each a goroutine of the rpc server
  MaxRows    \* bound: users with one phone

VARIABLES
  users,      \* the table users: how many rows a phone has
  cached,     \* Redis: what is cached of a phone: "none", "absent" or "present"
  online,     \* Redis, hash online:user: the phones whose user logged in
  calls,
  disturbed   \* history: phones registered by overlapping calls or past a stale "absent"

vars == <<users, cached, online, calls, disturbed>>

-----------------------------------------------------------------------------
NoCall == [pc |-> "idle", kind |-> "none", phone |-> "none", read |-> "none",
           known |-> FALSE, answer |-> "none"]

Init ==
  /\ users = [p \in Phones |-> 0]
  /\ cached = [p \in Phones |-> "none"]
  /\ online = {}
  /\ calls = [c \in Calls |-> NoCall]
  /\ disturbed = {}

InTable(p) == IF users[p] > 0 THEN "present" ELSE "absent"
Answered(call, a) == [call EXCEPT !.pc = "done", !.answer = a]
Answer(c, a) == calls' = [calls EXCEPT ![c] = Answered(@, a)]
Active(c) == calls[c].pc \notin {"idle", "done"}
Registering(p) == {c \in Calls : Active(c) /\ calls[c].kind = "register" /\ calls[c].phone = p}

-----------------------------------------------------------------------------
(* Register, Login and FindUser all begin with FindByPhone.  known: the     *)
(* phone was registered before the call.                                    *)
Begin(c, kind, p) ==
  /\ calls[c].pc = "idle"
  /\ calls' = [calls EXCEPT ![c] = [NoCall EXCEPT !.pc = "find", !.kind = kind, !.phone = p,
                                                  !.known = users[p] > 0]]
  /\ UNCHANGED <<users, cached, online>>

Register(c, p) ==
  /\ Begin(c, "register", p)
  /\ disturbed' = IF Registering(p) # {} THEN disturbed \cup {p} ELSE disturbed
Login(c, p) == Begin(c, "login", p) /\ UNCHANGED disturbed
FindUser(c, p) == Begin(c, "find", p) /\ UNCHANGED disturbed

(* What each of them makes of the answer.                                   *)
(* Mutant: Register does not look at it.                                    *)
CheckLoginOnly(call, read) ==
  CASE call.kind = "register" -> [call EXCEPT !.pc = "insert"]
    [] call.kind = "login" /\ read = "present" -> [call EXCEPT !.pc = "password"]
    [] OTHER -> Answered(call, read)
Check(call, read) ==
  CASE call.kind = "register" /\ read = "absent" -> [call EXCEPT !.pc = "insert"]
    [] call.kind = "login" /\ read = "present" -> [call EXCEPT !.pc = "password"]
    [] OTHER -> Answered(call, read)

(* FindByPhone answers from the cache, else from the table ...              *)
FindByPhone(c) ==
  LET p == calls[c].phone
  IN /\ calls[c].pc = "find"
     /\ IF cached[p] # "none"
        THEN calls' = [calls EXCEPT ![c] = Check(@, cached[p])]
        ELSE calls' = [calls EXCEPT ![c].pc = "fill", ![c].read = InTable(p)]
     /\ disturbed' = IF calls[c].kind = "register" /\ cached[p] = "absent" /\ users[p] > 0
                     THEN disturbed \cup {p} ELSE disturbed
     /\ UNCHANGED <<users, cached, online>>

(* ... and then the cache gets what was read; that there was nothing only   *)
(* if the key is still free.                                                *)
FillCache(c) ==
  LET p == calls[c].phone
  IN /\ calls[c].pc = "fill"
     /\ cached' = [cached EXCEPT ![p] = IF calls[c].read = "present" \/ @ = "none"
                                        THEN calls[c].read ELSE @]
     /\ calls' = [calls EXCEPT ![c] = Check(@, calls[c].read)]
     /\ UNCHANGED <<users, online, disturbed>>

Insert(c) ==
  LET p == calls[c].phone
  IN /\ calls[c].pc = "insert"
     /\ users[p] < MaxRows
     /\ users' = [users EXCEPT ![p] = @ + 1]
     /\ Answer(c, "registered")
     /\ UNCHANGED <<cached, online, disturbed>>

(* The password, of whichever row FindByPhone found, is right or not; the   *)
(* api then enters the user into the hash, and does not mind if it cannot.  *)
Password(c, right, entered) ==
  /\ calls[c].pc = "password"
  /\ Answer(c, IF right THEN "in" ELSE "wrong")
  /\ online' = IF right /\ entered THEN online \cup {calls[c].phone} ELSE online
  /\ UNCHANGED <<users, cached, disturbed>>

(* A command fails or the process dies.                                     *)
Fail(c) ==
  /\ Active(c)
  /\ Answer(c, "error")
  /\ UNCHANGED <<users, cached, online, disturbed>>

(* Redis drops what is cached when its time is over.                        *)
Expire(p) ==
  /\ cached[p] # "none"
  /\ cached' = [cached EXCEPT ![p] = "none"]
  /\ UNCHANGED <<users, online, calls, disturbed>>

Next ==
  \/ \E c \in Calls :
       \/ \E p \in Phones : Register(c, p) \/ Login(c, p) \/ FindUser(c, p)
       \/ FindByPhone(c) \/ FillCache(c) \/ Insert(c) \/ Fail(c)
       \/ \E right, entered \in BOOLEAN : Password(c, right, entered)
  \/ \E p \in Phones : Expire(p)

Spec == Init /\ [][Next]_vars

-----------------------------------------------------------------------------
(* Properties *)

(* OneUserPerPhone: Register looks a phone up and inserts it later, and no  *)
(* unique key backs it up (registerlogic.go:39-71): still a phone has one   *)
(* user, unless two registrations of it overlapped or one was answered by a *)
(* cached "absent" that the first user's Insert had left in place.          *)
OneUserPerPhone == \A p \in Phones \ disturbed : users[p] <= 1

-----------------------------------------------------------------------------
(* What the code says of itself, and does not do.                           *)

(* NotRegisteredIsTrue: Login checks whether the user is registered and     *)
(* says so when he is not (loginlogic.go:42-48): whoever is told that his   *)
(* phone is not registered was not registered when he called.               *)
NotRegisteredIsTrue ==
  \A c \in Calls : calls[c].kind = "login" /\ calls[c].answer = "absent" => ~calls[c].known
=============================================================================
