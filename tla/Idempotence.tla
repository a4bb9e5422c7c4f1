----------------------------- MODULE Idempotence -----------------------------
(***************************************************************************)
(* The idempotence interceptor of the social RPC server (GroupCreate) and  *)
(* the client that retries: one request, whose id the client interceptor   *)
(* put into the metadata, and the attempts gRPC makes at it.  The id names *)
(* two keys in Redis, the hash with status and data and the lock.  Every   *)
(* Redis command is a step, so attempts interleave between them.           *)
(*                                                                         *)
(* An attempt the client has given up (its answer is lost, the connection  *)
(* broke, a deadline passed) goes on at the server; once the server learns *)
(* of it, the attempt's context is cancelled and its Redis commands fail.  *)
(***************************************************************************)
EXTENDS Naturals, FiniteSets

CONSTANTS
  MaxAttempts,  \* RpcRetry.MaxAttempts
  SlowHandler   \* whether a handler may run longer than lockTTL

ASSUME AttemptsAssumption == MaxAttempts \in Nat
ASSUME SlowAssumption == SlowHandler \in BOOLEAN

VARIABLES
  status, data,  \* the hash of the request in Redis
  lock,          \* the lock in Redis; the model remembers which attempt set it, 0 for none
  pc,            \* where each attempt is
  resultData,    \* TryAcquire: the data each attempt read
  resp,          \* what each attempt's handler returned
  lost,          \* attempts the client has given up
  cancelled,     \* attempts whose context is cancelled
  answer,        \* what the server made of each attempt
  runs           \* history: attempts whose handler committed

redis == <<status, data, lock>>
local == <<resultData, resp>>
vars == <<redis, pc, local, lost, cancelled, answer, runs>>

Attempts == 1..MaxAttempts

(* A JSON response: none stored, one that was returned, or null.            *)
Data == {"none", "resp", "null"}
Answers == {"none", "ok", "failed", "cached", "processing", "error"}

(* The attempt has the lock, or had it.                                     *)
Working == {"mark", "run", "save", "release"}
AtServer == {"readData", "readStatus", "setnx"} \cup Working

Init ==
  /\ status = "none" /\ data = "none" /\ lock = 0
  /\ pc = [a \in Attempts |-> "idle"]
  /\ resultData = [a \in Attempts |-> "none"]
  /\ resp = [a \in Attempts |-> "none"]
  /\ lost = {} /\ cancelled = {}
  /\ answer = [a \in Attempts |-> "none"]
  /\ runs = {}

-----------------------------------------------------------------------------
(* The client and the network *)

(* The first attempt, and a retry once the client has given up the one      *)
(* before.  Retries carry the same id.                                      *)
Arrive(a) ==
  /\ pc[a] = "idle" /\ (a = 1 \/ a - 1 \in lost)
  /\ pc' = [pc EXCEPT ![a] = "readData"]
  /\ UNCHANGED <<redis, local, lost, cancelled, answer, runs>>

(* The client sees UNAVAILABLE or DEADLINE_EXCEEDED.                        *)
Lose(a) ==
  /\ pc[a] \notin {"idle", "received"} /\ a \notin lost
  /\ lost' = lost \cup {a}
  /\ UNCHANGED <<redis, pc, local, cancelled, answer, runs>>

Receive(a) ==
  /\ pc[a] = "answered" /\ a \notin lost
  /\ pc' = [pc EXCEPT ![a] = "received"]
  /\ UNCHANGED <<redis, local, lost, cancelled, answer, runs>>

(* The server notices that nobody waits any more.                           *)
Cancel(a) ==
  /\ a \in lost \ cancelled /\ pc[a] \in AtServer
  /\ cancelled' = cancelled \cup {a}
  /\ UNCHANGED <<redis, pc, local, lost, answer, runs>>

(* The server process dies; another instance serves the next attempt.       *)
Crash(a) ==
  /\ pc[a] \in AtServer
  /\ pc' = [pc EXCEPT ![a] = "dead"]
  /\ lost' = lost \cup {a}
  /\ UNCHANGED <<redis, local, cancelled, answer, runs>>

(* lockTTL passes; a handler that is still at work is done sooner, unless   *)
(* SlowHandler.                                                             *)
(* Mutant: the lock is set without a time to live.                          *)
NeverExpires == lock # 0 /\ FALSE /\ UNCHANGED vars
LockExpires ==
  /\ lock # 0 /\ (SlowHandler \/ pc[lock] \notin Working)
  /\ lock' = 0
  /\ UNCHANGED <<status, data, pc, local, lost, cancelled, answer, runs>>

-----------------------------------------------------------------------------
(* TryAcquire *)

Answer(a, x) == /\ pc' = [pc EXCEPT ![a] = "answered"]
                /\ answer' = [answer EXCEPT ![a] = x]

(* Hget data; an error is ignored.                                          *)
ReadData(a) ==
  /\ pc[a] = "readData"
  /\ resultData' = [resultData EXCEPT ![a] = IF a \in cancelled THEN "none" ELSE data]
  /\ pc' = [pc EXCEPT ![a] = "readStatus"]
  /\ UNCHANGED <<redis, resp, lost, cancelled, answer, runs>>

(* What a finished request answers: the JSON null is no response, so the    *)
(* interceptor takes the request for one in progress; no data at all is no  *)
(* JSON.                                                                    *)
Cached(d) == IF d = "resp" THEN "cached" ELSE IF d = "null" THEN "processing" ELSE "error"

(* Hget status; an error is ignored.                                        *)
(* Mutant: a request in progress is taken for a finished one.               *)
ReadAnyStatus(a) ==
  /\ pc[a] = "readStatus"
  /\ IF a \notin cancelled /\ status # "none"
     THEN Answer(a, "cached")
     ELSE pc' = [pc EXCEPT ![a] = "setnx"] /\ UNCHANGED answer
  /\ UNCHANGED <<redis, local, lost, cancelled, runs>>
ReadStatus(a) ==
  /\ pc[a] = "readStatus"
  /\ IF a \notin cancelled /\ status \in {"SUCCESS", "FAILED"}
     THEN Answer(a, Cached(resultData[a]))
     ELSE pc' = [pc EXCEPT ![a] = "setnx"] /\ UNCHANGED answer
  /\ UNCHANGED <<redis, local, lost, cancelled, runs>>

(* SETNX with a time to live.                                               *)
(* Mutant: SET in place of SETNX, whoever holds the lock.                   *)
SetAnyway(a) ==
  /\ pc[a] = "setnx" /\ a \notin cancelled
  /\ lock' = a
  /\ pc' = [pc EXCEPT ![a] = "mark"]
  /\ UNCHANGED <<status, data, local, lost, cancelled, answer, runs>>
Setnx(a) ==
  /\ pc[a] = "setnx"
  /\ IF a \in cancelled THEN Answer(a, "error") /\ UNCHANGED lock
     ELSE IF lock # 0 THEN Answer(a, "processing") /\ UNCHANGED lock
     ELSE /\ lock' = a
          /\ pc' = [pc EXCEPT ![a] = "mark"]
          /\ UNCHANGED answer
  /\ UNCHANGED <<status, data, local, lost, cancelled, runs>>

(* Hmset PROCESSING; an error leaves the lock to its time to live.          *)
Mark(a) ==
  /\ pc[a] = "mark"
  /\ IF a \in cancelled THEN Answer(a, "error") /\ UNCHANGED status
     ELSE /\ status' = "PROCESSING"
          /\ pc' = [pc EXCEPT ![a] = "run"]
          /\ UNCHANGED answer
  /\ UNCHANGED <<data, lock, local, lost, cancelled, runs>>

-----------------------------------------------------------------------------
(* The handler and SaveResp *)

(* The handler commits its transaction and returns a response, or fails and *)
(* returns nil.                                                             *)
Run(a, ok) ==
  /\ pc[a] = "run"
  /\ resp' = [resp EXCEPT ![a] = IF ok THEN "resp" ELSE "null"]
  /\ runs' = IF ok THEN runs \cup {a} ELSE runs
  /\ pc' = [pc EXCEPT ![a] = "save"]
  /\ UNCHANGED <<redis, resultData, lost, cancelled, answer>>

(* Hmset of the result; an error is ignored.                                *)
(* Mutant: status and data are swapped.                                     *)
SaveSwapped(a) ==
  /\ pc[a] = "save" /\ a \notin cancelled
  /\ data' = IF resp[a] = "resp" THEN "SUCCESS" ELSE "FAILED"
  /\ status' = resp[a]
  /\ pc' = [pc EXCEPT ![a] = "release"]
  /\ UNCHANGED <<lock, local, lost, cancelled, answer, runs>>
SaveResp(a) ==
  /\ pc[a] = "save"
  /\ IF a \in cancelled THEN UNCHANGED <<status, data>>
     ELSE /\ status' = IF resp[a] = "resp" THEN "SUCCESS" ELSE "FAILED"
          /\ data' = resp[a]
  /\ pc' = [pc EXCEPT ![a] = "release"]
  /\ UNCHANGED <<lock, local, lost, cancelled, answer, runs>>

(* DEL of the lock, whoever set it; an error is ignored.                    *)
Release(a) ==
  /\ pc[a] = "release"
  /\ lock' = IF a \in cancelled THEN lock ELSE 0
  /\ Answer(a, IF resp[a] = "resp" THEN "ok" ELSE "failed")
  /\ UNCHANGED <<status, data, local, lost, cancelled, runs>>

-----------------------------------------------------------------------------
Client(a) == Arrive(a) \/ Lose(a) \/ Receive(a)

Server(a) ==
  \/ ReadData(a) \/ ReadStatus(a) \/ Setnx(a) \/ Mark(a)
  \/ (\E ok \in BOOLEAN : Run(a, ok))
  \/ SaveResp(a) \/ Release(a)

Next == \/ \E a \in Attempts : Client(a) \/ Server(a) \/ Cancel(a) \/ Crash(a)
        \/ LockExpires

Spec == Init /\ [][Next]_vars

(* A handler returns, and a time to live passes.                            *)
Fairness == (\A a \in Attempts : WF_vars(Server(a))) /\ WF_vars(LockExpires)

FairSpec == Spec /\ Fairness

-----------------------------------------------------------------------------
(* Properties *)

(* TypeOK: the variables keep their shape.                                  *)
TypeOK ==
  /\ status \in {"none", "PROCESSING", "SUCCESS", "FAILED"}
  /\ data \in Data
  /\ lock \in Attempts \cup {0}
  /\ pc \in [Attempts -> AtServer \cup {"idle", "answered", "received", "dead"}]
  /\ resultData \in [Attempts -> Data] /\ resp \in [Attempts -> Data]
  /\ lost \subseteq Attempts /\ cancelled \subseteq Attempts
  /\ answer \in [Attempts -> Answers]
  /\ runs \subseteq Attempts

(* Exclusive: two attempts are never at work between SETNX and DEL, however *)
(* many were lost, cancelled or killed, as long as handlers finish within   *)
(* lockTTL: in particular an attempt never deletes a lock it did not set.   *)
Exclusive ==
  ~SlowHandler => \A a, b \in Attempts : pc[a] \in Working /\ pc[b] \in Working => a = b

(* NoPhantomResult: an answer that says the request was carried out, fresh  *)
(* or from the cache, is given only after a handler has committed, although *)
(* status and data are read one after the other and PROCESSING overwrites   *)
(* an older status but not its data.                                        *)
NoPhantomResult ==
  \A a \in Attempts : answer[a] \in {"ok", "cached"} => runs # {}

(* LockIsFreed: a lock never outlives its attempt for good, whether it died *)
(* or could not delete it.                                                  *)
LockIsFreed == lock # 0 ~> lock = 0

-----------------------------------------------------------------------------
(* What documents say of this code, and the code does not do.               *)

(* AtMostOnce: the state machine with the lock excludes concurrent          *)
(* duplicates and returns the earlier result                                *)
(* (grpc-idempotency-implementation.md:37): the request is carried out      *)
(* once, at least when no server dies and every Redis command succeeds.     *)
AtMostOnce ==
  cancelled = {} /\ (\A a \in Attempts : pc[a] # "dead") => Cardinality(runs) <= 1

(* FailureIsReturned: SUCCESS and FAILED return the cached result directly  *)
(* (grpc-idempotency-implementation.md:37), and "in progress" is answered   *)
(* only for a request somebody is working on.                               *)
FailureIsReturned ==
  [][\A a \in Attempts :
       answer'[a] # answer[a] /\ answer'[a] = "processing"
         => lock # 0 \/ status \notin {"SUCCESS", "FAILED"}]_vars
=============================================================================
