-------------------------- MODULE Idempotence_proof --------------------------
(***************************************************************************)
(* Proofs about Idempotence, for any number of attempts: types, the lock   *)
(* excludes concurrent handlers, and nobody is told of a result that no    *)
(* handler committed.                                                      *)
(***************************************************************************)
EXTENDS Idempotence, TLAPS

(* TypeCorrect: the variables keep their shape.                             *)
THEOREM TypeCorrect == Spec => []TypeOK
<1> USE AttemptsAssumption
<1>1. Init => TypeOK
  BY DEF Init, TypeOK, Attempts, Data, Answers, AtServer, Working
<1>2. TypeOK /\ [Next]_vars => TypeOK'
  <2> SUFFICES ASSUME TypeOK, [Next]_vars PROVE TypeOK'
    OBVIOUS
  <2> USE DEF TypeOK, Data, Answers, AtServer, Working, Answer, Cached, redis, local
  <2>1. ASSUME NEW a \in Attempts, Client(a) \/ Cancel(a) \/ Crash(a) PROVE TypeOK'
    BY <2>1 DEF Client, Arrive, Lose, Receive, Cancel, Crash
  <2>2. ASSUME NEW a \in Attempts, ReadData(a) \/ ReadStatus(a) PROVE TypeOK'
    BY <2>2 DEF ReadData, ReadStatus
  <2>3. ASSUME NEW a \in Attempts, Setnx(a) \/ Mark(a) PROVE TypeOK'
    BY <2>3 DEF Setnx, Mark
  <2>4. ASSUME NEW a \in Attempts, NEW ok \in BOOLEAN, Run(a, ok) PROVE TypeOK'
    BY <2>4 DEF Run
  <2>5. ASSUME NEW a \in Attempts, SaveResp(a) \/ Release(a) PROVE TypeOK'
    BY <2>5 DEF SaveResp, Release
  <2>6. CASE LockExpires
    BY <2>6 DEF LockExpires
  <2>7. CASE UNCHANGED vars
    BY <2>7 DEF vars
  <2> QED
    BY <2>1, <2>2, <2>3, <2>4, <2>5, <2>6, <2>7 DEF Next, Server
<1> QED
  BY <1>1, <1>2, PTL DEF Spec

(* The inductive form of Exclusive: whoever is at work owns the lock.       *)
Owns == ~SlowHandler => \A a \in Attempts : pc[a] \in Working => lock = a


(* LockExcludes: between SETNX and DEL there is one attempt at most, when   *)
(* handlers finish within lockTTL (idempotence.go:174 and 210).             *)
THEOREM LockExcludes == Spec => []Exclusive
<1> USE AttemptsAssumption
<1>1. Init => Owns
  BY DEF Init, Owns, Working
<1>2. TypeOK /\ Owns /\ [Next]_vars => Owns'
  <2> SUFFICES ASSUME TypeOK, Owns, [Next]_vars PROVE Owns'
    OBVIOUS
  <2> USE DEF Working
  <2>1. ASSUME NEW a \in Attempts, Client(a) \/ Cancel(a) \/ Crash(a) PROVE Owns'
    BY <2>1 DEF Owns, TypeOK, Client, Arrive, Lose, Receive, Cancel, Crash, redis, local
  <2>2. ASSUME NEW a \in Attempts, ReadData(a) \/ ReadStatus(a) PROVE Owns'
    BY <2>2 DEF Owns, TypeOK, ReadData, ReadStatus, Answer, redis
  <2>3. ASSUME NEW a \in Attempts, Setnx(a) PROVE Owns'
    (* the lock was free, so nobody was at work *)
    <3>1. lock = 0 => (~SlowHandler => \A b \in Attempts : pc[b] \notin Working)
      BY DEF Owns, Attempts
    <3> QED
      BY <2>3, <3>1 DEF Owns, TypeOK, Setnx, Answer
  <2>4. ASSUME NEW a \in Attempts, Mark(a) PROVE Owns'
    BY <2>4 DEF Owns, TypeOK, Mark, Answer
  <2>5. ASSUME NEW a \in Attempts, NEW ok \in BOOLEAN, Run(a, ok) PROVE Owns'
    BY <2>5 DEF Owns, TypeOK, Run, redis
  <2>6. ASSUME NEW a \in Attempts, SaveResp(a) PROVE Owns'
    BY <2>6 DEF Owns, TypeOK, SaveResp
  <2>7. ASSUME NEW a \in Attempts, Release(a) PROVE Owns'
    (* a is the only attempt at work, so the lock it deletes is its own *)
    <3>1. ~SlowHandler => \A b \in Attempts \ {a} : pc[b] \notin Working
      BY <2>7 DEF Owns, Release
    <3> QED
      BY <2>7, <3>1 DEF Owns, TypeOK, Release, Answer
  <2>8. CASE LockExpires
    BY <2>8 DEF Owns, TypeOK, LockExpires, local
  <2>9. CASE UNCHANGED vars
    BY <2>9 DEF Owns, vars, redis
  <2> QED
    BY <2>1, <2>2, <2>3, <2>4, <2>5, <2>6, <2>7, <2>8, <2>9 DEF Next, Server
<1>3. Owns => Exclusive
  BY DEF Owns, Exclusive
<1> QED
  BY <1>1, <1>2, <1>3, TypeCorrect, PTL DEF Spec

(* The inductive form of NoPhantomResult: wherever a response is stored, in *)
(* Redis or in an attempt, some handler has committed; the request is       *)
(* finished in Redis only with what a handler returned.                     *)
Backed ==
  /\ data = "resp" => runs # {}
  /\ \A a \in Attempts :
       /\ resultData[a] = "resp" => runs # {}
       /\ resp[a] = "resp" => runs # {}
       /\ answer[a] \in {"ok", "cached"} => runs # {}

(* ResultsAreReal: nobody is answered with a result that no handler         *)
(* committed (idempotence.go:161-170, 203-207).                             *)
THEOREM ResultsAreReal == Spec => []NoPhantomResult
<1> USE AttemptsAssumption
<1>1. Init => Backed
  BY DEF Init, Backed
<1>2. TypeOK /\ Backed /\ [Next]_vars => Backed'
  <2> SUFFICES ASSUME TypeOK, Backed, [Next]_vars PROVE Backed'
    OBVIOUS
  <2> USE DEF Backed, TypeOK, Answer, redis, local
  <2>1. ASSUME NEW a \in Attempts, Client(a) \/ Cancel(a) \/ Crash(a) PROVE Backed'
    BY <2>1 DEF Client, Arrive, Lose, Receive, Cancel, Crash
  <2>2. ASSUME NEW a \in Attempts, ReadData(a) \/ ReadStatus(a) PROVE Backed'
    BY <2>2 DEF ReadData, ReadStatus, Cached
  <2>3. ASSUME NEW a \in Attempts, Setnx(a) \/ Mark(a) PROVE Backed'
    BY <2>3 DEF Setnx, Mark
  <2>4. ASSUME NEW a \in Attempts, NEW ok \in BOOLEAN, Run(a, ok) PROVE Backed'
    BY <2>4 DEF Run
  <2>5. ASSUME NEW a \in Attempts, SaveResp(a) \/ Release(a) PROVE Backed'
    BY <2>5 DEF SaveResp, Release
  <2>6. CASE LockExpires
    BY <2>6 DEF LockExpires
  <2>7. CASE UNCHANGED vars
    BY <2>7 DEF vars
  <2> QED
    BY <2>1, <2>2, <2>3, <2>4, <2>5, <2>6, <2>7 DEF Next, Server
<1>3. Backed => NoPhantomResult
  BY DEF Backed, NoPhantomResult
<1> QED
  BY <1>1, <1>2, <1>3, TypeCorrect, PTL DEF Spec
=============================================================================
