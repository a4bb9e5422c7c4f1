------------------------------ MODULE JobRetry ------------------------------
(***************************************************************************)
(* job.WithRetry: a handler is run in a goroutine, its result awaited on a *)
(* channel of one or until the context is over, and on an error the        *)
(* handler is run again, after a pause, up to retryNums times.             *)
(*                                                                         *)
(* The pause does not look at the context; the attempt after it may begin  *)
(* when the time is over.  The handler of a job that timed out runs on.    *)
(***************************************************************************)
EXTENDS Naturals, Sequences, FiniteSets

CONSTANTS
  Jobs,        \* the calls of WithRetry
  retryNums    \* how often a handler is tried

VARIABLES
  job,     \* WithRetry: [pc, i, answer]
  ran,     \* the handlers that were started, in order: "running", "returned" or "sent", and the result
  ch,      \* the channel of each job
  over     \* the jobs whose context is done

vars == <<job, ran, ch, over>>

Errors == {"error", "fatal"}     \* fatal: IsRetryFunc says no
ChanCap == 1

Init ==
  /\ job = [j \in Jobs |-> [pc |-> "loop", i |-> 0, answer |-> "none"]]
  /\ ran = [j \in Jobs |-> <<>>]
  /\ ch = [j \in Jobs |-> <<>>]
  /\ over = {}

Return(j, answer) == job' = [job EXCEPT ![j].pc = "done", ![j].answer = answer]

(* The next attempt, or the last error.                                     *)
Attempt(j) ==
  /\ job[j].pc = "loop" /\ job[j].i < retryNums
  /\ ran' = [ran EXCEPT ![j] = Append(@, [state |-> "running", result |-> "none"])]
  /\ job' = [job EXCEPT ![j].pc = "select"]
  /\ UNCHANGED <<ch, over>>
GiveUp(j) ==
  /\ job[j].pc = "loop" /\ job[j].i = retryNums
  /\ Return(j, "error")
  /\ UNCHANGED <<ran, ch, over>>

(* The handler's goroutine: it returns, then it sends what it returned.     *)
HandlerReturns(j, n, result) ==
  /\ n \in DOMAIN ran[j] /\ ran[j][n].state = "running"
  /\ ran' = [ran EXCEPT ![j][n] = [state |-> "returned", result |-> result]]
  /\ UNCHANGED <<job, ch, over>>
HandlerSends(j, n) ==
  /\ n \in DOMAIN ran[j] /\ ran[j][n].state = "returned" /\ Len(ch[j]) < ChanCap
  /\ ran' = [ran EXCEPT ![j][n].state = "sent"]
  /\ ch' = [ch EXCEPT ![j] = Append(@, ran[j][n].result)]
  /\ UNCHANGED <<job, over>>

(* select: the result, when there is one ...                                *)
(* Mutant: a failed attempt counts as the answer of the job.                *)
TakeAny(j) ==
  /\ job[j].pc = "select" /\ ch[j] # <<>>
  /\ ch' = [ch EXCEPT ![j] = <<>>]
  /\ Return(j, "nil")
  /\ UNCHANGED <<ran, over>>
Take(j) ==
  LET herr == Head(ch[j])
  IN /\ job[j].pc = "select" /\ ch[j] # <<>>
     /\ ch' = [ch EXCEPT ![j] = <<>>]
     /\ \/ herr \in {"nil", "fatal"} /\ Return(j, herr)
        \/ herr = "error" /\ job' = [job EXCEPT ![j].pc = "sleep"]
     /\ UNCHANGED <<ran, over>>

(* ... or the end of the context, whichever the select picks if both are    *)
(* there.                                                                   *)
TimedOut(j) ==
  /\ job[j].pc = "select" /\ j \in over
  /\ Return(j, "timeout")
  /\ UNCHANGED <<ran, ch, over>>

Sleep(j) ==
  /\ job[j].pc = "sleep"
  /\ job' = [job EXCEPT ![j].pc = "loop", ![j].i = @ + 1]
  /\ UNCHANGED <<ran, ch, over>>

ContextEnds(j) ==
  /\ j \notin over
  /\ over' = over \cup {j}
  /\ UNCHANGED <<job, ran, ch>>

Next == \E j \in Jobs :
  \/ Attempt(j) \/ GiveUp(j) \/ Take(j) \/ TimedOut(j) \/ Sleep(j) \/ ContextEnds(j)
  \/ \E n \in 1..retryNums : HandlerSends(j, n) \/ \E r \in Errors \cup {"nil"} : HandlerReturns(j, n, r)

Spec == Init /\ [][Next]_vars

-----------------------------------------------------------------------------
(* Properties *)

(* AnswersAreTrue: of the attempts of a job, no two run at a time, also     *)
(* when one was given up; a handler never has to wait for the channel;      *)
(* only the last may have succeeded; and the answer is its result: success  *)
(* only if it succeeded, an error only if none of them did.  A timeout says *)
(* nothing of the attempt that was running.                                 *)
AnswersAreTrue ==
  \A j \in Jobs :
    LET n == Len(ran[j])
        Result(i) == ran[j][i].result
    IN /\ \A i \in 1..n : i < n => ran[j][i].state = "sent" /\ Result(i) = "error"
       /\ n > 0 /\ ran[j][n].state = "returned" => Len(ch[j]) < ChanCap
       /\ job[j].answer \in {"nil", "error", "fatal"} => n > 0 /\ Result(n) = job[j].answer
=============================================================================
