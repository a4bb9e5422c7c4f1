----------------------------- MODULE MCGroupRead -----------------------------
(* GroupRead and JobRetry for TLC.  They share no state, so a behaviour     *)
(* moves one of them, which part names; what holds of each alone holds of   *)
(* both side by side.  While JobRetry moves, GroupRead stays as it began,   *)
(* where nothing is under way and its fairness asks nothing.                *)
EXTENDS GroupRead, TLC

CONSTANTS Parts, RetriedJobs, retryNums

(* WithRetryNums sets no less than one try.                                 *)
ASSUME RetryAssumption == retryNums \in Nat \ {0}

VARIABLES part, job, ran, ch, over

J == INSTANCE JobRetry WITH Jobs <- RetriedJobs

jobVars == <<job, ran, ch, over>>

TaskInit == part \in Parts /\ Init /\ J!Init

TaskNext ==
  /\ UNCHANGED part
  /\ \/ part = "groups" /\ Next /\ UNCHANGED jobVars
     \/ part = "jobs" /\ J!Next /\ UNCHANGED vars

TaskSpec == TaskInit /\ [][TaskNext]_<<part, vars, jobVars>> /\ Fairness

AnswersAreTrue == J!AnswersAreTrue
=============================================================================
