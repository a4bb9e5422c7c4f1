------------------------------- MODULE AckInbox -------------------------------
(***************************************************************************)
(* What the acknowledgement queue of a connection promises the handlers:   *)
(* messages are taken in the order they were accepted, each of them once,  *)
(* and a message that was accepted stays pending until it is taken or is   *)
(* given up openly.                                                        *)
(***************************************************************************)
EXTENDS Naturals, Sequences

VARIABLES
  pending,   \* accepted messages, in the order of acceptance
  taken,     \* messages whose handler ran, in order
  givenUp    \* messages discarded because nobody confirmed them

inboxVars == <<pending, taken, givenUp>>

Numbers(s) == {s[i] : i \in DOMAIN s}

Init == pending = <<>> /\ taken = <<>> /\ givenUp = {}

(* A message is accepted: it is younger than all that were accepted before. *)
Accept ==
  /\ pending' # <<>>
  /\ pending' = Append(pending, pending'[Len(pending')])
  /\ \A n \in Numbers(pending) \cup Numbers(taken) \cup givenUp :
       n < pending'[Len(pending')]
  /\ UNCHANGED <<taken, givenUp>>

(* The oldest pending message is taken.                                     *)
Take ==
  /\ pending # <<>>
  /\ taken' = Append(taken, Head(pending))
  /\ pending' = Tail(pending)
  /\ UNCHANGED givenUp

(* Some pending message is given up, the others keep their order.           *)
GiveUp ==
  \E i \in DOMAIN pending :
    /\ pending' = SubSeq(pending, 1, i - 1) \o SubSeq(pending, i + 1, Len(pending))
    /\ givenUp' = givenUp \cup {pending[i]}
    /\ UNCHANGED taken

Next == Accept \/ Take \/ GiveUp

Spec == Init /\ [][Next]_inboxVars
=============================================================================
