----------------------------- MODULE Deliveries -----------------------------
(***************************************************************************)
(* What a queue of retried calls promises to those it calls, whatever the  *)
(* calls are: deliveries are taken in the order they were accepted, one at *)
(* a time; each is made a bounded number of times; none is called done     *)
(* that was never made.  Nothing survives a restart.                       *)
(***************************************************************************)
EXTENDS Naturals, SequencesExt

CONSTANTS
  Delivery,   \* the deliveries that may be asked for
  Attempts    \* how often one is made at most

VARIABLES
  waiting,    \* accepted and not settled, the first one being worked on
  posts,      \* how often each has reached the receiver
  outcome     \* what became of each

dvars == <<waiting, posts, outcome>>

DInit ==
  /\ waiting = <<>>
  /\ posts = [d \in Delivery |-> 0]
  /\ outcome = [d \in Delivery |-> "none"]

\* Deliveries nobody has asked for before, in any order.
Accept(new) ==
  /\ \A d \in new : outcome[d] = "none"
  /\ \E order \in SetToSeqs(new) : waiting' = waiting \o order
  /\ outcome' = [d \in Delivery |-> IF d \in new THEN "waiting" ELSE outcome[d]]
  /\ UNCHANGED posts

Received ==
  /\ posts[Head(waiting)] < Attempts
  /\ posts' = [posts EXCEPT ![Head(waiting)] = @ + 1]

Receive ==
  /\ waiting # <<>>
  /\ Received
  /\ UNCHANGED <<waiting, outcome>>

Leave(end) ==
  /\ waiting # <<>>
  /\ waiting' = Tail(waiting)
  /\ outcome' = [outcome EXCEPT ![Head(waiting)] = end]

Done ==
  /\ Leave("delivered")
  /\ posts[Head(waiting)] > 0
  /\ UNCHANGED posts

\* The receiver may have got even the last attempt, and the answer gone astray.
GiveUp ==
  /\ Leave("failed")
  /\ (UNCHANGED posts) \/ Received

Lose ==
  /\ waiting' = <<>>
  /\ outcome' = [d \in Delivery |-> IF outcome[d] = "waiting" THEN "lost" ELSE outcome[d]]
  /\ UNCHANGED posts

Settle == Done \/ GiveUp

DNext ==
  \/ \E new \in SUBSET Delivery : Accept(new)
  \/ Receive
  \/ Settle
  \/ Lose

DSpec == DInit /\ [][DNext]_dvars

\* What is accepted does not wait forever.
Progress == WF_dvars(Settle)
FairDSpec == DSpec /\ Progress

=============================================================================
