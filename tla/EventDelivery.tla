--------------------------- MODULE EventDelivery ---------------------------
(***************************************************************************)
(* What the event outbox promises a producer of events, without sweeps,    *)
(* leases or tokens: an event that has been published is tried again and   *)
(* again until the receiver has acknowledged it, has refused it for good,  *)
(* or the retry budget is spent, and an operator may start it afresh.      *)
(* tries, acked and refused speak of the time since the last fresh start.  *)
(***************************************************************************)
EXTENDS Naturals

CONSTANTS Events, MaxAttempts

VARIABLES state, tries, acked, refused

dvars == <<state, tries, acked, refused>>

Init ==
  /\ state = [e \in Events |-> "absent"]
  /\ tries = [e \in Events |-> 0]
  /\ acked = [e \in Events |-> FALSE]
  /\ refused = [e \in Events |-> FALSE]

Publish(e) ==
  /\ state[e] = "absent"
  /\ state' = [state EXCEPT ![e] = "open"]
  /\ UNCHANGED <<tries, acked, refused>>

\* At least once: a late or repeated try may still reach the receiver after
\* the event is closed.
Try(e) ==
  /\ state[e] # "absent"
  /\ tries' = [tries EXCEPT ![e] = IF @ > MaxAttempts THEN @ ELSE @ + 1]
  /\ \/ UNCHANGED <<acked, refused>>
     \/ acked' = [acked EXCEPT ![e] = TRUE] /\ UNCHANGED refused
     \/ refused' = [refused EXCEPT ![e] = TRUE] /\ UNCHANGED acked
  /\ UNCHANGED state

Deliver(e) ==
  /\ state[e] = "open" /\ acked[e]
  /\ state' = [state EXCEPT ![e] = "delivered"]
  /\ UNCHANGED <<tries, acked, refused>>

GiveUp(e) ==
  /\ state[e] = "open" /\ (refused[e] \/ tries[e] >= MaxAttempts)
  /\ state' = [state EXCEPT ![e] = "failed"]
  /\ UNCHANGED <<tries, acked, refused>>

Restart(e) ==
  /\ state[e] # "absent"
  /\ state' = [state EXCEPT ![e] = "open"]
  /\ tries' = [tries EXCEPT ![e] = 0]
  /\ acked' = [acked EXCEPT ![e] = FALSE]
  /\ refused' = [refused EXCEPT ![e] = FALSE]

Next == \E e \in Events : Publish(e) \/ Try(e) \/ Deliver(e) \/ GiveUp(e) \/ Restart(e)

Spec == Init /\ [][Next]_dvars
=============================================================================
