---------------------------- MODULE CallVerdict ----------------------------
(***************************************************************************)
(* What the rest of the system is promised about a finished call: it is    *)
(* judged once; exactly the event of that judgement is announced; only a   *)
(* call announced as completed answers an Ask or enters the history.       *)
(***************************************************************************)
CONSTANT Calls

VARIABLES verdict, announced, answered, remembered

cvars == <<verdict, announced, answered, remembered>>

Init ==
  /\ verdict = [c \in Calls |-> "pending"]
  /\ announced = [c \in Calls |-> <<>>]
  /\ answered = [c \in Calls |-> FALSE]
  /\ remembered = [c \in Calls |-> FALSE]

Judge(c) ==
  /\ verdict[c] = "pending"
  /\ \E v \in {"success", "failed"} : verdict' = [verdict EXCEPT ![c] = v]
  /\ UNCHANGED <<announced, answered, remembered>>

Announce(c) ==
  /\ verdict[c] # "pending" /\ announced[c] = <<>>
  /\ announced' = [announced EXCEPT ![c] = <<verdict[c]>>]
  /\ UNCHANGED <<verdict, answered, remembered>>

Answer(c) ==
  /\ announced[c] = <<"success">>
  /\ answered' = [answered EXCEPT ![c] = TRUE]
  /\ UNCHANGED <<verdict, announced, remembered>>

Remember(c) ==
  /\ verdict[c] = "success"
  /\ remembered' = [remembered EXCEPT ![c] = TRUE]
  /\ UNCHANGED <<verdict, announced, answered>>

Next == \E c \in Calls : Judge(c) \/ Announce(c) \/ Answer(c) \/ Remember(c)

Spec == Init /\ [][Next]_cvars
=============================================================================
