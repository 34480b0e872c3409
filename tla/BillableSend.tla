---------------------------- MODULE BillableSend ---------------------------
(***************************************************************************)
(* What a caller of an idempotent billable send is promised, without       *)
(* handlers, races or crashes: one key is taken once, is accepted by the   *)
(* provider at most once, and the caller hears "success" only of a send    *)
(* that was accepted and "rejected" only of one that never will be.  A key *)
(* whose provider outcome is not known stays reserved.                     *)
(***************************************************************************)
EXTENDS Naturals

CONSTANT Keys

VARIABLES phase, accepted, told

bvars == <<phase, accepted, told>>

Init ==
  /\ phase = [k \in Keys |-> "absent"]
  /\ accepted = [k \in Keys |-> 0]
  /\ told = [k \in Keys |-> {}]

Take(k) ==
  /\ phase[k] = "absent"
  /\ phase' = [phase EXCEPT ![k] = "reserved"]
  /\ UNCHANGED <<accepted, told>>

Accept(k) ==
  /\ phase[k] = "reserved" /\ accepted[k] = 0
  /\ accepted' = [accepted EXCEPT ![k] = 1]
  /\ UNCHANGED <<phase, told>>

NoteSent(k) ==
  /\ phase[k] = "reserved" /\ accepted[k] = 1
  /\ phase' = [phase EXCEPT ![k] = "provider_sent"]
  /\ UNCHANGED <<accepted, told>>

Succeed(k) ==
  /\ phase[k] \in {"provider_sent", "completed"}
  /\ phase' = [phase EXCEPT ![k] = "completed"]
  /\ told' = [told EXCEPT ![k] = @ \cup {"success"}]
  /\ UNCHANGED accepted

Reject(k) ==
  /\ phase[k] \in {"reserved", "failed"} /\ accepted[k] = 0
  /\ phase' = [phase EXCEPT ![k] = "failed"]
  /\ told' = [told EXCEPT ![k] = @ \cup {"rejected"}]
  /\ UNCHANGED accepted

Next == \E k \in Keys : Take(k) \/ Accept(k) \/ NoteSent(k) \/ Succeed(k) \/ Reject(k)

Spec == Init /\ [][Next]_bvars
=============================================================================
