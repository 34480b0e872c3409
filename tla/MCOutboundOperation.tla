------------------------ MODULE MCOutboundOperation ------------------------
(* An SMS s, a voice call v and an e-mail e.                                *)
(* Operations share nothing but the requests and the faults, and every      *)
(* property speaks of one of them: a behaviour uses one operation, any of   *)
(* them, so that the instance is a sum and not a product.                   *)
EXTENDS OutboundOperation, TLC

CONSTANTS s, v, e

Used(k) == op[k].status # "absent" \/ \E r \in Requests : key[r] = k

OneAtATime == /\ \A j, k \in Keys : Used(j)' /\ Used(k)' => j = k
              /\ \A k \in Keys : accepts'[k] # accepts[k] => Used(k)

MCInit == Init /\ \A j, k \in Keys : accepts[j] = accepts[k]

MCSpec == MCInit /\ [][Next /\ OneAtATime]_vars /\ SendFairness
=============================================================================
