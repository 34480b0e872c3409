--------------------------- MODULE MCEventOutbox ---------------------------
(* Small instances of EventOutbox.  e2 and e3 carry the same dedupe key;   *)
(* the cfg says which events are review actions.                           *)
EXTENDS EventOutbox, TLC

CONSTANTS e1, e2, e3, key

Keys == [e \in Events |-> IF e \in {e2, e3} THEN key ELSE Null]
=============================================================================
