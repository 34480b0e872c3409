--------------------------- MODULE MCCallOutcome ---------------------------
(* Small instances of CallOutcome: a carries a Human Ask, b does not.       *)
EXTENDS CallOutcome, TLC

CONSTANTS a, b
=============================================================================
