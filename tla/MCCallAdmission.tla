--------------------------- MODULE MCCallAdmission ---------------------------
(* An instance of CallAdmission: a call placed by a request and its retry,    *)
(* two webhooks, two streams, two sockets and one restart or database error. *)
EXTENDS CallAdmission, TLC

CONSTANTS p1, w1, w2, x1, x2

=============================================================================
