------------------------ MODULE MCIdempotentCreation ------------------------
(***************************************************************************)
(* IdempotentCreation on a small instance: body b, when it is there, asks  *)
(* for a payment id of its own choice, and a failure recorded by the test  *)
(* endpoint names a payment other than that, or none.                      *)
(***************************************************************************)
EXTENDS IdempotentCreation, TLC

CONSTANTS r1, r2, b, p1

MCRequests == {r1, r2}
MCTestAnswers == (Payments \ {p1}) \cup {NoPayment}
MCChosenId == [c \in Payloads |-> IF c = b THEN p1 ELSE NoPayment]
=============================================================================
