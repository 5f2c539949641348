------------------------ MODULE MCPaymentEventStore -------------------------
(***************************************************************************)
(* PaymentEventStore on a small instance.                                  *)
(***************************************************************************)
EXTENDS PaymentEventStore, TLC

CONSTANTS p1, p2, w1, w2

MCPayments == {p1, p2}
MCWorkers == {w1, w2}

\* Payments and workers are interchangeable: no action singles one out.
Symmetry == Permutations(MCPayments) \cup Permutations(MCWorkers)
=============================================================================
