------------------------ MODULE MCProjectionRebuild -------------------------
(***************************************************************************)
(* ProjectionRebuild on a small instance.                                  *)
(***************************************************************************)
EXTENDS ProjectionRebuild, TLC

CONSTANTS p1, w1, w2

MCPayments == {p1}
MCWorkers == {w1, w2}

\* The replay of one payment does not touch another's read model.  Workers are
\* interchangeable: no action singles one out.
Symmetry == Permutations(MCWorkers)
=============================================================================
