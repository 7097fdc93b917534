--------------------------- MODULE MCCoordinator ---------------------------
(* Two workers (interchangeable, hence the symmetry); the client submits  *)
(* up to two jobs.                                                         *)
EXTENDS Coordinator, TLC

CONSTANTS w1, w2

MCWorker == {w1, w2}

MCSymmetry == Permutations(MCWorker)
=============================================================================
