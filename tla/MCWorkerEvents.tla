---------------------------- MODULE MCWorkerEvents ----------------------------
(* Instances of WorkerEvents.  Workers are interchangeable; the symmetry is  *)
(* used only where no liveness is checked.                                   *)
EXTENDS WorkerEvents, TLC

Symmetry == Permutations(Worker)
=============================================================================
