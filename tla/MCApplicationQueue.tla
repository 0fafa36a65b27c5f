-------------------------- MODULE MCApplicationQueue --------------------------
(* ApplicationQueue for TLC; the .cfg of a run gives the constants values. *)
EXTENDS ApplicationQueue, TLC

\* Workers are interchangeable: no action or property names one of them.
WorkerSymmetry == Permutations(Worker)
=============================================================================
