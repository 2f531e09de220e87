---------------------------- MODULE MCWorkerFeed ----------------------------
(* Small instances of WorkerFeed for TLC.                                  *)
EXTENDS WorkerFeed, TLC

Symmetry == Permutations(Board)
=============================================================================
