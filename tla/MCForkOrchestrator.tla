------------------------- MODULE MCForkOrchestrator -------------------------
(* Small instances of ForkOrchestrator for TLC.                            *)
EXTENDS ForkOrchestrator
=============================================================================
