---------------------------- MODULE MCOrchestrator ----------------------------
(* Instances of Orchestrator for TLC. *)
EXTENDS Orchestrator, TLC

CONSTANTS c1, c2, k1, k2

\* Exchanging the calls changes nothing.
SwapCalls == Permutations({c1, c2})
=============================================================================
