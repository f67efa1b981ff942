---------------------------- MODULE MCWorkerProcess ----------------------------
(* The instance of WorkerProcess for TLC. *)
EXTENDS WorkerProcess

(* What a provider may ask for in Retry-After.                             *)
TwoSeconds == {2}
=============================================================================
