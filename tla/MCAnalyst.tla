------------------------------ MODULE MCAnalyst ------------------------------
(* The instance of Analyst for TLC: two tool calls in one message. *)
EXTENDS Analyst

CONSTANTS c1, c2
=============================================================================
