------------------------------ MODULE MCCtcClient ------------------------------
(* Instances of CtcClient for TLC. *)
EXTENDS CtcClient, TLC

CONSTANTS r1, r2, r3

\* A read and both kinds of write.
OneOfEach == r1 :> "configuration" @@ r2 :> "comment" @@ r3 :> "codes"
=============================================================================
