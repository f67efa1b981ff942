----------------------------- MODULE MCAcceptance -----------------------------
(* Instances of ReadApi, and with it of Acceptance, for TLC. *)
EXTENDS ReadApi, TLC

CONSTANTS r1, r2, r3, x1, x2

\* Two plain requests in opposite orders, one of them with a repeated id, and a
\* selection over a backlog of two pages.
MixedInput == r1 :> <<x1, x2>> @@ r2 :> <<x2, x1, x2>> @@ r3 :> <<x1, x2, x1>>
=============================================================================
