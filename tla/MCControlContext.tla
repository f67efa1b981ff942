--------------------------- MODULE MCControlContext ---------------------------
(* Instances of ControlContext for TLC. *)
EXTENDS ControlContext, TLC

CONSTANTS c1, c2, c3, r1, r2, positions, release, prompt

\* Every call in a worker of one release.
OneRelease == [c \in Calls |-> release]
OnePrompt == [c \in Calls |-> prompt]

CallSymmetry == Permutations(Calls)
=============================================================================
