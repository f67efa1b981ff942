------------------------------- MODULE MCOutbox -------------------------------
(* Instances of Outbox for TLC. *)
EXTENDS Outbox

CONSTANTS p1, p2

\* The row ids of the instances.
TwoEvents == 1..2
FirstEvent == {1}
SecondEvent == {2}

\* p1 takes one event at a time, p2 two.
OneAndTwo == [p \in {p1, p2} |-> IF p = p1 THEN 1 ELSE 2]
=============================================================================
