----------------------- MODULE MCInvestigationDelivery -----------------------
(* Instances of InvestigationDelivery for TLC. *)
EXTENDS InvestigationDelivery, TLC

CONSTANTS h1, h2, w1, w2, m1, m2

\* Every handler in a worker of its own.
DistinctWorkers == h1 :> w1 @@ h2 :> w2

\* One worker with two slots.
OneProcess == h1 :> w1 @@ h2 :> w1

\* Exchanging the two workers together with their handlers changes nothing.
Swap == {w1 :> w2 @@ w2 :> w1 @@ h1 :> h2 @@ h2 :> h1}

\* Nor does exchanging the two slots of one worker.
SwapSlots == {h1 :> h2 @@ h2 :> h1}
=============================================================================
