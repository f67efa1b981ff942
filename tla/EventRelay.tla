------------------------------ MODULE EventRelay ------------------------------
(***************************************************************************)
(* What the outbox promises to the transactions that write events and to   *)
(* the workers that read the stream, whatever publishers there are: an     *)
(* event goes to the stream only after it was committed, counts as         *)
(* published only when it is there, and never goes back.                   *)
(***************************************************************************)
EXTENDS Naturals

CONSTANTS Events, Timely

VARIABLES store, copies, remembered

relay == <<store, copies, remembered>>

RelayInit ==
    /\ store = [e \in Events |-> "none"]
    /\ copies = [e \in Events |-> 0]
    /\ remembered = {}

Moves(sent, from, to) ==
    /\ \A e \in sent : store[e] = from
    /\ store' = [e \in Events |-> IF e \in sent THEN to ELSE store[e]]
    /\ UNCHANGED <<copies, remembered>>

Write(e) == Moves({e}, "none", "pending")

\* Once or more often, even after it counts as published.
Send(e) ==
    /\ store[e] # "none"
    /\ copies' = IF e \in remembered THEN copies ELSE [copies EXCEPT ![e] = @ + 1]
    /\ remembered' = remembered \cup {e}
    /\ UNCHANGED store

Publish(sent) == (\A e \in sent : copies[e] > 0) /\ Moves(sent, "pending", "published")

Delete(e) == Moves({e}, "published", "deleted")

ForgetId(e) ==
    /\ e \notin Timely
    /\ remembered' = remembered \ {e}
    /\ UNCHANGED <<store, copies>>

RelayNext ==
    \/ \E e \in Events : Write(e) \/ Send(e) \/ Delete(e) \/ ForgetId(e)
    \/ \E sent \in SUBSET Events : Publish(sent)

RelaySpec == RelayInit /\ [][RelayNext]_relay
===============================================================================
