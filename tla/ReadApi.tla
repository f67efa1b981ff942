-------------------------------- MODULE ReadApi --------------------------------
(***************************************************************************)
(* What clients read about investigations while requests are accepted and  *)
(* workers finish rows (Acceptance): the status of investigations, their   *)
(* reports, and the poll of a request.  A query is one statement; it sees  *)
(* what has been committed, so that an answer is a function of the state.  *)
(***************************************************************************)
EXTENDS Acceptance, FiniteSets

CONSTANT Unreadable     \* exceptions whose persisted analyses lack a field

ASSUME UnreadableAssumption == Unreadable \subseteq Exceptions

-----------------------------------------------------------------------------
(* Lookups by investigation. *)

Shown == {"not_found", "in_progress", "completed", "failed"}

External(row) ==
    IF status[row] = "none" THEN "not_found"
    ELSE IF status[row] = "active" THEN "in_progress" ELSE status[row]

\* _structured_analysis finds every field it requires.
Readable(row) == row.exception \notin Unreadable

\* A completed investigation is reported with its analysis, or with an error code of
\* its own; the others without either.
Report(row) ==
    [status |-> External(row),
     analysis |-> External(row) = "completed" /\ Readable(row),
     invalid |-> External(row) = "completed" /\ ~Readable(row)]

-----------------------------------------------------------------------------
(* The poll of a request. *)

Summary(r) ==
    [shown \in Shown |-> Cardinality({row \in members[r] : External(row) = shown})]

\* Fault: the ends are looked for first.
AggregateEarly(summary) ==
    IF summary["failed"] > 0 THEN "failed"
    ELSE IF summary["completed"] > 0 THEN "completed" ELSE "in_progress"

Aggregate(summary) ==
    IF summary["in_progress"] > 0 THEN "in_progress"
    ELSE IF summary["failed"] > 0 THEN "failed" ELSE "completed"

\* A client polls the id it was told.
Polled(r) ==
    IF answer[r] = "accepted" THEN Aggregate(Summary(r)) ELSE "not_found"

-----------------------------------------------------------------------------
(* Correctness. *)

Final == {"completed", "failed"}

\* Whatever other requests attach to or start: once a request or an investigation has
\* been shown as finished, every later poll and report says the same, for as long as
\* retention keeps the rows (retention is not part of this model).
AnswersSettle ==
    [][/\ \A r \in Requests : Polled(r) \in Final => Polled(r)' = Polled(r)
       /\ \A row \in Rows : External(row) \in Final => Report(row)' = Report(row)]_vars
=============================================================================
