--------------------------- MODULE InvestigationRow ---------------------------
(***************************************************************************)
(* The row of one investigation in the platform database, and the updates  *)
(* the worker's repositories run on it.  Every operator is one SQL         *)
(* statement (or one decision taken from a row that was read): a row goes  *)
(* in, the row after the statement comes out.  The WHERE clause of a       *)
(* statement is an operator of its own, so that a caller can tell "no row  *)
(* matched" from an update.                                                *)
(*                                                                         *)
(* Time is abstracted to what the statements compare: a lease is "live"    *)
(* while lease_expires_at >= now() and "expired" afterwards.               *)
(***************************************************************************)
EXTENDS Naturals

CONSTANTS
    Workers,        \* the worker_id values: one for each worker process
    NoWorker,       \* worker_id IS NULL
    MaxAttempts     \* investigation_max_attempts

ASSUME NoWorkerAssumption == NoWorker \notin Workers
ASSUME MaxAttemptsAssumption == MaxAttempts \in Nat \ {0}

-----------------------------------------------------------------------------
(* The columns. *)

Status == {"queued", "processing", "completed", "failed", "absent"}
TerminalStatus == {"completed", "failed"}
Lease == {"none", "live", "expired"}

\* The analysis checkpoint, identified by the attempt that generated it and the
\* exception version it was generated from ("_exception_version").
Analysis == [attempt: Nat, version: Nat]
NoAnalysis == [attempt |-> 0, version |-> 0]

\* WriteBackOutcome, and "pending" for a NULL outcome column.
Outcome == {"pending", "written", "skipped_version_conflict",
            "skipped_disabled", "failed"}
CommentDone == {"written", "skipped_disabled"}
CodesDone == {"written", "skipped_version_conflict", "skipped_disabled"}

\* Why an attempt ended, as far as last_error_code distinguishes it.
Cause == {"transient", "permanent", "interrupted"}
ErrorCode == Cause \cup {"none", "max_deliver_exceeded"}

Row == [status: Status, worker: Workers \cup {NoWorker}, lease: Lease,
        attempts: Nat, analysis: Analysis, codes: Outcome, comment: Outcome,
        error: ErrorCode]

\* What the orchestrator inserts.
NewRow == [status |-> "queued", worker |-> NoWorker, lease |-> "none",
           attempts |-> 0, analysis |-> NoAnalysis, codes |-> "pending",
           comment |-> "pending", error |-> "none"]

-----------------------------------------------------------------------------
(* Claiming and owning. *)

Claimable(r) ==
    \/ r.status = "queued"
    \/ r.status = "processing" /\ r.lease = "expired"

Claimed(r, w) ==
    [r EXCEPT !.status = "processing", !.worker = w, !.lease = "live",
              !.attempts = @ + 1]

\* Fault: the update does not compare the worker.
OwnedByAnyone(r, w) == r.status = "processing"

\* The WHERE clause every later update of the claiming worker carries.
OwnedBy(r, w) == r.status = "processing" /\ r.worker = w

LeaseExtended(r) == [r EXCEPT !.lease = "live"]

-----------------------------------------------------------------------------
(* Checkpoints. *)

AnalysisPersisted(r, analysis) == [r EXCEPT !.analysis = analysis]
CodesRecorded(r, outcome) == [r EXCEPT !.codes = outcome]
CommentRecorded(r, outcome) == [r EXCEPT !.comment = outcome]

Completed(r) ==
    [r EXCEPT !.status = "completed", !.worker = NoWorker, !.lease = "none"]

-----------------------------------------------------------------------------
(* Failures. *)

\* Fault: the last attempt is counted as one that can still be repeated.
FailureTargetOffByOne(cause, attempts) ==
    IF \/ cause = "permanent"
       \/ cause = "transient" /\ attempts > MaxAttempts
    THEN "failed"
    ELSE "queued"

\* The status a failed attempt moves the investigation to.  A permanent failure
\* and the last transient one end it; an interruption by shutdown never does.
FailureTarget(cause, attempts) ==
    IF \/ cause = "permanent"
       \/ cause = "transient" /\ attempts >= MaxAttempts
    THEN "failed"
    ELSE "queued"

FailureAppliesTo(r, w, expected) == OwnedBy(r, w) /\ r.attempts = expected

\* Fault: the owner and its lease stay in the row.
FailureAppliedKeepingLease(r, target, cause) ==
    [r EXCEPT !.status = target, !.error = cause]

\* Fault: the next attempt starts from nothing.
FailureAppliedFromScratch(r, target, cause) ==
    [r EXCEPT !.status = target, !.worker = NoWorker, !.lease = "none",
              !.error = cause, !.analysis = NoAnalysis, !.codes = "pending",
              !.comment = "pending"]

FailureApplied(r, target, cause) ==
    [r EXCEPT !.status = target, !.worker = NoWorker, !.lease = "none",
              !.error = cause]

-----------------------------------------------------------------------------
(* The reconciler's decision on an exhausted delivery, taken under FOR UPDATE *)
(* so that the row cannot change before the mutation of the same transaction. *)

\* Fault: a row under way is left alone even after its lease has expired.
MaxDeliveryOutcomePatient(r) ==
    CASE r.status = "absent" -> "missing"
      [] r.status \in TerminalStatus -> "already_terminal"
      [] r.status = "processing" -> "deferred"
      [] OTHER -> "failed"

MaxDeliveryOutcome(r) ==
    CASE r.status = "absent" -> "missing"
      [] r.status \in TerminalStatus -> "already_terminal"
      [] r.status = "processing" /\ r.lease # "expired" -> "deferred"
      [] OTHER -> "failed"

MaxDeliveryApplied(r) ==
    IF MaxDeliveryOutcome(r) = "failed"
    THEN [r EXCEPT !.status = "failed", !.worker = NoWorker, !.lease = "none",
                   !.error = "max_deliver_exceeded"]
    ELSE r

\* Retention deletes only what was finished long ago; the row goes altogether.
Deletable(r) == r.status \in TerminalStatus
Deleted(r) == [NewRow EXCEPT !.status = "absent"]

\* A committed pass: the decision, if the row's delivery is one of the exhausted
\* ones, then the deletion of the row if it had been finished for long enough.
Reconciled(r, exhausted) ==
    {IF exhausted THEN MaxDeliveryApplied(r) ELSE r}
        \cup {Deleted(x) : x \in {y \in {r} : Deletable(y)}}
=============================================================================
