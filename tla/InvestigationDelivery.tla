------------------------ MODULE InvestigationDelivery ------------------------
(***************************************************************************)
(* One investigation from the moment its event is on the work queue to the *)
(* moment its row is retired: the JetStream deliveries, the handler that   *)
(* claims and runs each of them, the heartbeat beside it, the failure      *)
(* recorder, the drain of a stopping worker, and the reconciler that deals *)
(* with deliveries the queue has given up on.                              *)
(*                                                                         *)
(* Investigations share no row and no message, so one of them is modelled. *)
(* A handler is one slot for a running delivery of one worker; handlers    *)
(* of the same worker carry the same worker_id.                            *)
(***************************************************************************)
EXTENDS InvestigationRow

CONSTANTS
    Handlers,       \* delivery slots
    WorkerOf,       \* the worker a handler runs in
    Messages,       \* stream messages for the event: more than one when the
                    \* outbox published it again outside the duplicate window
    NoMessage,
    MaxDeliver,     \* max_deliver of the consumer
    CodesWorkers,   \* workers deployed with codes write-back enabled
    CommentWorkers, \* workers deployed with comment write-back enabled
    Fallible,       \* workers that may crash or be stopped
    ReliableAdvisories, \* every running worker receives every advisory
    MaxRestarts,    \* bound: times a worker goes down
    MaxEdits        \* bound: edits of the exception by other CTC users

ASSUME WorkerOfAssumption == WorkerOf \in [Handlers -> Workers]
ASSUME MessageAssumption == NoMessage \notin Messages
ASSUME MaxDeliverAssumption == MaxDeliver \in Nat /\ MaxDeliver > MaxAttempts
ASSUME DeploymentAssumption ==
    /\ CodesWorkers \subseteq Workers
    /\ CommentWorkers \subseteq Workers
    /\ Fallible \subseteq Workers
    /\ ReliableAdvisories \in BOOLEAN
ASSUME BoundAssumption == MaxRestarts \in Nat /\ MaxEdits \in Nat

VARIABLES
    row,        \* the investigation's row
    ctc,        \* the exception in CTC: version, codes and comments written
    patches,    \* code updates sent to CTC and not yet processed by it
    message,    \* the stream's view of each message
    delivered,  \* deliveries of each message so far
    pc,         \* where each handler is
    task,       \* the local state of each handler
    life,       \* is a worker up, draining or down
    restarts,   \* how often a worker went down
    notices,    \* exhausted messages a worker was told of and has not settled
    batch,      \* the notices its reconciler's current pass works on
    cleanup     \* the messages that pass still has to delete

ctcVars == <<ctc, patches>>
queueVars == <<message, delivered>>
handlerVars == <<pc, task>>
workerVars == <<life, restarts>>
reconcilerVars == <<notices, batch, cleanup>>
vars == <<row, ctc, patches, message, delivered, pc, task, life, restarts,
          notices, batch, cleanup>>

-----------------------------------------------------------------------------
(* State. *)

MessageState == {"available", "outstanding", "exhausted", "gone"}

\* The stages of InvestigateException.execute, during which a heartbeat runs.
OwnedRun == {"load", "gather", "analyze", "persist", "codes", "codes_sent",
             "record_codes", "comment", "record_comment", "complete"}
Stage == OwnedRun \cup {"idle", "claim", "unclaimed", "read_failure",
                        "apply_failure", "ack", "nak", "term"}

\* The snapshot of the checkpoints that _load_owned returns.
Seen == [analysis: Analysis, codes: Outcome, comment: Outcome]

Task == [msg: Messages \cup {NoMessage},
         attempt: Nat,          \* claimed.attempt_count
         seen: Seen,            \* state
         version: Nat,          \* source_data.exception_version
         analysis: Analysis,    \* analysis
         outcome: Outcome,      \* result.outcome of the last write-back call
         cause: Cause,          \* the classified failure
         expected: Nat]         \* expected_attempt_count of the mutation

IdleTask == [msg |-> NoMessage, attempt |-> 0,
             seen |-> [analysis |-> NoAnalysis, codes |-> "pending",
                       comment |-> "pending"],
             version |-> 0, analysis |-> NoAnalysis, outcome |-> "pending",
             cause |-> "transient", expected |-> 0]

\* A code update on the wire: who waits for the answer, and what it writes.
Patch == [handler: Handlers, attempt: Nat, version: Nat, analysis: Analysis]

\* The exception as CTC holds it: its version, the analysis whose codes it
\* carries, how often this system's codes and comments were written.
Ctc == [version: Nat, codes: Analysis, writes: Nat, comments: Nat, edits: Nat]

Running(w) == life[w] \in {"up", "draining"}

Init ==
    /\ row = NewRow
    /\ ctc = [version |-> 1, codes |-> NoAnalysis, writes |-> 0,
              comments |-> 0, edits |-> 0]
    /\ patches = {}
    /\ message = [m \in Messages |-> "available"]
    /\ delivered = [m \in Messages |-> 0]
    /\ pc = [h \in Handlers |-> "idle"]
    /\ task = [h \in Handlers |-> IdleTask]
    /\ life = [w \in Workers |-> "up"]
    /\ restarts = 0
    /\ notices = [w \in Workers |-> {}]
    /\ batch = [w \in Workers |-> {}]
    /\ cleanup = [w \in Workers |-> {}]

-----------------------------------------------------------------------------
(* How a stage ends. *)

Goto(h, stage) ==
    /\ pc' = [pc EXCEPT ![h] = stage]
    /\ UNCHANGED task

\* execute returned or raised: its locals are gone, the delivery remains.
Leave(h, stage) ==
    /\ pc' = [pc EXCEPT ![h] = stage]
    /\ task' = [task EXCEPT ![h] = [IdleTask EXCEPT !.msg = task[h].msg]]

\* The action raised an error; the handler goes on to record it.
Fail(h, cause) ==
    /\ pc' = [pc EXCEPT ![h] = "read_failure"]
    /\ task' = [task EXCEPT ![h] = [IdleTask EXCEPT !.msg = task[h].msg,
                                                   !.cause = cause]]

\* InvestigationOwnershipLostError: nothing is recorded, the delivery is nakked.
Lose(h) == Leave(h, "nak")

Owns(h) == OwnedBy(row, WorkerOf[h])

\* A checkpoint transaction: an update guarded by _owned_update and a commit.
\* The connection may break with the commit's effect unknown to the handler.
Store(h, updated, continue) ==
    \/ /\ Owns(h)
       /\ row' = updated
       /\ continue
    \/ /\ row' \in (IF Owns(h) THEN {row, updated} ELSE {row})
       /\ Fail(h, "transient")
    \/ /\ ~Owns(h)
       /\ Lose(h)
       /\ UNCHANGED row

-----------------------------------------------------------------------------
(* The work queue (JetStream). *)

\* A message that is due again: once more, or never and an advisory instead.
\* An advisory is a plain publication; a worker that is not subscribed when it
\* is sent, or loses its connection, never hears of it.
Redeliver(m) ==
    IF delivered[m] < MaxDeliver
    THEN /\ message' = [message EXCEPT ![m] = "available"]
         /\ UNCHANGED notices
    ELSE /\ message' = [message EXCEPT ![m] = "exhausted"]
         /\ \E listeners \in SUBSET {w \in Workers : Running(w)} :
                /\ ReliableAdvisories => {w \in Workers : life[w] = "up"} \subseteq listeners
                /\ notices' = [w \in Workers |->
                                 IF w \in listeners THEN notices[w] \cup {m}
                                                    ELSE notices[w]]

AckWaitExpires(m) ==
    /\ message[m] = "outstanding"
    /\ Redeliver(m)
    /\ UNCHANGED <<row, ctcVars, delivered, handlerVars, workerVars, batch, cleanup>>

\* The admission loop of an up worker fetches a message into a free slot.
Fetch(h, m) ==
    /\ life[WorkerOf[h]] = "up"
    /\ pc[h] = "idle"
    /\ message[m] = "available"
    /\ message' = [message EXCEPT ![m] = "outstanding"]
    /\ delivered' = [delivered EXCEPT ![m] = @ + 1]
    /\ pc' = [pc EXCEPT ![h] = "claim"]
    /\ task' = [task EXCEPT ![h].msg = m]
    /\ UNCHANGED <<row, ctcVars, workerVars, reconcilerVars>>

\* The handler answers its delivery and ends.  The answer names the message by
\* its stream sequence, so the server applies it to whatever delivery of that
\* message is outstanding by then; it may also be lost on the way.
Answer(h) ==
    /\ pc' = [pc EXCEPT ![h] = "idle"]
    /\ task' = [task EXCEPT ![h] = IdleTask]
    /\ UNCHANGED <<row, ctcVars, delivered, workerVars, batch, cleanup>>

Remove(h) ==
    /\ pc[h] \in {"ack", "term"}
    /\ Answer(h)
    /\ message' = [message EXCEPT ![task[h].msg] = "gone"]
    /\ UNCHANGED notices

Nak(h) ==
    /\ pc[h] = "nak"
    /\ Answer(h)
    /\ message[task[h].msg] = "outstanding"
    /\ Redeliver(task[h].msg)

AnswerLost(h) ==
    /\ pc[h] \in {"ack", "nak", "term"}
    /\ Answer(h)
    /\ UNCHANGED <<message, notices>>

-----------------------------------------------------------------------------
(* Claiming a delivery. *)

ClaimWins(h) ==
    /\ pc[h] = "claim"
    /\ Claimable(row)
    /\ row' = Claimed(row, WorkerOf[h])
    /\ pc' = [pc EXCEPT ![h] = "load"]
    /\ task' = [task EXCEPT ![h].attempt = row.attempts + 1]
    /\ UNCHANGED <<ctcVars, queueVars, workerVars, reconcilerVars>>

ClaimRefused(h) ==
    /\ pc[h] = "claim"
    /\ ~Claimable(row)
    /\ Goto(h, "unclaimed")
    /\ UNCHANGED <<row, ctcVars, queueVars, workerVars, reconcilerVars>>

\* The database failed, possibly after the claim was committed.
ClaimFails(h) ==
    /\ pc[h] = "claim"
    /\ row' \in (IF Claimable(row) THEN {row, Claimed(row, WorkerOf[h])} ELSE {row})
    /\ Leave(h, "nak")
    /\ UNCHANGED <<ctcVars, queueVars, workerVars, reconcilerVars>>

\* Fault: a refused claim means that someone else takes care of the message.
UnclaimedAcked(h) ==
    /\ pc[h] = "unclaimed"
    /\ Leave(h, "ack")
    /\ UNCHANGED <<row, ctcVars, queueVars, workerVars, reconcilerVars>>

\* _handle_unclaimed reads the row again: what refused the claim may be over.
Unclaimed(h) ==
    /\ pc[h] = "unclaimed"
    /\ \/ /\ row.status \in TerminalStatus \cup {"absent"}
          /\ Leave(h, "ack")
       \/ Leave(h, "nak") /\ row.status \notin TerminalStatus \cup {"absent"}
       \/ Leave(h, "nak")    \* the lookup failed
    /\ UNCHANGED <<row, ctcVars, queueVars, workerVars, reconcilerVars>>

-----------------------------------------------------------------------------
(* The investigation itself, with the failures each stage can raise. *)

Load(h) ==
    /\ pc[h] = "load"
    /\ \/ /\ row.status # "absent"
          /\ row.worker = WorkerOf[h]
          /\ LET seen == [analysis |-> row.analysis, codes |-> row.codes,
                          comment |-> row.comment]
                 rejected == \/ seen.comment = "failed"
                             \/ seen.comment # "pending" /\ seen.codes = "failed"
                 done == seen.comment \in CommentDone /\ seen.codes \in CodesDone
             IN  \/ rejected /\ Fail(h, "permanent")
                 \/ /\ ~rejected
                    /\ pc' = [pc EXCEPT ![h] = IF done THEN "complete" ELSE "gather"]
                    /\ task' = [task EXCEPT ![h].seen = seen]
       \/ row.status = "absent" /\ Fail(h, "permanent")
       \/ row.status # "absent" /\ row.worker # WorkerOf[h] /\ Lose(h)
       \/ Fail(h, "transient")
    /\ UNCHANGED <<row, ctcVars, queueVars, workerVars, reconcilerVars>>

\* Fault: the persisted analysis is not looked at.
GatherAnew(h) ==
    /\ pc[h] = "gather"
    /\ \/ /\ pc' = [pc EXCEPT ![h] = "analyze"]
          /\ task' = [task EXCEPT ![h].version = ctc.version]
       \/ \E cause \in {"transient", "permanent"} : Fail(h, cause)
    /\ UNCHANGED <<row, ctcVars, queueVars, workerVars, reconcilerVars>>

\* Resolve the control context, fetch the exception, and restore the analysis
\* of an earlier attempt when the snapshot carries one.
Gather(h) ==
    /\ pc[h] = "gather"
    /\ \/ LET restored == task[h].seen.analysis
          IN  /\ pc' = [pc EXCEPT ![h] = IF restored # NoAnalysis THEN "codes"
                                                                  ELSE "analyze"]
              /\ task' = [task EXCEPT ![h].version = ctc.version,
                                      ![h].analysis = restored]
       \/ \E cause \in {"transient", "permanent"} : Fail(h, cause)
    /\ UNCHANGED <<row, ctcVars, queueVars, workerVars, reconcilerVars>>

\* Run the analyst, validate its answer and upload the report.
Analyze(h) ==
    /\ pc[h] = "analyze"
    /\ \/ /\ pc' = [pc EXCEPT ![h] = "persist"]
          /\ task' = [task EXCEPT ![h].analysis = [attempt |-> task[h].attempt,
                                                   version |-> task[h].version]]
       \/ \E cause \in {"transient", "permanent"} : Fail(h, cause)
    /\ UNCHANGED <<row, ctcVars, queueVars, workerVars, reconcilerVars>>

Persist(h) ==
    /\ pc[h] = "persist"
    /\ Store(h, AnalysisPersisted(row, task[h].analysis), Goto(h, "codes"))
    /\ UNCHANGED <<ctcVars, queueVars, workerVars, reconcilerVars>>

\* Fault: the update is always conditional on the version fetched last.
CodesVersionFetched(t) == t.version

\* The version a code update is conditional on: the analysed one if the snapshot
\* has a persisted analysis, else the one just fetched.
CodesVersion(t) ==
    IF t.seen.analysis # NoAnalysis THEN t.seen.analysis.version ELSE t.version

\* A step whose outcome the snapshot carries is not run again; a rejected outcome
\* fails the investigation again.
Resume(h, recorded, done, stage) ==
    /\ recorded # "pending"
    /\ IF recorded \in done THEN Goto(h, stage) ELSE Fail(h, "permanent")

WriteCodes(h) ==
    /\ pc[h] = "codes"
    /\ \/ /\ Resume(h, task[h].seen.codes, CodesDone, "comment")
          /\ UNCHANGED patches
       \/ /\ task[h].seen.codes = "pending"
          /\ WorkerOf[h] \notin CodesWorkers
          /\ pc' = [pc EXCEPT ![h] = "record_codes"]
          /\ task' = [task EXCEPT ![h].outcome = "skipped_disabled"]
          /\ UNCHANGED patches
       \/ /\ task[h].seen.codes = "pending"
          /\ WorkerOf[h] \in CodesWorkers
          /\ Goto(h, "codes_sent")
          /\ patches' = patches \cup
                {[handler |-> h, attempt |-> task[h].attempt,
                  version |-> CodesVersion(task[h]),
                  analysis |-> task[h].analysis]}
    /\ UNCHANGED <<row, ctc, queueVars, workerVars, reconcilerVars>>

\* CTC answers an update.  If its sender has stopped waiting (timed out, was
\* cancelled or died) the update takes effect all the same.
CtcAnswers(p, outcome) ==
    /\ patches' = patches \ {p}
    /\ IF pc[p.handler] = "codes_sent" /\ task[p.handler].attempt = p.attempt
       THEN /\ pc' = [pc EXCEPT ![p.handler] = "record_codes"]
            /\ task' = [task EXCEPT ![p.handler].outcome = outcome]
       ELSE UNCHANGED handlerVars
    /\ UNCHANGED <<row, queueVars, workerVars, reconcilerVars>>

CtcAccepts(p) ==
    /\ p.version = ctc.version
    /\ ctc' = [ctc EXCEPT !.version = @ + 1, !.codes = p.analysis,
                          !.writes = @ + 1]
    /\ CtcAnswers(p, "written")

CtcRefuses(p) ==
    /\ \/ p.version # ctc.version /\ CtcAnswers(p, "skipped_version_conflict")
       \/ CtcAnswers(p, "failed")
    /\ UNCHANGED ctc

\* Fault: an update that was sent counts as written.
CodesAssumedWritten(h) ==
    /\ pc[h] = "codes_sent"
    /\ pc' = [pc EXCEPT ![h] = "record_codes"]
    /\ task' = [task EXCEPT ![h].outcome = "written"]
    /\ UNCHANGED <<row, ctcVars, queueVars, workerVars, reconcilerVars>>

\* No usable answer (transport error, 429, 5xx): the update may still land.
CodesUnanswered(h) ==
    /\ pc[h] = "codes_sent"
    /\ Fail(h, "transient")
    /\ UNCHANGED <<row, ctcVars, queueVars, workerVars, reconcilerVars>>

\* Fault: the recorded outcome is not looked at again.
AfterAnyOutcome(h, stage) == Goto(h, stage)

\* A rejected write-back is recorded first and only then raised.
AfterOutcome(h, stage) ==
    IF task[h].outcome = "failed" THEN Fail(h, "permanent") ELSE Goto(h, stage)

RecordCodes(h) ==
    /\ pc[h] = "record_codes"
    /\ Store(h, CodesRecorded(row, task[h].outcome), AfterOutcome(h, "comment"))
    /\ UNCHANGED <<ctcVars, queueVars, workerVars, reconcilerVars>>

\* Fault: the POST is repeated within the attempt.
CommentPostedAgain(h) == Goto(h, "comment")

CommentUnanswered(h) == Fail(h, "transient")

\* The POST takes effect or not, and its answer arrives or not.
WriteComment(h) ==
    /\ pc[h] = "comment"
    /\ IF task[h].seen.comment = "pending" /\ WorkerOf[h] \in CommentWorkers
       THEN \E posted \in BOOLEAN :
              /\ ctc' = [ctc EXCEPT !.comments = IF posted THEN @ + 1 ELSE @]
              /\ \/ /\ pc' = [pc EXCEPT ![h] = "record_comment"]
                    /\ task' = [task EXCEPT ![h].outcome =
                                  IF posted THEN "written" ELSE "failed"]
                 \/ CommentUnanswered(h)
       ELSE /\ \/ Resume(h, task[h].seen.comment, CommentDone, "complete")
               \/ /\ task[h].seen.comment = "pending"
                  /\ pc' = [pc EXCEPT ![h] = "record_comment"]
                  /\ task' = [task EXCEPT ![h].outcome = "skipped_disabled"]
            /\ UNCHANGED ctc
    /\ UNCHANGED <<row, patches, queueVars, workerVars, reconcilerVars>>

RecordComment(h) ==
    /\ pc[h] = "record_comment"
    /\ Store(h, CommentRecorded(row, task[h].outcome), AfterOutcome(h, "complete"))
    /\ UNCHANGED <<ctcVars, queueVars, workerVars, reconcilerVars>>

\* When the heartbeat sees the finished row before the handler sees the action's
\* result, its "ownership lost" wins and the delivery is nakked, not acked.
Complete(h) ==
    /\ pc[h] = "complete"
    /\ Store(h, Completed(row), Leave(h, "ack") \/ Leave(h, "nak"))
    /\ UNCHANGED <<ctcVars, queueVars, workerVars, reconcilerVars>>

-----------------------------------------------------------------------------
(* The heartbeat, concurrent with every stage above. *)

\* An owned row's lease is set anew, even if it had expired meanwhile.
Heartbeat(h) ==
    /\ pc[h] \in OwnedRun
    /\ \/ Owns(h) /\ row' = LeaseExtended(row) /\ UNCHANGED handlerVars
       \/ ~Owns(h) /\ Lose(h) /\ UNCHANGED row
       \/ /\ ~(Owns(h) /\ row.lease = "live")   \* database down past the lease
          /\ Lose(h)
          /\ UNCHANGED row
    /\ UNCHANGED <<ctcVars, queueVars, workerVars, reconcilerVars>>

LeaseExpires ==
    /\ row.lease = "live"
    /\ row' = [row EXCEPT !.lease = "expired"]
    /\ UNCHANGED <<ctcVars, queueVars, handlerVars, workerVars, reconcilerVars>>

-----------------------------------------------------------------------------
(* Recording a failure: a read and, in a second statement, a conditional update. *)

ReadFailure(h) ==
    /\ pc[h] = "read_failure"
    /\ \/ /\ Owns(h)
          /\ pc' = [pc EXCEPT ![h] = "apply_failure"]
          /\ task' = [task EXCEPT ![h].expected = row.attempts]
       \/ ~Owns(h) /\ Lose(h)
       \/ Leave(h, "nak")    \* the database failed
    /\ UNCHANGED <<row, ctcVars, queueVars, workerVars, reconcilerVars>>

ApplyFailure(h) ==
    LET target == FailureTarget(task[h].cause, task[h].expected)
        applied == FailureApplied(row, target, task[h].cause)
        applies == FailureAppliesTo(row, WorkerOf[h], task[h].expected)
    IN  /\ pc[h] = "apply_failure"
        /\ \/ /\ applies
              /\ row' = applied
              /\ Leave(h, IF target = "failed" THEN "term" ELSE "nak")
           \/ ~applies /\ Lose(h) /\ UNCHANGED row
           \/ /\ row' \in (IF applies THEN {row, applied} ELSE {row})
              /\ Leave(h, "nak")     \* the database failed
        /\ UNCHANGED <<ctcVars, queueVars, workerVars, reconcilerVars>>

-----------------------------------------------------------------------------
(* Workers stop and crash. *)

Active(w) == {h \in Handlers : WorkerOf[h] = w /\ pc[h] # "idle"}

GoingDown(w) ==
    /\ w \in Fallible
    /\ restarts < MaxRestarts
    /\ restarts' = restarts + 1

\* The shutdown grace period is over: every running handler is cancelled at
\* whatever stage it is, then its investigation is released and nakked.
Drain(w) ==
    /\ life[w] = "up"
    /\ GoingDown(w)
    /\ life' = [life EXCEPT ![w] = "draining"]
    /\ pc' = [h \in Handlers |-> IF h \in Active(w) THEN "read_failure" ELSE pc[h]]
    /\ task' = [h \in Handlers |->
                  IF h \in Active(w) THEN [IdleTask EXCEPT !.msg = task[h].msg,
                                                         !.cause = "interrupted"]
                                     ELSE task[h]]
    /\ UNCHANGED <<row, ctcVars, queueVars, reconcilerVars>>

\* What the process held in memory is gone: handlers, notices, the pass.
Down(w) ==
    /\ life' = [life EXCEPT ![w] = "down"]
    /\ pc' = [h \in Handlers |-> IF WorkerOf[h] = w THEN "idle" ELSE pc[h]]
    /\ task' = [h \in Handlers |-> IF WorkerOf[h] = w THEN IdleTask ELSE task[h]]
    /\ notices' = [notices EXCEPT ![w] = {}]
    /\ batch' = [batch EXCEPT ![w] = {}]
    /\ cleanup' = [cleanup EXCEPT ![w] = {}]
    /\ UNCHANGED <<row, ctcVars, queueVars>>

Crash(w) == life[w] = "up" /\ GoingDown(w) /\ Down(w)

\* The drained process exits.  It may leave handlers unreleased: an error while
\* releasing one ends the loop over the others.
Exit(w) == life[w] = "draining" /\ Down(w) /\ UNCHANGED restarts

Restart(w) ==
    /\ life[w] = "down"
    /\ life' = [life EXCEPT ![w] = "up"]
    /\ UNCHANGED <<row, ctcVars, queueVars, handlerVars, restarts, reconcilerVars>>

-----------------------------------------------------------------------------
(* The reconciler of each worker. *)

\* A pass looks up each pending sequence; one that left the stream is dropped.
Receive(w) ==
    /\ Running(w)
    /\ batch[w] = {} /\ cleanup[w] = {}
    /\ notices[w] # {}
    /\ LET found == {m \in notices[w] : message[m] # "gone"}
       IN  /\ notices' = [notices EXCEPT ![w] = found]
           /\ batch' = [batch EXCEPT ![w] = found]
    /\ UNCHANGED <<row, ctcVars, queueVars, handlerVars, workerVars, cleanup>>

\* Fault: only a row that this pass failed has its messages cleaned up.
ReconcileCommitsOwnFailures(w) ==
    /\ Running(w)
    /\ row' \in Reconciled(row, batch[w] # {})
    /\ batch' = [batch EXCEPT ![w] = {}]
    /\ cleanup' = [cleanup EXCEPT ![w] =
                     IF MaxDeliveryOutcome(row) = "failed" THEN @ \cup batch[w] ELSE @]
    /\ UNCHANGED <<ctcVars, queueVars, handlerVars, workerVars, notices>>

\* The transaction of a pass, with or without notices: decide under a row lock,
\* apply, delete what retention allows, commit.
ReconcileCommits(w) ==
    /\ Running(w)
    /\ row' \in Reconciled(row, batch[w] # {})
    /\ batch' = [batch EXCEPT ![w] = {}]
    /\ cleanup' = [cleanup EXCEPT ![w] =
                     IF MaxDeliveryOutcome(row) = "deferred" THEN @ ELSE @ \cup batch[w]]
    /\ UNCHANGED <<ctcVars, queueVars, handlerVars, workerVars, notices>>

\* The commit fails, or its result does not arrive: the pass ends there.
ReconcileFails(w) ==
    /\ Running(w)
    /\ batch[w] # {}
    /\ row' \in {row} \cup Reconciled(row, TRUE)
    /\ batch' = [batch EXCEPT ![w] = {}]
    /\ UNCHANGED <<ctcVars, queueVars, handlerVars, workerVars, notices, cleanup>>

DeleteMessage(w, m) ==
    /\ Running(w)
    /\ m \in cleanup[w]
    /\ cleanup' = [cleanup EXCEPT ![w] = @ \ {m}]
    /\ message' = [message EXCEPT ![m] = "gone"]
    /\ notices' = [notices EXCEPT ![w] = @ \ {m}]
    /\ UNCHANGED <<row, ctcVars, delivered, handlerVars, workerVars, batch>>

\* A failed deletion is logged and leaves the notice for the next pass.
DeleteFails(w, m) ==
    /\ Running(w)
    /\ m \in cleanup[w]
    /\ cleanup' = [cleanup EXCEPT ![w] = @ \ {m}]
    /\ UNCHANGED <<row, ctcVars, queueVars, handlerVars, workerVars, notices, batch>>

-----------------------------------------------------------------------------
\* Someone else changes the exception in CTC.
ExternalEdit ==
    /\ ctc.edits < MaxEdits
    /\ ctc' = [ctc EXCEPT !.version = @ + 1, !.edits = @ + 1]
    /\ UNCHANGED <<row, patches, queueVars, handlerVars, workerVars, reconcilerVars>>

HandlerStep(h) ==
    \/ ClaimWins(h) \/ ClaimRefused(h) \/ ClaimFails(h) \/ Unclaimed(h)
    \/ Load(h) \/ Gather(h) \/ Analyze(h) \/ Persist(h)
    \/ WriteCodes(h) \/ CodesUnanswered(h) \/ RecordCodes(h)
    \/ WriteComment(h) \/ RecordComment(h) \/ Complete(h)
    \/ ReadFailure(h) \/ ApplyFailure(h)
    \/ Remove(h) \/ Nak(h) \/ AnswerLost(h)

ReconcilerStep(w) ==
    \/ Receive(w) \/ ReconcileCommits(w) \/ ReconcileFails(w)
    \/ \E m \in Messages : DeleteMessage(w, m) \/ DeleteFails(w, m)

Next ==
    \/ \E h \in Handlers : HandlerStep(h) \/ Heartbeat(h)
    \/ \E h \in Handlers, m \in Messages : Fetch(h, m)
    \/ \E p \in patches : CtcAccepts(p) \/ CtcRefuses(p)
    \/ \E w \in Workers : Drain(w) \/ Crash(w) \/ Exit(w) \/ Restart(w)
    \/ \E w \in Workers : ReconcilerStep(w)
    \/ \E m \in Messages : AckWaitExpires(m)
    \/ LeaseExpires
    \/ ExternalEdit

Spec == Init /\ [][Next]_vars

\* Fairness.  A handler's stage ends (every call has a timeout), the server's and
\* the database's clocks advance, an up worker with a free slot fetches, and the
\* reconciler's interval elapses.  A transaction or a deletion that is tried again
\* on every pass succeeds some day; no worker has to come back after going down.
Fairness ==
    /\ \A h \in Handlers : WF_vars(HandlerStep(h))
    /\ \A m \in Messages :
         /\ WF_vars(AckWaitExpires(m))
         /\ WF_vars(\E h \in Handlers : Fetch(h, m))
    /\ WF_vars(LeaseExpires)
    /\ \A w \in Workers :
         /\ WF_vars(Receive(w))
         /\ SF_vars(batch[w] # {} /\ ReconcileCommits(w))
         /\ \A m \in Messages : SF_vars(DeleteMessage(w, m))

FairSpec == Spec /\ Fairness

-----------------------------------------------------------------------------
(* Safety. *)

\* Every variable has its type; the records of the row, the tasks and the patches
\* hold what the columns and locals of the code can hold.
TypeOK ==
    /\ row \in Row
    /\ ctc \in Ctc
    /\ patches \subseteq Patch
    /\ message \in [Messages -> MessageState]
    /\ delivered \in [Messages -> Nat]
    /\ pc \in [Handlers -> Stage]
    /\ task \in [Handlers -> Task]
    /\ life \in [Workers -> {"up", "draining", "down"}]
    /\ restarts \in Nat
    /\ notices \in [Workers -> SUBSET Messages]
    /\ batch \in [Workers -> SUBSET Messages]
    /\ cleanup \in [Workers -> SUBSET Messages]

\* No message of an investigation leaves the stream before its row is finished:
\* not by an ack, a term or a clean-up, whoever finished the row and whichever
\* delivery of the message is answered.
NoWorkLost ==
    row.status \in {"queued", "processing"} =>
        \A m \in Messages : message[m] # "gone"

\* A completed investigation has its analysis and two successful write-back
\* outcomes; neither a restored checkpoint nor a rejected write slips through.
CompletedIsWritten ==
    row.status = "completed" =>
        /\ row.analysis # NoAnalysis
        /\ row.codes \in CodesDone
        /\ row.comment \in CommentDone

\* The verdict on a transient failure fits the attempts the row has used, although
\* it was reached from a row read in an earlier statement: requeued with an
\* attempt left, failed with none.
VerdictMatchesAttempts ==
    row.error = "transient" =>
        /\ row.status = "queued" => row.attempts < MaxAttempts
        /\ row.status = "failed" => row.attempts >= MaxAttempts

\* A code update is conditional on the version its analysis was made from, also
\* when the analysis is that of an earlier attempt and the exception was fetched
\* again since: codes never overwrite an edit the analysis has not seen.
CodesFollowTheEvidence ==
    \A p \in patches : p.version = p.analysis.version

\* An outcome recorded as written has happened in CTC.  (The converse fails: a
\* write whose answer is lost is recorded as a conflict by the next attempt.)
RecordedWritesHappened ==
    /\ row.codes = "written" => ctc.writes > 0
    /\ row.comment = "written" => ctc.comments > 0

\* Duplicate comments are bounded: one POST for each attempt at most.
OneCommentPerAttempt ==
    row.status # "absent" => ctc.comments <= row.attempts

\* However often the update is sent, by whichever attempt, and however late it
\* arrives, CTC applies the codes of this investigation once.
CodesWrittenOnce == ctc.writes <= 1

\* The codes that CTC carries are those of the analysis the row reports.
WrittenCodesAreReported ==
    ctc.codes # NoAnalysis /\ row.status # "absent" => ctc.codes = row.analysis

\* A handler whose worker owns the row runs the attempt the row counts, and what
\* it loaded and did since is what the row holds: no one else wrote in between.
OwnerSeesTheRow ==
    \A h \in Handlers :
        pc[h] \in OwnedRun /\ row.status = "processing" /\ row.worker = WorkerOf[h] =>
            /\ row.attempts = task[h].attempt
            /\ pc[h] \in {"gather", "analyze", "persist"} =>
                  row.analysis = task[h].seen.analysis
            /\ pc[h] \in {"codes", "codes_sent", "record_codes"} =>
                  row.analysis = task[h].analysis /\ row.codes = task[h].seen.codes
            /\ pc[h] \in {"comment", "record_comment"} =>
                  row.codes \in CodesDone /\ row.comment = task[h].seen.comment

\* A row is owned and leased while it is being processed, and at no other time.
OwnershipConsistent ==
    /\ row.status = "processing" <=> row.worker # NoWorker
    /\ row.status = "processing" <=> row.lease # "none"

\* Nothing changes a finished row but its deletion: neither a stale handler, nor
\* a late failure, nor the reconciler of a worker that heard of it earlier.
TerminalIsFinal ==
    [][row.status \in TerminalStatus => row' \in {row, Deleted(row)}]_row

-----------------------------------------------------------------------------
(* Liveness. *)

\* The investigation is decided: some attempt completes or fails it, or its
\* deliveries run out and a reconciler fails it.
EventuallyDecided == <>(row.status \in TerminalStatus \cup {"absent"})

\* The work queue gets rid of every message of the investigation for good.
StreamDrains == <>[](\A m \in Messages : message[m] = "gone")

-----------------------------------------------------------------------------
Lifecycle == INSTANCE InvestigationLifecycle WITH
    status <- row.status,
    attempts <- row.attempts,
    analysis <- row.analysis,
    codes <- row.codes,
    comment <- row.comment

\* The deliveries implement the lifecycle the clients rely on: attempts, failures,
\* crashes and reconciliation never undo or repeat a recorded step.
LifecycleImplemented == Lifecycle!LifecycleSpec

\* Runs of one process that hold the investigation at once may repeat a step, but
\* they too record it in its turn, and what is recorded is never lost.
ProgressImplemented == Lifecycle!ProgressSpec
=============================================================================
