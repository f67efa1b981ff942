--------------------- MODULE InvestigationDeliveryProofs ---------------------
(***************************************************************************)
(* Theorems about InvestigationDelivery, for all values of its constants:  *)
(* any number of handlers, workers (with or without shared identities),    *)
(* messages, attempts, restarts and edits.                                 *)
(***************************************************************************)
EXTENDS InvestigationDelivery, FiniteSetTheorems, TLAPS

-----------------------------------------------------------------------------
(* The operators on rows keep a row a row. *)

\* A row begins without an analysis.
LEMMA NoAnalysisType == NoAnalysis \in Analysis
  BY DEF NoAnalysis, Analysis

\* A row that is not there yet.
LEMMA NewRowType == NewRow \in Row
  BY NoAnalysisType DEF NewRow, Row, Status, Lease, Outcome, ErrorCode

\* claim_for_processing.
LEMMA ClaimedType ==
  ASSUME NEW r \in Row, NEW w \in Workers
  PROVE  Claimed(r, w) \in Row
  <1>1. r.attempts + 1 \in Nat
    BY DEF Row
  <1>2. QED
    BY <1>1, Zenon DEF Claimed, Row, Status, Lease

\* The heartbeat's extension, and a lease that runs out.
LEMMA LeaseType ==
  ASSUME NEW r \in Row
  PROVE  /\ LeaseExtended(r) \in Row
         /\ [r EXCEPT !.lease = "expired"] \in Row
  BY DEF LeaseExtended, Row, Lease

\* The three checkpoints of a run.
LEMMA CheckpointType ==
  ASSUME NEW r \in Row, NEW analysis \in Analysis, NEW outcome \in Outcome
  PROVE  /\ AnalysisPersisted(r, analysis) \in Row
         /\ CodesRecorded(r, outcome) \in Row
         /\ CommentRecorded(r, outcome) \in Row
  BY DEF AnalysisPersisted, CodesRecorded, CommentRecorded, Row

\* The last update of a run.
LEMMA CompletedType ==
  ASSUME NEW r \in Row
  PROVE  Completed(r) \in Row
  BY DEF Completed, Row, Status, Lease

\* A failure is retried or final.
LEMMA FailureTargetType ==
  ASSUME NEW cause, NEW attempts
  PROVE  FailureTarget(cause, attempts) \in {"queued", "failed"}
  BY DEF FailureTarget

\* apply_failure.
LEMMA FailureAppliedType ==
  ASSUME NEW r \in Row, NEW target \in {"queued", "failed"}, NEW cause \in Cause
  PROVE  FailureApplied(r, target, cause) \in Row
  BY DEF FailureApplied, Row, Status, Lease, ErrorCode

\* Retention leaves no row.
LEMMA DeletedType ==
  ASSUME NEW r
  PROVE  Deleted(r) \in Row
  BY NewRowType DEF Deleted, Row, Status

\* The reconciler's treatment of an advisory.
LEMMA MaxDeliveryType ==
  ASSUME NEW r \in Row
  PROVE  MaxDeliveryApplied(r) \in Row
  BY DEF MaxDeliveryApplied, Row, Status, Lease, ErrorCode

\* Every outcome of the reconciler's scan.
LEMMA ReconciledType ==
  ASSUME NEW r \in Row, NEW exhausted
  PROVE  Reconciled(r, exhausted) \subseteq Row
  BY MaxDeliveryType, DeletedType DEF Reconciled

-----------------------------------------------------------------------------
(* Type correctness.  TypeOK is not inductive by itself: a nak puts the       *)
(* message of the handler's delivery among the reconcilers' notices, so a      *)
(* handler that is not idle must be known to hold one.                         *)

HandlersTyped ==
    /\ pc \in [Handlers -> Stage]
    /\ task \in [Handlers -> Task]
    /\ \A h \in Handlers : pc[h] # "idle" => task[h].msg \in Messages

TypeInv == TypeOK /\ HandlersTyped

\* A handler without a message.
LEMMA IdleTaskType == IdleTask \in Task
  BY NoAnalysisType DEF IdleTask, Task, Seen, Outcome, Cause

\* The task a handler is left with when execute returned or raised.
LEMMA ClearedTaskType ==
  ASSUME NEW t \in Task, NEW cause \in Cause
  PROVE  /\ [IdleTask EXCEPT !.msg = t.msg] \in Task
         /\ [IdleTask EXCEPT !.msg = t.msg, !.cause = cause] \in Task
         /\ [IdleTask EXCEPT !.msg = t.msg].msg = t.msg
         /\ [IdleTask EXCEPT !.msg = t.msg, !.cause = cause].msg = t.msg
  BY IdleTaskType DEF Task

\* A handler that goes to another stage keeps the types of the handlers.
LEMMA GotoType ==
  ASSUME HandlersTyped, NEW h \in Handlers, pc[h] # "idle",
         NEW stage \in Stage, Goto(h, stage)
  PROVE  HandlersTyped'
  BY DEF HandlersTyped, Goto

\* A stage that continues with another stage and an updated local state.
LEMMA AdvanceType ==
  ASSUME HandlersTyped, NEW h \in Handlers, pc[h] # "idle",
         NEW stage \in Stage, pc' = [pc EXCEPT ![h] = stage],
         NEW t \in Task, t.msg = task[h].msg, task' = [task EXCEPT ![h] = t]
  PROVE  HandlersTyped'
  BY DEF HandlersTyped

\* So does one that ends its owned run.
LEMMA LeaveType ==
  ASSUME HandlersTyped, NEW h \in Handlers, pc[h] # "idle",
         NEW stage \in Stage, Leave(h, stage)
  PROVE  HandlersTyped'
  <1>1. task[h] \in Task
    BY DEF HandlersTyped
  <1>2. "transient" \in Cause
    BY DEF Cause
  <1>3. QED
    BY <1>1, <1>2, ClearedTaskType, AdvanceType DEF Leave

\* So does one that fails.
LEMMA FailType ==
  ASSUME HandlersTyped, NEW h \in Handlers, pc[h] # "idle",
         NEW cause \in Cause, Fail(h, cause)
  PROVE  HandlersTyped'
  <1>1. task[h] \in Task /\ "read_failure" \in Stage
    BY DEF HandlersTyped, Stage
  <1>2. QED
    BY <1>1, ClearedTaskType, AdvanceType DEF Fail

\* So does one that finds its ownership lost.
LEMMA LoseType ==
  ASSUME HandlersTyped, NEW h \in Handlers, pc[h] # "idle", Lose(h)
  PROVE  HandlersTyped'
  BY LeaveType DEF Lose, Stage

\* A checkpoint keeps the types if what it stores and how it continues do.
LEMMA StoreType ==
  ASSUME HandlersTyped, row \in Row, NEW h \in Handlers, pc[h] # "idle",
         NEW STATE updated, updated \in Row,
         NEW ACTION continue, continue => HandlersTyped',
         Store(h, updated, continue)
  PROVE  row' \in Row /\ HandlersTyped'
  <1>1. "transient" \in Cause
    BY DEF Cause
  <1>2. CASE Owns(h) /\ row' = updated /\ continue
    BY <1>2
  <1>3. CASE /\ row' \in (IF Owns(h) THEN {row, updated} ELSE {row})
             /\ Fail(h, "transient")
    BY <1>1, <1>3, FailType
  <1>4. CASE ~Owns(h) /\ Lose(h) /\ UNCHANGED row
    BY <1>4, LoseType
  <1>5. QED
    BY <1>2, <1>3, <1>4 DEF Store

\* A redelivery, and the advisory where it was the last one.
LEMMA RedeliverType ==
  ASSUME TypeOK, NEW m \in Messages, Redeliver(m)
  PROVE  /\ message' \in [Messages -> MessageState]
         /\ notices' \in [Workers -> SUBSET Messages]
  BY DEF TypeOK, Redeliver, MessageState

\* The sets of stages that the proofs speak of.
LEMMA StageMembers ==
  /\ OwnedRun \subseteq Stage /\ "idle" \notin OwnedRun
  /\ {"claim", "unclaimed", "read_failure", "apply_failure",
      "ack", "nak", "term"} \subseteq Stage
  BY DEF OwnedRun, Stage

\* The steps of a handler that leave the queue and the reconcilers alone.
LEMMA HandlerTypeStep ==
  ASSUME TypeInv, NEW h \in Handlers,
         \/ ClaimWins(h) \/ ClaimRefused(h) \/ ClaimFails(h) \/ Unclaimed(h)
         \/ Load(h) \/ Gather(h) \/ Analyze(h) \/ Persist(h)
         \/ ReadFailure(h) \/ ApplyFailure(h)
         \/ CodesUnanswered(h) \/ RecordCodes(h) \/ RecordComment(h) \/ Complete(h)
  PROVE  TypeInv'
  <1> USE DEF TypeInv
  <1>w. WorkerOf[h] \in Workers
    BY WorkerOfAssumption
  <1>t. /\ task[h] \in Task /\ row \in Row /\ pc[h] \in Stage
        /\ pc[h] # "idle" => task[h].msg \in Messages
    BY DEF TypeOK, HandlersTyped
  <1>c. {"transient", "permanent", "interrupted"} = Cause
    BY DEF Cause
  <1>s. UNCHANGED <<ctcVars, queueVars, workerVars, reconcilerVars>>
    BY DEF ClaimWins, ClaimRefused, ClaimFails, Unclaimed, Load, Gather, Analyze,
           Persist, ReadFailure, ApplyFailure, CodesUnanswered, RecordCodes,
           RecordComment, Complete
  <1> SUFFICES row' \in Row /\ HandlersTyped'
    BY <1>s DEF TypeOK, HandlersTyped, ctcVars, queueVars, workerVars, reconcilerVars
  <1>1. CASE ClaimWins(h)
    <2>1. [task[h] EXCEPT !.attempt = row.attempts + 1] \in Task
      BY <1>t DEF Task, Row
    <2>2. HandlersTyped'
      BY <1>1, <1>t, <2>1, StageMembers DEF ClaimWins, HandlersTyped, OwnedRun
    <2>3. QED
      BY <1>1, <1>w, <1>t, <2>2, ClaimedType DEF ClaimWins
  <1>2. CASE ClaimRefused(h)
    BY <1>2, <1>t, GotoType, StageMembers DEF ClaimRefused
  <1>3. CASE ClaimFails(h)
    BY <1>3, <1>w, <1>t, LeaveType, ClaimedType, StageMembers DEF ClaimFails
  <1>4. CASE Unclaimed(h)
    BY <1>4, <1>t, LeaveType, StageMembers DEF Unclaimed
  <1>5. CASE Load(h)
    <2> DEFINE seen == [analysis |-> row.analysis, codes |-> row.codes,
                        comment |-> row.comment]
               t == [task[h] EXCEPT !.seen = seen]
    <2>1. seen \in Seen
      BY <1>t DEF Row, Seen
    <2>2. t \in Task /\ t.msg = task[h].msg
      BY <1>t, <2>1 DEF Task
    <2>3. row' = row /\ pc[h] # "idle"
      BY <1>5 DEF Load
    <2>4. CASE \/ Fail(h, "permanent") \/ Fail(h, "transient") \/ Lose(h)
      BY <1>t, <1>c, <2>3, <2>4, FailType, LoseType
    <2>5. CASE \E stage \in {"complete", "gather"} :
                 /\ pc' = [pc EXCEPT ![h] = stage]
                 /\ task' = [task EXCEPT ![h].seen = seen]
      <3>1. {"complete", "gather"} \subseteq Stage
        BY StageMembers DEF OwnedRun
      <3>2. task' = [task EXCEPT ![h] = t]
        BY <2>5
      <3>3. QED
        BY <1>t, <2>2, <2>3, <2>5, <3>1, <3>2, AdvanceType
    <2>6. QED
      BY <1>5, <2>4, <2>5 DEF Load
  <1>6. CASE Gather(h)
    <2> DEFINE t == [task[h] EXCEPT !.version = ctc.version,
                                    !.analysis = task[h].seen.analysis]
    <2>1. t \in Task /\ t.msg = task[h].msg
      BY <1>t DEF TypeOK, Task, Seen, Ctc
    <2>2. row' = row /\ pc[h] # "idle"
      BY <1>6 DEF Gather
    <2>3. CASE \E cause \in {"transient", "permanent"} : Fail(h, cause)
      BY <1>t, <1>c, <2>2, <2>3, FailType
    <2>4. CASE \E stage \in {"codes", "analyze"} :
                 /\ pc' = [pc EXCEPT ![h] = stage]
                 /\ task' = [task EXCEPT ![h].version = ctc.version,
                                         ![h].analysis = task[h].seen.analysis]
      <3>1. {"codes", "analyze"} \subseteq Stage
        BY StageMembers DEF OwnedRun
      <3>2. task' = [task EXCEPT ![h] = t]
        BY <2>4 DEF HandlersTyped
      <3>3. QED
        BY <1>t, <2>1, <2>2, <2>4, <3>1, <3>2, AdvanceType
    <2>5. QED
      BY <1>6, <2>3, <2>4 DEF Gather
  <1>7. CASE Analyze(h)
    <2> DEFINE t == [task[h] EXCEPT !.analysis = [attempt |-> task[h].attempt,
                                                  version |-> task[h].version]]
    <2>1. t \in Task /\ t.msg = task[h].msg
      BY <1>t DEF Task, Analysis
    <2>2. row' = row /\ pc[h] # "idle"
      BY <1>7 DEF Analyze
    <2>3. CASE \E cause \in {"transient", "permanent"} : Fail(h, cause)
      BY <1>t, <1>c, <2>2, <2>3, FailType
    <2>4. CASE pc' = [pc EXCEPT ![h] = "persist"] /\ task' = [task EXCEPT ![h] = t]
      BY <1>t, <2>1, <2>2, <2>4, StageMembers, AdvanceType DEF OwnedRun
    <2>5. QED
      BY <1>7, <2>3, <2>4 DEF Analyze
  <1>8. CASE Persist(h)
    <2>1. AnalysisPersisted(row, task[h].analysis) \in Row
      BY <1>t, CheckpointType DEF Task, Outcome
    <2>2. Goto(h, "codes") => HandlersTyped'
      BY <1>8, <1>t, GotoType, StageMembers DEF Persist, OwnedRun
    <2>3. QED
      BY <1>8, <1>t, <2>1, <2>2, StoreType DEF Persist
  <1>9. CASE ReadFailure(h)
    <2> DEFINE t == [task[h] EXCEPT !.expected = row.attempts]
    <2>1. t \in Task /\ t.msg = task[h].msg
      BY <1>t DEF Task, Row
    <2>2. row' = row /\ pc[h] # "idle"
      BY <1>9 DEF ReadFailure
    <2>3. CASE Lose(h) \/ Leave(h, "nak")
      BY <1>t, <2>2, <2>3, LoseType, LeaveType, StageMembers
    <2>4. CASE /\ pc' = [pc EXCEPT ![h] = "apply_failure"]
               /\ task' = [task EXCEPT ![h] = t]
      BY <1>t, <2>1, <2>2, <2>4, StageMembers, AdvanceType
    <2>5. QED
      BY <1>9, <2>3, <2>4 DEF ReadFailure
  <1>10. CASE ApplyFailure(h)
    <2> DEFINE target == FailureTarget(task[h].cause, task[h].expected)
               applied == FailureApplied(row, target, task[h].cause)
    <2>1. applied \in Row
      BY <1>t, FailureTargetType, FailureAppliedType DEF Task
    <2>2. row' \in {row, applied} /\ pc[h] # "idle"
      BY <1>10 DEF ApplyFailure
    <2>3. Lose(h) \/ Leave(h, "nak") \/ Leave(h, "term")
      BY <1>10 DEF ApplyFailure
    <2>4. QED
      BY <1>t, <2>1, <2>2, <2>3, LoseType, LeaveType, StageMembers
  <1>11. CASE CodesUnanswered(h)
    BY <1>11, <1>t, <1>c, FailType DEF CodesUnanswered
  <1>12. CASE RecordCodes(h)
    <2>1. CodesRecorded(row, task[h].outcome) \in Row
      BY <1>t, CheckpointType DEF Task, Row
    <2>2. AfterOutcome(h, "comment") => HandlersTyped'
      BY <1>12, <1>t, <1>c, GotoType, FailType, StageMembers
      DEF RecordCodes, AfterOutcome, OwnedRun
    <2>3. QED
      BY <1>12, <1>t, <2>1, <2>2, StoreType DEF RecordCodes
  <1>13. CASE RecordComment(h)
    <2>1. CommentRecorded(row, task[h].outcome) \in Row
      BY <1>t, CheckpointType DEF Task, Row
    <2>2. AfterOutcome(h, "complete") => HandlersTyped'
      BY <1>13, <1>t, <1>c, GotoType, FailType, StageMembers
      DEF RecordComment, AfterOutcome, OwnedRun
    <2>3. QED
      BY <1>13, <1>t, <2>1, <2>2, StoreType DEF RecordComment
  <1>14. CASE Complete(h)
    <2>1. Completed(row) \in Row
      BY <1>t, CompletedType
    <2>2. Leave(h, "ack") \/ Leave(h, "nak") => HandlersTyped'
      BY <1>14, <1>t, LeaveType, StageMembers DEF Complete
    <2>3. QED
      BY <1>14, <1>t, <2>1, <2>2, StoreType DEF Complete
  <1>15. QED
    BY <1>1, <1>2, <1>3, <1>4, <1>5, <1>6, <1>7, <1>8, <1>9, <1>10, <1>11, <1>12,
       <1>13, <1>14

\* The exception stays one when CTC applies an update or an edit.
LEMMA CtcType ==
  ASSUME NEW c \in Ctc, NEW analysis \in Analysis
  PROVE  /\ [c EXCEPT !.version = @ + 1, !.codes = analysis, !.writes = @ + 1] \in Ctc
         /\ [c EXCEPT !.version = @ + 1, !.edits = @ + 1] \in Ctc
  <1>1. c.version + 1 \in Nat /\ c.writes + 1 \in Nat /\ c.edits + 1 \in Nat
    BY DEF Ctc
  <1>2. QED
    BY <1>1, Zenon DEF Ctc

\* The steps of a handler that use CTC.
LEMMA WriteBackTypeStep ==
  ASSUME TypeInv, NEW h \in Handlers, WriteCodes(h) \/ WriteComment(h)
  PROVE  TypeInv'
  <1> USE DEF TypeInv
  <1>t. task[h] \in Task /\ ctc \in Ctc /\ patches \subseteq Patch
    BY DEF TypeOK, HandlersTyped
  <1>c. pc[h] # "idle" /\ {"comment", "complete", "codes_sent", "record_codes",
                           "record_comment"} \subseteq Stage
    BY DEF WriteCodes, WriteComment, Stage, OwnedRun
  <1>o. \A outcome \in Outcome :
           /\ [task[h] EXCEPT !.outcome = outcome] \in Task
           /\ [task[h] EXCEPT !.outcome = outcome].msg = task[h].msg
    BY <1>t DEF Task
  <1>p. {"written", "failed", "skipped_disabled"} \subseteq Outcome
        /\ {"transient", "permanent"} \subseteq Cause
    BY DEF Outcome, Cause
  <1>r. ASSUME NEW recorded, NEW done, NEW stage \in {"comment", "complete"},
               Resume(h, recorded, done, stage)
        PROVE  HandlersTyped'
    BY <1>c, <1>p, <1>r, GotoType, FailType DEF Resume
  <1>1. CASE WriteCodes(h)
    <2>1. HandlersTyped'
      <3>1. CASE Resume(h, task[h].seen.codes, CodesDone, "comment")
        BY <1>r, <3>1
      <3>2. CASE /\ pc' = [pc EXCEPT ![h] = "record_codes"]
                 /\ task' = [task EXCEPT ![h].outcome = "skipped_disabled"]
        BY <1>c, <1>o, <1>p, <3>2, AdvanceType
      <3>3. CASE Goto(h, "codes_sent")
        BY <1>c, <3>3, GotoType
      <3>4. QED
        BY <1>1, <3>1, <3>2, <3>3 DEF WriteCodes
    <2>2. patches' \subseteq Patch
      <3>1. [handler |-> h, attempt |-> task[h].attempt,
             version |-> CodesVersion(task[h]),
             analysis |-> task[h].analysis] \in Patch
        BY <1>t DEF Task, Seen, Analysis, CodesVersion, Patch
      <3>2. QED
        BY <1>1, <1>t, <3>1 DEF WriteCodes
    <2>3. QED
      BY <1>1, <2>1, <2>2 DEF WriteCodes, TypeOK, HandlersTyped, queueVars,
                              workerVars, reconcilerVars
  <1>2. CASE WriteComment(h)
    <2>1. HandlersTyped'
      <3>1. CASE Resume(h, task[h].seen.comment, CommentDone, "complete")
        BY <1>r, <3>1
      <3>2. CASE \E outcome \in {"written", "failed", "skipped_disabled"} :
                   /\ pc' = [pc EXCEPT ![h] = "record_comment"]
                   /\ task' = [task EXCEPT ![h] = [task[h] EXCEPT !.outcome = outcome]]
        BY <1>c, <1>o, <1>p, <3>2, AdvanceType
      <3>3. CASE CommentUnanswered(h)
        BY <1>c, <1>p, <3>3, FailType DEF CommentUnanswered
      <3>4. QED
        BY <1>2, <3>1, <3>2, <3>3 DEF WriteComment
    <2>2. ctc' \in Ctc
      BY <1>2, <1>t DEF WriteComment, Ctc
    <2>3. QED
      BY <1>2, <2>1, <2>2 DEF WriteComment, TypeOK, HandlersTyped, queueVars,
                              workerVars, reconcilerVars
  <1>3. QED
    BY <1>1, <1>2

\* The answers a handler gives to its delivery.
LEMMA AnswerTypeStep ==
  ASSUME TypeInv, NEW h \in Handlers, Remove(h) \/ Nak(h) \/ AnswerLost(h)
  PROVE  TypeInv'
  <1> USE DEF TypeInv
  <1>1. Answer(h) /\ task[h].msg \in Messages
    BY DEF Remove, Nak, AnswerLost, HandlersTyped
  <1>2. HandlersTyped'
    BY <1>1, IdleTaskType DEF Answer, HandlersTyped, Stage
  <1>3. /\ message' \in [Messages -> MessageState]
        /\ notices' \in [Workers -> SUBSET Messages]
    <2>1. CASE Remove(h)
      BY <2>1 DEF Remove, TypeOK, MessageState
    <2>2. CASE Nak(h)
      BY <1>1, <2>2, RedeliverType DEF Nak
    <2>3. CASE AnswerLost(h)
      BY <2>3 DEF AnswerLost, TypeOK
    <2>4. QED
      BY <2>1, <2>2, <2>3
  <1>4. QED
    BY <1>1, <1>2, <1>3 DEF Answer, TypeOK, HandlersTyped, ctcVars, workerVars

\* The steps of the queue, of CTC and of the clocks.
LEMMA EnvironmentTypeStep ==
  ASSUME TypeInv,
         \/ \E h \in Handlers : Heartbeat(h)
         \/ \E h \in Handlers, m \in Messages : Fetch(h, m)
         \/ \E p \in patches : CtcAccepts(p) \/ CtcRefuses(p)
         \/ \E m \in Messages : AckWaitExpires(m)
         \/ LeaseExpires
         \/ ExternalEdit
  PROVE  TypeInv'
  <1> USE DEF TypeInv
  <1>1. ASSUME NEW h \in Handlers, Heartbeat(h)
        PROVE  TypeInv'
    <2>1. row' \in Row
      BY <1>1, LeaseType DEF Heartbeat, TypeOK
    <2>2. pc[h] # "idle"
      BY <1>1, StageMembers DEF Heartbeat
    <2>3. HandlersTyped'
      BY <1>1, <2>2, LoseType DEF Heartbeat, HandlersTyped, handlerVars
    <2>4. QED
      BY <1>1, <2>1, <2>3 DEF Heartbeat, TypeOK, HandlersTyped, ctcVars, queueVars,
                              workerVars, reconcilerVars
  <1>2. ASSUME NEW h \in Handlers, NEW m \in Messages, Fetch(h, m)
        PROVE  TypeInv'
    <2>1. [task[h] EXCEPT !.msg = m] \in Task /\ "claim" \in Stage
      BY DEF HandlersTyped, Task, Stage
    <2>2. HandlersTyped'
      BY <1>2, <2>1 DEF Fetch, HandlersTyped, Task
    <2>3. QED
      BY <1>2, <2>2 DEF Fetch, TypeOK, HandlersTyped, MessageState, ctcVars,
                        workerVars, reconcilerVars
  <1>3. ASSUME NEW p \in patches, CtcAccepts(p) \/ CtcRefuses(p)
        PROVE  TypeInv'
    <2>1. p \in Patch /\ p.analysis \in Analysis /\ ctc \in Ctc
      BY DEF TypeOK, Patch
    <2>2. PICK outcome \in Outcome : CtcAnswers(p, outcome)
      BY <1>3 DEF CtcAccepts, CtcRefuses, Outcome
    <2>3. ctc' \in Ctc
      BY <1>3, <2>1, CtcType, Zenon DEF CtcAccepts, CtcRefuses
    <2>4. HandlersTyped'
      <3>1. p.handler \in Handlers
        BY <2>1 DEF Patch
      <3>2. /\ [task[p.handler] EXCEPT !.outcome = outcome] \in Task
            /\ [task[p.handler] EXCEPT !.outcome = outcome].msg = task[p.handler].msg
        BY <3>1 DEF HandlersTyped, Task
      <3>3. CASE pc[p.handler] = "codes_sent" /\ task[p.handler].attempt = p.attempt
        BY <2>2, <3>1, <3>2, <3>3, AdvanceType DEF CtcAnswers, Stage, OwnedRun
      <3>4. CASE UNCHANGED handlerVars
        BY <3>4 DEF HandlersTyped, handlerVars
      <3>5. QED
        BY <2>2, <3>3, <3>4 DEF CtcAnswers
    <2>5. QED
      BY <2>2, <2>3, <2>4 DEF CtcAnswers, TypeOK, HandlersTyped, queueVars,
                              workerVars, reconcilerVars
  <1>4. ASSUME NEW m \in Messages, AckWaitExpires(m)
        PROVE  TypeInv'
    BY <1>4, RedeliverType DEF AckWaitExpires, TypeOK, HandlersTyped, ctcVars,
                               handlerVars, workerVars
  <1>5. CASE LeaseExpires
    BY <1>5, LeaseType DEF LeaseExpires, TypeOK, HandlersTyped, ctcVars, queueVars,
                           handlerVars, workerVars, reconcilerVars
  <1>6. CASE ExternalEdit
    BY <1>6, CtcType, NoAnalysisType DEF ExternalEdit, TypeOK, HandlersTyped, queueVars, handlerVars,
                workerVars, reconcilerVars
  <1>7. QED
    BY <1>1, <1>2, <1>3, <1>4, <1>5, <1>6

\* The steps that stop and start a worker.
LEMMA WorkerTypeStep ==
  ASSUME TypeInv, NEW w \in Workers,
         Drain(w) \/ Crash(w) \/ Exit(w) \/ Restart(w)
  PROVE  TypeInv'
  <1> USE DEF TypeInv
  <1>1. CASE Drain(w)
    <2>1. HandlersTyped'
      <3>1. {"read_failure"} \subseteq Stage /\ "interrupted" \in Cause
        BY DEF Stage, Cause
      <3>2. \A h \in Handlers :
              /\ [IdleTask EXCEPT !.msg = task[h].msg, !.cause = "interrupted"] \in Task
              /\ [IdleTask EXCEPT !.msg = task[h].msg,
                                  !.cause = "interrupted"].msg = task[h].msg
        BY <3>1, ClearedTaskType DEF HandlersTyped
      <3>3. \A h \in Handlers : pc'[h] \in Stage /\ task'[h] \in Task
        BY <1>1, <3>1, <3>2 DEF Drain, HandlersTyped
      <3>4. \A h \in Handlers : pc'[h] # "idle" => task'[h].msg \in Messages
        BY <1>1, <3>2 DEF Drain, HandlersTyped, Active
      <3>5. QED
        BY <1>1, <3>3, <3>4 DEF Drain, HandlersTyped
    <2>2. restarts' \in Nat
      <3>1. restarts \in Nat
        BY DEF TypeOK
      <3>2. restarts' = restarts + 1
        BY <1>1 DEF Drain, GoingDown
      <3>3. QED
        BY <3>1, <3>2
    <2>3. life' \in [Workers -> {"up", "draining", "down"}]
      BY <1>1 DEF Drain, TypeOK
    <2>4. UNCHANGED <<row, ctc, patches, message, delivered, notices, batch, cleanup>>
      BY <1>1 DEF Drain, ctcVars, queueVars, reconcilerVars
    <2>5. QED
      BY <2>1, <2>2, <2>3, <2>4 DEF TypeOK, HandlersTyped
  <1>2. CASE Crash(w) \/ Exit(w)
    <2>1. Down(w) /\ restarts' \in Nat
      BY <1>2 DEF Crash, Exit, GoingDown, TypeOK
    <2>2. HandlersTyped'
      BY <2>1, IdleTaskType DEF Down, HandlersTyped, Stage
    <2>3. QED
      BY <2>1, <2>2 DEF Down, TypeOK, HandlersTyped, ctcVars, queueVars
  <1>3. CASE Restart(w)
    BY <1>3 DEF Restart, TypeOK, HandlersTyped, ctcVars, queueVars, handlerVars,
                reconcilerVars
  <1>4. QED
    BY <1>1, <1>2, <1>3

\* A step of a reconciler keeps the types.
LEMMA ReconcilerTypeStep ==
  ASSUME TypeInv, NEW w \in Workers, ReconcilerStep(w)
  PROVE  TypeInv'
  <1> USE DEF TypeInv
  <1>1. CASE Receive(w)
    BY <1>1 DEF Receive, TypeOK, HandlersTyped, ctcVars, queueVars, handlerVars,
                workerVars
  <1>2. CASE ReconcileCommits(w)
    <2>1. row' \in Row
      BY <1>2, ReconciledType DEF ReconcileCommits, TypeOK
    <2>2. QED
      BY <1>2, <2>1 DEF ReconcileCommits, TypeOK, HandlersTyped, ctcVars, queueVars,
                        handlerVars, workerVars
  <1>3. CASE ReconcileFails(w)
    <2>1. row' \in Row
      BY <1>3, ReconciledType DEF ReconcileFails, TypeOK
    <2>2. QED
      BY <1>3, <2>1 DEF ReconcileFails, TypeOK, HandlersTyped, ctcVars, queueVars,
                        handlerVars, workerVars
  <1>4. ASSUME NEW m \in Messages, DeleteMessage(w, m) \/ DeleteFails(w, m)
        PROVE  TypeInv'
    BY <1>4 DEF DeleteMessage, DeleteFails, TypeOK, HandlersTyped, MessageState,
                ctcVars, queueVars, handlerVars, workerVars
  <1>5. QED
    BY <1>1, <1>2, <1>3, <1>4 DEF ReconcilerStep

\* Every step does.
LEMMA TypeStep == TypeInv /\ [Next]_vars => TypeInv'
  <1> SUFFICES ASSUME TypeInv, [Next]_vars
               PROVE  TypeInv'
    OBVIOUS
  <1>1. CASE UNCHANGED vars
    BY <1>1 DEF TypeInv, TypeOK, HandlersTyped, vars
  <1>2. CASE Next
    BY <1>2, HandlerTypeStep, WriteBackTypeStep, AnswerTypeStep, EnvironmentTypeStep,
       WorkerTypeStep, ReconcilerTypeStep DEF Next, HandlerStep
  <1>3. QED
    BY <1>1, <1>2

\* The types hold at first.
LEMMA TypeInit == Init => TypeInv
  BY NewRowType, NoAnalysisType, IdleTaskType, NoWorkerAssumption
  DEF Init, TypeInv, TypeOK, HandlersTyped, Ctc, MessageState, Stage

\* They hold in every run.
LEMMA TypeInvariant == Spec => []TypeInv
  BY TypeInit, TypeStep, PTL DEF Spec

\* Whatever the interleaving of handlers, workers, queue and reconcilers, the row,
\* the handlers' locals and the queue's state stay what the columns, the locals and
\* JetStream can hold.
THEOREM TypeCorrect == Spec => []TypeOK
  <1>1. TypeInv => TypeOK
    BY DEF TypeInv
  <1>2. QED
    BY <1>1, TypeInvariant, PTL

-----------------------------------------------------------------------------
(* What the steps of the system do to the row.  The row is all the workers     *)
(* share, so most of the safety argument is about these moves alone.           *)

OwnerMove ==
    /\ \E w \in Workers : OwnedBy(row, w)
    /\ \/ row' = LeaseExtended(row) \/ row' = Completed(row)
       \/ \E analysis \in Analysis : row' = AnalysisPersisted(row, analysis)
       \/ \E outcome \in Outcome : \/ row' = CodesRecorded(row, outcome)
                                   \/ row' = CommentRecorded(row, outcome)
       \/ \E cause \in Cause :
            row' = FailureApplied(row, FailureTarget(cause, row.attempts), cause)

RowMove ==
    \/ row' = row
    \/ Claimable(row) /\ \E w \in Workers : row' = Claimed(row, w)
    \/ OwnerMove
    \/ row.lease = "live" /\ row' = [row EXCEPT !.lease = "expired"]
    \/ \E exhausted \in BOOLEAN : row' \in Reconciled(row, exhausted)

\* A guarded update changes the row for its owner or not at all.
LEMMA StoreMoves ==
  ASSUME NEW h \in Handlers, NEW STATE updated, NEW ACTION continue,
         Store(h, updated, continue)
  PROVE  row' = row \/ (OwnedBy(row, WorkerOf[h]) /\ row' = updated)
  BY DEF Store, Owns

\* A step of a handler or of its heartbeat is a move of the row.
LEMMA HandlerMoves ==
  ASSUME TypeInv, NEW h \in Handlers, HandlerStep(h) \/ Heartbeat(h)
  PROVE  RowMove
  <1>w. WorkerOf[h] \in Workers
    BY WorkerOfAssumption
  <1>t. task[h] \in Task
    BY DEF TypeInv, HandlersTyped
  <1>1. CASE ClaimWins(h) \/ ClaimFails(h)
    BY <1>w, <1>1 DEF ClaimWins, ClaimFails, RowMove
  <1>2. CASE Persist(h)
    BY <1>w, <1>t, <1>2, StoreMoves DEF Persist, Task, RowMove, OwnerMove
  <1>3. CASE RecordCodes(h)
    BY <1>w, <1>t, <1>3, StoreMoves DEF RecordCodes, Task, RowMove, OwnerMove
  <1>4. CASE RecordComment(h)
    BY <1>w, <1>t, <1>4, StoreMoves DEF RecordComment, Task, RowMove, OwnerMove
  <1>5. CASE Complete(h)
    BY <1>w, <1>5, StoreMoves DEF Complete, RowMove, OwnerMove
  <1>6. CASE ApplyFailure(h)
    <2> DEFINE target == FailureTarget(task[h].cause, task[h].expected)
    <2>1. \/ row' = row
          \/ /\ FailureAppliesTo(row, WorkerOf[h], task[h].expected)
             /\ row' = FailureApplied(row, target, task[h].cause)
      BY <1>6 DEF ApplyFailure
    <2>2. QED
      BY <1>w, <1>t, <2>1 DEF FailureAppliesTo, Task, RowMove, OwnerMove
  <1>7. CASE Heartbeat(h)
    BY <1>w, <1>7 DEF Heartbeat, Owns, RowMove, OwnerMove
  <1>8. CASE \/ ClaimRefused(h) \/ Unclaimed(h) \/ Load(h) \/ Gather(h) \/ Analyze(h)
             \/ WriteCodes(h) \/ CodesUnanswered(h) \/ WriteComment(h)
             \/ ReadFailure(h) \/ Remove(h) \/ Nak(h) \/ AnswerLost(h)
    BY <1>8 DEF ClaimRefused, Unclaimed, Load, Gather, Analyze, WriteCodes,
                CodesUnanswered, WriteComment, ReadFailure, Remove, Nak, AnswerLost,
                Answer, RowMove
  <1>9. QED
    BY <1>1, <1>2, <1>3, <1>4, <1>5, <1>6, <1>7, <1>8 DEF HandlerStep

\* Every step is.
LEMMA RowMoves == TypeInv /\ [Next]_vars => RowMove
  <1> SUFFICES ASSUME TypeInv, [Next]_vars
               PROVE  RowMove
    OBVIOUS
  <1>1. ASSUME NEW w \in Workers, ReconcilerStep(w)
        PROVE  RowMove
    BY <1>1 DEF ReconcilerStep, Receive, ReconcileCommits, ReconcileFails,
                DeleteMessage, DeleteFails, RowMove
  <1>2. CASE LeaseExpires
    BY <1>2 DEF LeaseExpires, RowMove
  <1>3. CASE \/ \E h \in Handlers, m \in Messages : Fetch(h, m)
             \/ \E p \in patches : CtcAccepts(p) \/ CtcRefuses(p)
             \/ \E w \in Workers : Drain(w) \/ Crash(w) \/ Exit(w) \/ Restart(w)
             \/ \E m \in Messages : AckWaitExpires(m)
             \/ ExternalEdit
             \/ UNCHANGED vars
    BY <1>3 DEF Fetch, CtcAccepts, CtcRefuses, CtcAnswers, Drain, Crash, Exit, Down,
                Restart, AckWaitExpires, ExternalEdit, vars, RowMove
  <1>4. QED
    BY <1>1, <1>2, <1>3, HandlerMoves DEF Next

-----------------------------------------------------------------------------
(* Ownership. *)

\* The shape of a row after each move, as far as status and ownership go.
LEMMA OwnershipStep ==
  ASSUME row \in Row, OwnershipConsistent, RowMove
  PROVE  OwnershipConsistent'
  <1>1. CASE row' = row
    BY <1>1 DEF OwnershipConsistent
  <1>2. CASE Claimable(row) /\ \E w \in Workers : row' = Claimed(row, w)
    BY <1>2, NoWorkerAssumption DEF OwnershipConsistent, Claimed, Row
  <1>3. CASE OwnerMove
    <2>1. row.status = "processing"
      BY <1>3 DEF OwnerMove, OwnedBy
    <2>2. ASSUME NEW cause \in Cause,
                 row' = FailureApplied(row, FailureTarget(cause, row.attempts), cause)
          PROVE  OwnershipConsistent'
      BY <2>2, FailureTargetType DEF OwnershipConsistent, FailureApplied, Row
    <2>3. CASE row' = LeaseExtended(row) \/ row' = Completed(row)
      BY <2>1, <2>3 DEF OwnershipConsistent, LeaseExtended, Completed, Row
    <2>4. ASSUME NEW analysis \in Analysis, NEW outcome \in Outcome,
                 \/ row' = AnalysisPersisted(row, analysis)
                 \/ row' = CodesRecorded(row, outcome)
                 \/ row' = CommentRecorded(row, outcome)
          PROVE  OwnershipConsistent'
      BY <2>4 DEF OwnershipConsistent, AnalysisPersisted, CodesRecorded,
                  CommentRecorded, Row
    <2>5. "pending" \in Outcome
      BY DEF Outcome
    <2>6. QED
      BY <1>3, <2>2, <2>3, <2>4, <2>5, NoAnalysisType DEF OwnerMove
  <1>4. CASE row.lease = "live" /\ row' = [row EXCEPT !.lease = "expired"]
    BY <1>4 DEF OwnershipConsistent, Row
  <1>5. ASSUME NEW exhausted \in BOOLEAN, row' \in Reconciled(row, exhausted)
        PROVE  OwnershipConsistent'
    <2>1. row' \in {row, MaxDeliveryApplied(row), Deleted(row),
                    Deleted(MaxDeliveryApplied(row))}
      BY <1>5 DEF Reconciled
    <2>2. CASE row' = MaxDeliveryApplied(row)
      BY <2>2 DEF OwnershipConsistent, MaxDeliveryApplied, Row
    <2>3. CASE row' = Deleted(row)
      BY <2>3 DEF OwnershipConsistent, Deleted, NewRow
    <2>4. CASE row' = row
      BY <2>4 DEF OwnershipConsistent
    <2>5. QED
      BY <2>1, <2>2, <2>3, <2>4 DEF Deleted
  <1>6. QED
    BY <1>1, <1>2, <1>3, <1>4, <1>5 DEF RowMove

\* A row has an owner and a lease exactly while it is being processed: no claim,
\* heartbeat, completion, failure or reconciliation leaves one behind or takes one
\* from a row in progress, in whatever order the workers' transactions commit.
THEOREM OwnershipCorrect == Spec => []OwnershipConsistent
  <1>1. Init => OwnershipConsistent
    BY DEF Init, NewRow, OwnershipConsistent
  <1>2. TypeInv /\ OwnershipConsistent /\ [Next]_vars => OwnershipConsistent'
    BY RowMoves, OwnershipStep DEF TypeInv, TypeOK
  <1>3. QED
    BY <1>1, <1>2, TypeInvariant, PTL DEF Spec

-----------------------------------------------------------------------------
(* Finished rows. *)

\* A move of a finished row deletes it or leaves it alone.
LEMMA TerminalStep ==
  ASSUME OwnershipConsistent, row.status \in TerminalStatus, RowMove
  PROVE  row' \in {row, Deleted(row)}
  <1>1. row.status \notin {"queued", "processing", "absent"} /\ row.lease = "none"
    BY DEF OwnershipConsistent, TerminalStatus
  <1>2. MaxDeliveryApplied(row) = row
    BY <1>1 DEF MaxDeliveryApplied, MaxDeliveryOutcome
  <1>3. QED
    BY <1>1, <1>2 DEF RowMove, Claimable, OwnerMove, OwnedBy, Reconciled

\* No late claim, heartbeat, checkpoint, failure or reconciliation changes a finished
\* row; retention may delete it.
THEOREM TerminalCorrect == Spec => TerminalIsFinal
  <1>1. TypeInv /\ OwnershipConsistent /\ [Next]_vars
          => [row.status \in TerminalStatus => row' \in {row, Deleted(row)}]_row
    BY RowMoves, TerminalStep
  <1>2. QED
    BY <1>1, TypeInvariant, OwnershipCorrect, PTL DEF Spec, TerminalIsFinal

-----------------------------------------------------------------------------
(* The verdict on a failed attempt.                                           *)

\* The recorder decides from the attempt count it read in an earlier statement, yet
\* a row that a transient failure sent back to the queue has an attempt left and
\* one that it failed has none: the update is conditional on the count it read.
THEOREM VerdictCorrect == Spec => []VerdictMatchesAttempts
  <1>1. Init => VerdictMatchesAttempts
    BY DEF Init, NewRow, VerdictMatchesAttempts
  <1>2. ASSUME row \in Row, VerdictMatchesAttempts, RowMove
        PROVE  VerdictMatchesAttempts'
    <2>1. CASE /\ row'.status = row.status
               /\ row'.error = row.error
               /\ row'.attempts = row.attempts
      BY <1>2, <2>1, Zenon DEF VerdictMatchesAttempts
    <2>2. CASE row'.status \in {"processing", "completed"} \/ row'.error # "transient"
      BY <2>2, Zenon DEF VerdictMatchesAttempts
    <2>3. ASSUME NEW cause \in Cause,
                 row' = FailureApplied(row, FailureTarget(cause, row.attempts), cause)
          PROVE  VerdictMatchesAttempts'
      <3>1. /\ row'.attempts = row.attempts /\ row'.error = cause
            /\ row'.status = FailureTarget(cause, row.attempts)
        BY <1>2, <2>3 DEF FailureApplied, Row
      <3>2. SUFFICES ASSUME cause = "transient"
                     PROVE  /\ FailureTarget(cause, row.attempts) = "queued"
                                 => row.attempts < MaxAttempts
                            /\ FailureTarget(cause, row.attempts) = "failed"
                                 => row.attempts >= MaxAttempts
        BY <3>1, Zenon DEF VerdictMatchesAttempts
      <3>3. row.attempts \in Nat /\ MaxAttempts \in Nat
        BY <1>2, MaxAttemptsAssumption DEF Row
      <3>4. QED
        BY <3>2, <3>3 DEF FailureTarget
    <2>4. CASE row' = row
      BY <2>1, <2>4
    <2>5. CASE Claimable(row) /\ \E w \in Workers : row' = Claimed(row, w)
      BY <1>2, <2>2, <2>5 DEF Claimed, Row
    <2>6. CASE OwnerMove
      BY <1>2, <2>2, <2>3, <2>6
      DEF OwnerMove, OwnedBy, LeaseExtended, Completed, AnalysisPersisted,
          CodesRecorded, CommentRecorded, Row
    <2>7. CASE row.lease = "live" /\ row' = [row EXCEPT !.lease = "expired"]
      BY <1>2, <2>1, <2>7 DEF Row
    <2>8. ASSUME NEW exhausted \in BOOLEAN, row' \in Reconciled(row, exhausted)
          PROVE  VerdictMatchesAttempts'
      <3>1. row' \in {row, MaxDeliveryApplied(row)} \/ row'.error = "none"
        BY <2>8 DEF Reconciled, Deleted, NewRow
      <3>2. MaxDeliveryApplied(row) = row
            \/ MaxDeliveryApplied(row).error = "max_deliver_exceeded"
        BY <1>2 DEF MaxDeliveryApplied, Row
      <3>3. QED
        BY <2>1, <2>2, <3>1, <3>2
    <2>9. QED
      BY <1>2, <2>4, <2>5, <2>6, <2>7, <2>8 DEF RowMove
  <1>3. TypeInv /\ VerdictMatchesAttempts /\ [Next]_vars => VerdictMatchesAttempts'
    BY <1>2, RowMoves DEF TypeInv, TypeOK
  <1>4. QED
    BY <1>1, <1>3, TypeInvariant, PTL DEF Spec

-----------------------------------------------------------------------------
(* No work is lost.  That no message is gone while the row is open follows     *)
(* only together with what the answers and clean-ups under way have seen: a    *)
(* handler about to remove its message, and a reconciler with messages to      *)
(* delete, have seen the row closed, and closed rows do not open again.        *)

Closed(r) == r.status \notin {"queued", "processing"}

WorkInv ==
    /\ \A h \in Handlers : pc[h] \in {"ack", "term"} => Closed(row)
    /\ \A w \in Workers : cleanup[w] # {} => Closed(row)
    /\ \A m \in Messages : message[m] = "gone" => Closed(row)

\* What is closed stays closed.
LEMMA ClosedStays ==
  ASSUME row \in Row, Closed(row), RowMove
  PROVE  Closed(row)'
  <1>1. CASE row' = row
    BY <1>1 DEF Closed
  <1>2. CASE row.lease = "live" /\ row' = [row EXCEPT !.lease = "expired"]
    BY <1>2 DEF Closed, Row
  <1>3. ASSUME NEW exhausted \in BOOLEAN, row' \in Reconciled(row, exhausted)
        PROVE  Closed(row)'
    BY <1>3 DEF Closed, Reconciled, MaxDeliveryApplied, Deleted, NewRow, Row
  <1>4. QED
    BY <1>1, <1>2, <1>3 DEF RowMove, Closed, Claimable, OwnerMove, OwnedBy

Removing(h) == pc[h] \in {"ack", "term"}

\* Only three steps make a handler head for ack or term, each of them with a row
\* that is closed: it was read so, completed or failed.
LEMMA HandlerRemoves ==
  ASSUME TypeInv, NEW g \in Handlers, HandlerStep(g) \/ Heartbeat(g),
         NEW h \in Handlers, Removing(h)'
  PROVE  Removing(h) \/ Closed(row)'
  <1>p. pc \in [Handlers -> Stage] /\ row \in Row
    BY DEF TypeInv, TypeOK
  <1>s. ASSUME NEW stage \in {"claim", "unclaimed", "load", "gather", "analyze",
                              "persist", "codes", "codes_sent", "record_codes",
                              "comment", "record_comment", "complete", "idle",
                              "read_failure", "apply_failure", "nak"},
               pc' = [pc EXCEPT ![g] = stage]
        PROVE  Removing(h)
    BY <1>p, <1>s DEF Removing
  <1>1. CASE Unclaimed(g)
    BY <1>1, <1>s DEF Unclaimed, Leave, Closed, TerminalStatus
  <1>2. CASE Complete(g)
    <2>1. CASE row' = Completed(row)
      BY <1>p, <2>1 DEF Completed, Closed, Row
    <2>2. CASE Fail(g, "transient") \/ Lose(g)
      BY <1>s, <2>2 DEF Fail, Lose, Leave
    <2>3. QED
      BY <1>2, <2>1, <2>2 DEF Complete, Store
  <1>3. CASE ApplyFailure(g)
    <2> DEFINE target == FailureTarget(task[g].cause, task[g].expected)
    <2>1. CASE target = "failed" /\ row' = FailureApplied(row, target, task[g].cause)
      BY <1>p, <2>1 DEF FailureApplied, Closed, Row
    <2>2. CASE Lose(g) \/ Leave(g, "nak")
      BY <1>s, <2>2 DEF Lose, Leave
    <2>3. QED
      BY <1>3, <2>1, <2>2 DEF ApplyFailure
  <1>4. CASE Persist(g) \/ RecordCodes(g) \/ RecordComment(g)
    BY <1>4, <1>s DEF Persist, RecordCodes, RecordComment, Store, AfterOutcome, Goto,
                      Fail, Lose, Leave
  <1>5. CASE Load(g)
    <2>1. CASE \/ Fail(g, "permanent") \/ Fail(g, "transient") \/ Lose(g)
      BY <1>s, <2>1 DEF Fail, Lose, Leave
    <2>2. CASE \E stage \in {"complete", "gather"} : pc' = [pc EXCEPT ![g] = stage]
      BY <1>s, <2>2
    <2>3. QED
      BY <1>5, <2>1, <2>2 DEF Load
  <1>6. CASE \/ ClaimWins(g) \/ ClaimRefused(g) \/ ClaimFails(g) \/ Gather(g)
             \/ Analyze(g) \/ CodesUnanswered(g) \/ ReadFailure(g)
    BY <1>6, <1>s DEF ClaimWins, ClaimRefused, ClaimFails, Gather, Analyze,
                      CodesUnanswered, ReadFailure, Goto, Fail, Lose, Leave
  <1>7. CASE WriteCodes(g) \/ WriteComment(g)
    <2>1. CASE \/ \E stage \in {"codes_sent", "comment", "complete"} : Goto(g, stage)
               \/ Fail(g, "permanent") \/ CommentUnanswered(g)
      BY <1>s, <2>1 DEF Goto, Fail, CommentUnanswered
    <2>2. CASE \E stage \in {"record_codes", "record_comment"} :
                 pc' = [pc EXCEPT ![g] = stage]
      BY <1>s, <2>2
    <2>3. QED
      BY <1>7, <2>1, <2>2 DEF WriteCodes, WriteComment, Resume
  <1>8. CASE Remove(g) \/ Nak(g) \/ AnswerLost(g)
    BY <1>8, <1>s DEF Remove, Nak, AnswerLost, Answer
  <1>9. CASE Heartbeat(g)
    BY <1>9, <1>s DEF Heartbeat, Lose, Leave, handlerVars, Removing
  <1>10. QED
    BY <1>1, <1>2, <1>3, <1>4, <1>5, <1>6, <1>7, <1>8, <1>9 DEF HandlerStep

\* A handler goes to remove its message only when the row is closed.
LEMMA RemovalSeesClosed ==
  ASSUME TypeInv, WorkInv, [Next]_vars, NEW h \in Handlers, Removing(h)'
  PROVE  Closed(row)'
  <1>1. row \in Row /\ pc \in [Handlers -> Stage]
    BY DEF TypeInv, TypeOK
  <1>2. Removing(h) => Closed(row)'
    BY <1>1, RowMoves, ClosedStays DEF Removing, WorkInv
  <1>3. ASSUME NEW g \in Handlers, HandlerStep(g) \/ Heartbeat(g)
        PROVE  Closed(row)'
    BY <1>2, <1>3, HandlerRemoves
  <1>4. CASE \/ \E g \in Handlers, m \in Messages : Fetch(g, m)
             \/ \E w \in Workers : Drain(w) \/ Crash(w) \/ Exit(w)
    <2>1. Removing(h)
      BY <1>1, <1>4 DEF Fetch, Drain, Crash, Exit, Down, Removing
    <2>2. QED
      BY <1>2, <2>1
  <1>5. ASSUME NEW p \in patches, CtcAccepts(p) \/ CtcRefuses(p)
        PROVE  Closed(row)'
    <2>1. pc' = pc \/ pc' = [pc EXCEPT ![p.handler] = "record_codes"]
      BY <1>5 DEF CtcAccepts, CtcRefuses, CtcAnswers, handlerVars
    <2>2. QED
      BY <1>1, <1>2, <2>1 DEF Removing
  <1>6. CASE pc' = pc
    BY <1>2, <1>6 DEF Removing
  <1>7. CASE \/ \E w \in Workers : ReconcilerStep(w) \/ Restart(w)
             \/ \E m \in Messages : AckWaitExpires(m)
             \/ LeaseExpires \/ ExternalEdit \/ UNCHANGED vars
    <2>1. pc' = pc
      BY <1>7 DEF ReconcilerStep, Receive, ReconcileCommits, ReconcileFails,
                  DeleteMessage, DeleteFails, Restart, AckWaitExpires, LeaseExpires,
                  ExternalEdit, handlerVars, vars
    <2>2. QED
      BY <1>6, <2>1
  <1>8. QED
    BY <1>3, <1>4, <1>5, <1>7 DEF Next

\* A reconciler has messages to delete only after it has seen or made the row closed.
LEMMA CleanupSeesClosed ==
  ASSUME TypeInv, WorkInv, [Next]_vars, NEW w \in Workers, cleanup'[w] # {}
  PROVE  Closed(row)'
  <1>1. row \in Row /\ cleanup \in [Workers -> SUBSET Messages]
    BY DEF TypeInv, TypeOK
  <1>2. cleanup[w] # {} => Closed(row)'
    BY <1>1, RowMoves, ClosedStays DEF WorkInv
  <1>3. ASSUME NEW v \in Workers, ReconcileCommits(v), cleanup[w] = {}
        PROVE  Closed(row)'
    <2>1. batch[v] # {} /\ MaxDeliveryOutcome(row) # "deferred"
      BY <1>1, <1>3 DEF ReconcileCommits
    <2>2. row' \in Reconciled(row, TRUE)
      BY <1>3, <2>1 DEF ReconcileCommits
    <2>3. Closed(MaxDeliveryApplied(row))
      BY <1>1, <2>1 DEF MaxDeliveryApplied, MaxDeliveryOutcome, Closed, TerminalStatus, Row
    <2>4. QED
      BY <2>2, <2>3 DEF Reconciled, Deleted, NewRow, Closed
  <1>4. CASE cleanup'[w] \subseteq cleanup[w]
    BY <1>2, <1>4
  <1>5. ASSUME NEW v \in Workers,
               \/ Receive(v) \/ ReconcileFails(v)
               \/ \E m \in Messages : DeleteMessage(v, m) \/ DeleteFails(v, m)
               \/ Drain(v) \/ Crash(v) \/ Exit(v) \/ Restart(v)
        PROVE  cleanup'[w] \subseteq cleanup[w]
    BY <1>1, <1>5 DEF Receive, ReconcileFails, DeleteMessage, DeleteFails, Drain, Crash,
                      Exit, Down, Restart, reconcilerVars
  <1>6. ASSUME NEW g \in Handlers,
               \/ HandlerStep(g) \/ Heartbeat(g)
               \/ \E m \in Messages : Fetch(g, m)
        PROVE  cleanup' = cleanup
    BY <1>6 DEF HandlerStep, ClaimWins, ClaimRefused, ClaimFails, Unclaimed, Load,
                Gather, Analyze, Persist, WriteCodes, CodesUnanswered, RecordCodes,
                WriteComment, RecordComment, Complete, ReadFailure, ApplyFailure,
                Remove, Nak, AnswerLost, Answer, Heartbeat, Fetch, reconcilerVars
  <1>7. CASE \/ \E p \in patches : CtcAccepts(p) \/ CtcRefuses(p)
             \/ \E m \in Messages : AckWaitExpires(m)
             \/ LeaseExpires \/ ExternalEdit \/ UNCHANGED vars
    <2>1. cleanup' = cleanup
      BY <1>7 DEF CtcAccepts, CtcRefuses, CtcAnswers, AckWaitExpires, LeaseExpires,
                  ExternalEdit, reconcilerVars, vars
    <2>2. QED
      BY <1>4, <2>1
  <1>8. QED
    BY <1>2, <1>3, <1>4, <1>5, <1>6, <1>7 DEF Next, ReconcilerStep

\* A message is removed by a handler or a reconciler that has seen the row closed.
LEMMA GoneSeesClosed ==
  ASSUME TypeInv, WorkInv, [Next]_vars, NEW m \in Messages, message'[m] = "gone"
  PROVE  Closed(row)'
  <1>1. row \in Row /\ message \in [Messages -> MessageState]
    BY DEF TypeInv, TypeOK
  <1>2. Closed(row) => Closed(row)'
    BY <1>1, RowMoves, ClosedStays
  <1>3. message[m] = "gone" => Closed(row)'
    BY <1>2 DEF WorkInv
  <1>4. ASSUME NEW h \in Handlers, Remove(h)
        PROVE  Closed(row)'
    BY <1>2, <1>4 DEF Remove, WorkInv
  <1>5. ASSUME NEW w \in Workers, NEW x \in Messages, DeleteMessage(w, x)
        PROVE  Closed(row)'
    BY <1>2, <1>5 DEF DeleteMessage, WorkInv
  <1>6. ASSUME NEW x, Redeliver(x)
        PROVE  message[m] = "gone"
    BY <1>1, <1>6 DEF Redeliver
  <1>7. ASSUME NEW h \in Handlers,
               \/ HandlerStep(h) \/ Heartbeat(h)
               \/ \E x \in Messages : Fetch(h, x)
        PROVE  Remove(h) \/ message[m] = "gone"
    <2>1. CASE Nak(h)
      BY <1>6, <2>1 DEF Nak
    <2>2. CASE \E x \in Messages : Fetch(h, x)
      BY <1>1, <2>2 DEF Fetch
    <2>3. CASE (HandlerStep(h) /\ ~Nak(h) /\ ~Remove(h)) \/ Heartbeat(h)
      BY <2>3 DEF HandlerStep, ClaimWins, ClaimRefused, ClaimFails, Unclaimed, Load,
                  Gather, Analyze, Persist, WriteCodes, CodesUnanswered, RecordCodes,
                  WriteComment, RecordComment, Complete, ReadFailure, ApplyFailure,
                  AnswerLost, Heartbeat, queueVars
    <2>4. QED
      BY <1>7, <2>1, <2>2, <2>3
  <1>8. CASE \/ \E p \in patches : CtcAccepts(p) \/ CtcRefuses(p)
             \/ \E w \in Workers : \/ Drain(w) \/ Crash(w) \/ Exit(w) \/ Restart(w)
                                   \/ Receive(w) \/ ReconcileCommits(w)
                                   \/ ReconcileFails(w)
                                   \/ \E x \in Messages : DeleteFails(w, x)
             \/ LeaseExpires \/ ExternalEdit \/ UNCHANGED vars
    <2>1. message' = message
      BY <1>8 DEF CtcAccepts, CtcRefuses, CtcAnswers, Drain, Crash, Exit, Down, Restart,
                  Receive, ReconcileCommits, ReconcileFails, DeleteFails, LeaseExpires,
                  ExternalEdit, queueVars, vars
    <2>2. QED
      BY <1>3, <2>1
  <1>9. ASSUME NEW x \in Messages, AckWaitExpires(x)
        PROVE  message[m] = "gone"
    BY <1>6, <1>9 DEF AckWaitExpires
  <1>10. QED
    BY <1>3, <1>4, <1>5, <1>7, <1>8, <1>9 DEF Next, ReconcilerStep

\* No message leaves the stream while its investigation is queued or processing, for
\* any number of handlers, copies of the event, crashes and lost answers.
THEOREM NoWorkLostCorrect == Spec => []NoWorkLost
  <1>1. Init => WorkInv
    BY DEF Init, WorkInv
  <1>2. TypeInv /\ WorkInv /\ [Next]_vars => WorkInv'
    BY RemovalSeesClosed, CleanupSeesClosed, GoneSeesClosed DEF WorkInv, Removing
  <1>3. WorkInv => NoWorkLost
    BY DEF WorkInv, NoWorkLost, Closed
  <1>4. QED
    BY <1>1, <1>2, <1>3, TypeInvariant, PTL DEF Spec

-----------------------------------------------------------------------------
(* What a step does to a handler that runs an investigation: the counterpart of *)
(* RowMove.  A run goes forward along its stages, or it is over.                *)

Same(h) == pc'[h] = pc[h] /\ task'[h] = task[h]
Moves(h, from, to) == pc[h] = from /\ pc'[h] = to

Loaded(h) ==
    /\ pc[h] = "load" /\ pc'[h] \in {"gather", "complete"}
    /\ row.status # "absent" /\ row.worker = WorkerOf[h] /\ row' = row
    /\ task'[h] = [task[h] EXCEPT !.seen = [analysis |-> row.analysis,
                                            codes |-> row.codes,
                                            comment |-> row.comment]]
    /\ pc'[h] = "complete" => row.comment \in CommentDone /\ row.codes \in CodesDone

Gathered(h) ==
    LET restored == task[h].seen.analysis
    IN  /\ pc[h] = "gather" /\ row' = row /\ ctc' = ctc
        /\ pc'[h] = IF restored # NoAnalysis THEN "codes" ELSE "analyze"
        /\ task'[h] = [task[h] EXCEPT !.version = ctc.version, !.analysis = restored]

Analyzed(h) ==
    /\ Moves(h, "analyze", "persist") /\ row' = row
    /\ task'[h] = [task[h] EXCEPT !.analysis = [attempt |-> task[h].attempt,
                                                version |-> task[h].version]]

\* A stage that leaves the locals as they are.
Passed(h) ==
    /\ task'[h] = task[h]
    /\ \/ /\ Moves(h, "persist", "codes") /\ Owns(h)
          /\ row' = AnalysisPersisted(row, task[h].analysis)
       \/ /\ Moves(h, "codes", "codes_sent") /\ row' = row
          /\ task[h].seen.codes = "pending"
       \/ /\ Moves(h, "codes", "comment") /\ row' = row
          /\ task[h].seen.codes \in CodesDone
       \/ /\ Moves(h, "record_codes", "comment") /\ Owns(h)
          /\ row' = CodesRecorded(row, task[h].outcome) /\ task[h].outcome # "failed"
       \/ /\ Moves(h, "comment", "complete") /\ row' = row
          /\ task[h].seen.comment \in CommentDone
       \/ /\ Moves(h, "record_comment", "complete") /\ Owns(h)
          /\ row' = CommentRecorded(row, task[h].outcome) /\ task[h].outcome # "failed"

\* A write-back has been answered, or is not made at all.
Answered(h) ==
    \E outcome \in Outcome \ {"pending"} :
        /\ row' = row
        /\ task'[h] = [task[h] EXCEPT !.outcome = outcome]
        /\ \/ /\ Moves(h, "codes", "record_codes") /\ task[h].seen.codes = "pending"
              /\ outcome = "skipped_disabled"
           \/ /\ Moves(h, "codes_sent", "record_codes")
              /\ outcome = "written" => ctc'.writes = ctc.writes + 1
           \/ /\ Moves(h, "comment", "record_comment") /\ task[h].seen.comment = "pending"
              /\ outcome # "skipped_version_conflict"
              /\ outcome = "written" => ctc'.comments = ctc.comments + 1

RunMove(h) ==
    \/ Same(h)
    \/ pc'[h] \notin OwnedRun
    \/ ClaimWins(h) \/ Loaded(h) \/ Gathered(h) \/ Analyzed(h) \/ Passed(h) \/ Answered(h)

\* Handlers have their places and locals to themselves.
LEMMA OthersSame ==
  ASSUME TypeInv, NEW g \in Handlers, NEW h \in Handlers, g # h,
         \/ HandlerStep(g) \/ Heartbeat(g) \/ \E m \in Messages : Fetch(g, m)
  PROVE  Same(h)
  <1> USE DEF TypeInv, HandlersTyped, Same
  <1>1. ASSUME NEW stage, Goto(g, stage) PROVE Same(h)
    BY <1>1 DEF Goto
  <1>2. ASSUME NEW stage, Leave(g, stage) PROVE Same(h)
    BY <1>2 DEF Leave
  <1>3. ASSUME NEW cause, Fail(g, cause) PROVE Same(h)
    BY <1>3 DEF Fail
  <1>4. ASSUME Lose(g) PROVE Same(h)
    BY <1>2, <1>4 DEF Lose
  <1>5. ASSUME Answer(g) PROVE Same(h)
    BY <1>5 DEF Answer
  <1>6. ASSUME NEW stage, AfterOutcome(g, stage) PROVE Same(h)
    BY <1>1, <1>3, <1>6 DEF AfterOutcome
  <1>7. ASSUME NEW recorded, NEW done, NEW stage, Resume(g, recorded, done, stage)
        PROVE  Same(h)
    BY <1>1, <1>3, <1>7 DEF Resume
  <1>8. CASE ClaimWins(g) \/ ClaimRefused(g) \/ ClaimFails(g) \/ Unclaimed(g)
    BY <1>1, <1>2, <1>8 DEF ClaimWins, ClaimRefused, ClaimFails, Unclaimed
  <1>9. CASE Load(g) \/ Gather(g) \/ Analyze(g)
    BY <1>3, <1>4, <1>9 DEF Load, Gather, Analyze
  <1>10. CASE Persist(g) \/ RecordCodes(g) \/ RecordComment(g) \/ Complete(g)
    BY <1>1, <1>2, <1>3, <1>4, <1>6, <1>10
    DEF Persist, RecordCodes, RecordComment, Complete, Store
  <1>11. CASE WriteCodes(g) \/ WriteComment(g) \/ CodesUnanswered(g)
    BY <1>1, <1>3, <1>7, <1>11 DEF WriteCodes, WriteComment, CodesUnanswered, CommentUnanswered
  <1>12. CASE ReadFailure(g) \/ ApplyFailure(g)
    BY <1>2, <1>4, <1>12 DEF ReadFailure, ApplyFailure
  <1>13. CASE Remove(g) \/ Nak(g) \/ AnswerLost(g)
    BY <1>5, <1>13 DEF Remove, Nak, AnswerLost
  <1>14. CASE Heartbeat(g)
    BY <1>4, <1>14 DEF Heartbeat, handlerVars
  <1>15. CASE \E m \in Messages : Fetch(g, m)
    BY <1>15 DEF Fetch
  <1>16. QED
    BY <1>8, <1>9, <1>10, <1>11, <1>12, <1>13, <1>14, <1>15 DEF HandlerStep

\* A run that fails or loses its row is over, and so is one that answers.
LEMMA RunEnds ==
  ASSUME TypeInv, NEW h \in Handlers,
         \/ \E cause \in Cause : Fail(h, cause)
         \/ Lose(h) \/ Answer(h)
         \/ \E stage \in {"ack", "nak", "term"} : Leave(h, stage)
         \/ \E stage \in {"unclaimed"} : Goto(h, stage)
  PROVE  pc'[h] \notin OwnedRun
  BY DEF TypeInv, HandlersTyped, Fail, Lose, Leave, Answer, Goto, OwnedRun

\* A guarded update that does not end the run has changed the row.
LEMMA StorePasses ==
  ASSUME TypeInv, NEW h \in Handlers, NEW STATE updated, NEW ACTION continue,
         Store(h, updated, continue)
  PROVE  \/ pc'[h] \notin OwnedRun
         \/ Owns(h) /\ row' = updated /\ continue
  <1>1. "transient" \in Cause
    BY DEF Cause
  <1>2. QED
    BY <1>1, RunEnds DEF Store

\* The steps of a handler move its run.
LEMMA OwnRunMove ==
  ASSUME TypeInv, NEW h \in Handlers,
         \/ HandlerStep(h) \/ Heartbeat(h) \/ \E m \in Messages : Fetch(h, m)
  PROVE  RunMove(h)
  <1>t. pc \in [Handlers -> Stage] /\ task \in [Handlers -> Task] /\ task[h] \in Task
    BY DEF TypeInv, HandlersTyped
  <1>c. {"transient", "permanent", "interrupted"} = Cause
    BY DEF Cause
  <1>1. CASE ClaimWins(h)
    BY <1>1 DEF RunMove
  <1>2. CASE ClaimRefused(h) \/ ClaimFails(h) \/ Unclaimed(h) \/ CodesUnanswered(h)
    <2>1. pc'[h] \notin OwnedRun
      BY <1>2, <1>c, RunEnds DEF ClaimRefused, ClaimFails, Unclaimed, CodesUnanswered
    <2>2. QED
      BY <2>1 DEF RunMove
  <1>3. CASE Load(h)
    <2> DEFINE seen == [analysis |-> row.analysis, codes |-> row.codes,
                        comment |-> row.comment]
               done == seen.comment \in CommentDone /\ seen.codes \in CodesDone
    <2>1. CASE \/ Fail(h, "permanent") \/ Fail(h, "transient") \/ Lose(h)
      BY <1>c, <2>1, RunEnds DEF RunMove
    <2>2. CASE /\ row.status # "absent" /\ row.worker = WorkerOf[h]
               /\ pc' = [pc EXCEPT ![h] = IF done THEN "complete" ELSE "gather"]
               /\ task' = [task EXCEPT ![h].seen = seen]
      BY <1>3, <1>t, <2>2 DEF Load, Loaded, RunMove
    <2>3. QED
      BY <1>3, <2>1, <2>2 DEF Load
  <1>4. CASE Gather(h)
    <2>1. CASE \E cause \in {"transient", "permanent"} : Fail(h, cause)
      BY <1>c, <2>1, RunEnds DEF RunMove
    <2>2. CASE ~\E cause \in {"transient", "permanent"} : Fail(h, cause)
      <3>1. Gathered(h)
        BY <1>4, <1>t, <2>2 DEF Gather, Gathered, ctcVars
      <3>2. QED
        BY <3>1 DEF RunMove
    <2>3. QED
      BY <2>1, <2>2
  <1>5. CASE Analyze(h)
    <2>1. CASE \E cause \in {"transient", "permanent"} : Fail(h, cause)
      BY <1>c, <2>1, RunEnds DEF RunMove
    <2>2. CASE ~\E cause \in {"transient", "permanent"} : Fail(h, cause)
      BY <1>5, <1>t, <2>2 DEF Analyze, Analyzed, Moves, RunMove
    <2>3. QED
      BY <2>1, <2>2
  <1>6. CASE Persist(h)
    <2>1. CASE pc'[h] \notin OwnedRun
      BY <2>1 DEF RunMove
    <2>2. CASE Owns(h) /\ row' = AnalysisPersisted(row, task[h].analysis) /\ Goto(h, "codes")
      BY <1>6, <1>t, <2>2 DEF Persist, Goto, Passed, Moves, RunMove
    <2>3. QED
      BY <1>6, <2>1, <2>2, StorePasses DEF Persist
  <1>7. CASE WriteCodes(h)
    <2>1. CASE Resume(h, task[h].seen.codes, CodesDone, "comment")
      <3>1. CASE Fail(h, "permanent")
        BY <1>c, <3>1, RunEnds DEF RunMove
      <3>2. CASE task[h].seen.codes \in CodesDone /\ Goto(h, "comment")
        BY <1>7, <1>t, <3>2 DEF WriteCodes, Goto, Passed, Moves, RunMove
      <3>3. QED
        BY <2>1, <3>1, <3>2 DEF Resume
    <2>2. CASE /\ task[h].seen.codes = "pending"
               /\ pc' = [pc EXCEPT ![h] = "record_codes"]
               /\ task' = [task EXCEPT ![h].outcome = "skipped_disabled"]
      <3>1. "skipped_disabled" \in Outcome \ {"pending"}
        BY DEF Outcome
      <3>2. QED
        BY <1>7, <1>t, <2>2, <3>1 DEF WriteCodes, Answered, Moves, RunMove
    <2>3. CASE task[h].seen.codes = "pending" /\ Goto(h, "codes_sent")
      BY <1>7, <1>t, <2>3 DEF WriteCodes, Goto, Passed, Moves, RunMove
    <2>4. QED
      BY <1>7, <2>1, <2>2, <2>3 DEF WriteCodes
  <1>8. CASE RecordCodes(h)
    <2>1. CASE pc'[h] \notin OwnedRun
      BY <2>1 DEF RunMove
    <2>2. CASE /\ Owns(h) /\ row' = CodesRecorded(row, task[h].outcome)
               /\ AfterOutcome(h, "comment")
      <3>1. CASE Fail(h, "permanent")
        BY <1>c, <3>1, RunEnds DEF RunMove
      <3>2. CASE task[h].outcome # "failed" /\ Goto(h, "comment")
        BY <1>8, <1>t, <2>2, <3>2 DEF RecordCodes, Goto, Passed, Moves, RunMove
      <3>3. QED
        BY <2>2, <3>1, <3>2 DEF AfterOutcome
    <2>3. QED
      BY <1>8, <2>1, <2>2, StorePasses DEF RecordCodes
  <1>9. CASE WriteComment(h)
    <2>1. CASE Fail(h, "transient") \/ Fail(h, "permanent")
      BY <1>c, <2>1, RunEnds DEF RunMove
    <2>2. CASE Resume(h, task[h].seen.comment, CommentDone, "complete")
      <3>1. CASE task[h].seen.comment \in CommentDone /\ Goto(h, "complete")
        BY <1>9, <1>t, <3>1 DEF WriteComment, Goto, Passed, Moves, RunMove
      <3>2. QED
        BY <2>1, <2>2, <3>1 DEF Resume
    <2>3. ASSUME NEW outcome \in {"written", "failed", "skipped_disabled"},
                 task[h].seen.comment = "pending",
                 outcome = "written" => ctc'.comments = ctc.comments + 1,
                 pc' = [pc EXCEPT ![h] = "record_comment"],
                 task' = [task EXCEPT ![h].outcome = outcome]
          PROVE  RunMove(h)
      <3>1. outcome \in Outcome \ {"pending"} /\ outcome # "skipped_version_conflict"
        BY DEF Outcome
      <3>2. /\ pc[h] = "comment" /\ row' = row /\ pc'[h] = "record_comment"
            /\ task'[h] = [task[h] EXCEPT !.outcome = outcome]
        BY <1>9, <1>t, <2>3 DEF WriteComment
      <3>3. Answered(h)
        BY <2>3, <3>1, <3>2 DEF Answered, Moves
      <3>4. QED
        BY <3>3 DEF RunMove
    <2>4. ASSUME NEW posted \in BOOLEAN, task[h].seen.comment = "pending",
                 ctc' = [ctc EXCEPT !.comments = IF posted THEN @ + 1 ELSE @],
                 pc' = [pc EXCEPT ![h] = "record_comment"],
                 task' = [task EXCEPT ![h].outcome =
                                  IF posted THEN "written" ELSE "failed"]
          PROVE  RunMove(h)
      <3>1. posted => ctc'.comments = ctc.comments + 1
        BY <2>4 DEF TypeInv, TypeOK, Ctc
      <3>2. CASE posted
        BY <2>3, <2>4, <3>1, <3>2
      <3>3. CASE ~posted
        BY <2>3, <2>4, <3>3
      <3>4. QED
        BY <3>2, <3>3
    <2>5. QED
      BY <1>9, <2>1, <2>2, <2>3, <2>4 DEF WriteComment, CommentUnanswered
  <1>10. CASE RecordComment(h)
    <2>1. CASE pc'[h] \notin OwnedRun
      BY <2>1 DEF RunMove
    <2>2. CASE /\ Owns(h) /\ row' = CommentRecorded(row, task[h].outcome)
               /\ AfterOutcome(h, "complete")
      <3>1. CASE Fail(h, "permanent")
        BY <1>c, <3>1, RunEnds DEF RunMove
      <3>2. CASE task[h].outcome # "failed" /\ Goto(h, "complete")
        BY <1>10, <1>t, <2>2, <3>2 DEF RecordComment, Goto, Passed, Moves, RunMove
      <3>3. QED
        BY <2>2, <3>1, <3>2 DEF AfterOutcome
    <2>3. QED
      BY <1>10, <2>1, <2>2, StorePasses DEF RecordComment
  <1>11. CASE Complete(h)
    <2>1. Leave(h, "ack") \/ Leave(h, "nak") => pc'[h] \notin OwnedRun
      BY RunEnds
    <2>2. QED
      BY <1>11, <2>1, StorePasses DEF Complete, RunMove
  <1>12. CASE ReadFailure(h) \/ ApplyFailure(h)
    <2>1. CASE pc' = [pc EXCEPT ![h] = "apply_failure"]
      BY <1>t, <2>1 DEF RunMove, OwnedRun
    <2>2. CASE Lose(h) \/ \E stage \in {"nak", "term"} : Leave(h, stage)
      BY <2>2, RunEnds DEF RunMove
    <2>3. QED
      BY <1>12, <2>1, <2>2 DEF ReadFailure, ApplyFailure
  <1>13. CASE Remove(h) \/ Nak(h) \/ AnswerLost(h)
    BY <1>13, RunEnds DEF Remove, Nak, AnswerLost, RunMove
  <1>14. CASE Heartbeat(h)
    BY <1>14, RunEnds DEF Heartbeat, handlerVars, Same, RunMove
  <1>15. CASE \E m \in Messages : Fetch(h, m)
    BY <1>t, <1>15 DEF Fetch, RunMove, OwnedRun
  <1>16. QED
    BY <1>1, <1>2, <1>3, <1>4, <1>5, <1>6, <1>7, <1>8, <1>9, <1>10, <1>11, <1>12,
       <1>13, <1>14, <1>15 DEF HandlerStep

\* Every step moves every run, or leaves it alone.
LEMMA RunMoves ==
  ASSUME TypeInv, [Next]_vars, NEW h \in Handlers
  PROVE  RunMove(h)
  <1>t. pc \in [Handlers -> Stage] /\ task \in [Handlers -> Task]
    BY DEF TypeInv, HandlersTyped
  <1>1. ASSUME NEW g \in Handlers,
               HandlerStep(g) \/ Heartbeat(g) \/ \E m \in Messages : Fetch(g, m)
        PROVE  RunMove(h)
    BY <1>1, OwnRunMove, OthersSame DEF RunMove
  <1>2. ASSUME NEW p \in patches, CtcAccepts(p) \/ CtcRefuses(p)
        PROVE  RunMove(h)
    <2>1. PICK outcome \in {"written", "skipped_version_conflict", "failed"} :
              /\ CtcAnswers(p, outcome)
              /\ outcome = "written" => ctc'.writes = ctc.writes + 1
      BY <1>2 DEF CtcAccepts, CtcRefuses, TypeInv, TypeOK, Ctc
    <2>2. CASE Same(h)
      BY <2>2 DEF RunMove
    <2>3. CASE ~Same(h)
      <3>1. /\ h = p.handler /\ Moves(h, "codes_sent", "record_codes") /\ row' = row
            /\ task'[h] = [task[h] EXCEPT !.outcome = outcome]
        BY <1>t, <2>1, <2>3 DEF CtcAnswers, Same, Moves, handlerVars
      <3>2. outcome \in Outcome \ {"pending"}
        BY DEF Outcome
      <3>3. QED
        BY <2>1, <3>1, <3>2 DEF Answered, RunMove
    <2>4. QED
      BY <2>2, <2>3
  <1>3. ASSUME NEW w \in Workers, Drain(w)
        PROVE  RunMove(h)
    BY <1>3 DEF Drain, RunMove, Same, OwnedRun
  <1>4. ASSUME NEW w \in Workers, Crash(w) \/ Exit(w)
        PROVE  RunMove(h)
    BY <1>4 DEF Crash, Exit, Down, RunMove, Same, OwnedRun
  <1>5. CASE \/ \E w \in Workers : ReconcilerStep(w) \/ Restart(w)
             \/ \E m \in Messages : AckWaitExpires(m)
             \/ LeaseExpires \/ ExternalEdit \/ UNCHANGED vars
    <2>1. UNCHANGED handlerVars
      BY <1>5 DEF ReconcilerStep, Receive, ReconcileCommits, ReconcileFails,
                  DeleteMessage, DeleteFails, Restart, AckWaitExpires, LeaseExpires,
                  ExternalEdit, handlerVars, vars
    <2>2. QED
      BY <2>1 DEF handlerVars, Same, RunMove
  <1>6. QED
    BY <1>1, <1>2, <1>3, <1>4, <1>5 DEF Next

-----------------------------------------------------------------------------
(* What a run knows by itself, whoever owns the row.                           *)

LocalRun(h) ==
    /\ pc[h] \in OwnedRun => task[h].attempt # 0
    /\ pc[h] \in {"analyze", "persist"} =>
           task[h].seen.analysis = NoAnalysis /\ task[h].version # 0
    /\ pc[h] = "persist" =>
           task[h].analysis = [attempt |-> task[h].attempt, version |-> task[h].version]
    /\ pc[h] \in {"codes", "codes_sent", "record_codes"} =>
           /\ task[h].analysis # NoAnalysis
           /\ task[h].analysis.version = CodesVersion(task[h])
    /\ pc[h] \in {"codes_sent", "record_codes"} => task[h].seen.codes = "pending"
    /\ pc[h] = "record_codes" =>
           /\ task[h].outcome \in CodesDone \cup {"failed"}
           /\ task[h].outcome = "written" => ctc.writes > 0
    /\ pc[h] = "record_comment" =>
           /\ task[h].seen.comment = "pending"
           /\ task[h].outcome \in CommentDone \cup {"failed"}
           /\ task[h].outcome = "written" => ctc.comments > 0

RunInv ==
    /\ ctc.version # 0
    /\ \A h \in Handlers : LocalRun(h)
    /\ CodesFollowTheEvidence
    /\ RecordedWritesHappened

\* CTC's counters grow; a comment or codes that were written have been.
LEMMA CtcGrows ==
  ASSUME TypeInv, ctc.version # 0, [Next]_vars
  PROVE  /\ ctc'.version # 0
         /\ ctc.writes > 0 => ctc'.writes > 0
         /\ ctc.comments > 0 => ctc'.comments > 0
  <1>1. ctc \in Ctc /\ ctc.version \in Nat /\ ctc.writes \in Nat /\ ctc.comments \in Nat
    BY DEF TypeInv, TypeOK, Ctc
  <1>2. CASE ctc' = ctc
    BY <1>2, <1>1
  <1>3. ASSUME NEW p \in patches, CtcAccepts(p)
        PROVE  /\ ctc'.version # 0
               /\ ctc.writes > 0 => ctc'.writes > 0
               /\ ctc.comments > 0 => ctc'.comments > 0
    BY <1>1, <1>3 DEF CtcAccepts, Ctc
  <1>4. ASSUME NEW h \in Handlers, WriteComment(h)
        PROVE  /\ ctc'.version # 0
               /\ ctc.writes > 0 => ctc'.writes > 0
               /\ ctc.comments > 0 => ctc'.comments > 0
    <2>1. ctc' = ctc \/ ctc' = [ctc EXCEPT !.comments = ctc.comments + 1]
                     \/ ctc' = [ctc EXCEPT !.comments = ctc.comments]
      BY <1>4 DEF WriteComment
    <2>2. QED
      BY <1>1, <2>1 DEF Ctc
  <1>5. CASE ExternalEdit
    BY <1>1, <1>5 DEF ExternalEdit, Ctc
  <1>6. ASSUME NEW h \in Handlers,
               \/ HandlerStep(h) \/ Heartbeat(h)
               \/ \E m \in Messages : Fetch(h, m)
        PROVE  ctc' = ctc \/ WriteComment(h)
    BY <1>6 DEF HandlerStep, ClaimWins, ClaimRefused, ClaimFails, Unclaimed, Load,
                Gather, Analyze, Persist, WriteCodes, CodesUnanswered, RecordCodes,
                RecordComment, Complete, ReadFailure, ApplyFailure, Remove, Nak,
                AnswerLost, Answer, Heartbeat, Fetch, ctcVars
  <1>7. CASE \/ \E p \in patches : CtcRefuses(p)
             \/ \E w \in Workers : \/ ReconcilerStep(w) \/ Restart(w)
                                   \/ Drain(w) \/ Crash(w) \/ Exit(w)
             \/ \E m \in Messages : AckWaitExpires(m)
             \/ LeaseExpires \/ UNCHANGED vars
    <2>1. ctc' = ctc
      BY <1>7 DEF CtcRefuses, ReconcilerStep, Receive, ReconcileCommits, ReconcileFails,
                  DeleteMessage, DeleteFails, Restart, Drain, Crash, Exit, Down,
                  AckWaitExpires, LeaseExpires, ctcVars, vars
    <2>2. QED
      BY <1>2, <2>1
  <1>8. QED
    BY <1>2, <1>3, <1>4, <1>5, <1>6, <1>7 DEF Next

\* A run's own moves keep what it knows by itself.
LEMMA LocalRunStep ==
  ASSUME TypeInv, ctc.version # 0, [Next]_vars, NEW h \in Handlers, LocalRun(h)
  PROVE  LocalRun(h)'
  <1>t. /\ pc[h] \in Stage /\ task[h] \in Task /\ ctc \in Ctc
        /\ ctc.writes \in Nat /\ ctc.comments \in Nat /\ ctc.version \in Nat
    BY DEF TypeInv, TypeOK, HandlersTyped, Ctc
  <1>g. /\ ctc.writes > 0 => ctc'.writes > 0
        /\ ctc.comments > 0 => ctc'.comments > 0
    BY CtcGrows
  <1>s. /\ "record_codes" \in OwnedRun /\ "record_comment" \in OwnedRun
        /\ {"analyze", "persist", "codes", "codes_sent"} \subseteq OwnedRun
    BY DEF OwnedRun
  <1>o. {"load", "gather", "comment", "complete"} \subseteq OwnedRun
    BY DEF OwnedRun
  <1>1. CASE Same(h)
    BY <1>1, <1>g DEF Same, LocalRun, CodesVersion
  <1>2. CASE pc'[h] \notin OwnedRun
    BY <1>2, <1>s DEF LocalRun
  <1>3. CASE ClaimWins(h)
    <2>1. pc'[h] = "load" /\ task'[h].attempt = row.attempts + 1 /\ row.attempts \in Nat
      BY <1>3, <1>t DEF ClaimWins, TypeInv, TypeOK, HandlersTyped, Row, Task
    <2>2. QED
      BY <2>1 DEF LocalRun
  <1>4. CASE Loaded(h)
    <2>1. task'[h].attempt = task[h].attempt
      BY <1>4, <1>t DEF Loaded, Task
    <2>2. QED
      BY <1>4, <2>1, <1>o DEF Loaded, LocalRun
  <1>5. CASE Gathered(h)
    <2>1. /\ task'[h].version = ctc.version /\ task'[h].seen = task[h].seen
          /\ task'[h].analysis = task[h].seen.analysis
          /\ task'[h].attempt = task[h].attempt /\ pc[h] = "gather"
          /\ pc'[h] = IF task[h].seen.analysis # NoAnalysis THEN "codes" ELSE "analyze"
      BY <1>5, <1>t DEF Gathered, Task
    <2>2. QED
      BY <1>o, <2>1 DEF LocalRun, CodesVersion
  <1>6. CASE Analyzed(h)
    <2>1. /\ task'[h].version = task[h].version /\ task'[h].seen = task[h].seen
          /\ task'[h].attempt = task[h].attempt
          /\ task'[h].analysis = [attempt |-> task[h].attempt, version |-> task[h].version]
          /\ pc[h] = "analyze" /\ pc'[h] = "persist"
      BY <1>6, <1>t DEF Analyzed, Moves, Task
    <2>2. QED
      BY <1>s, <2>1 DEF LocalRun
  <1>7. CASE Passed(h)
    <2>1. CASE Moves(h, "persist", "codes")
      BY <1>7, <1>s, <2>1 DEF Passed, Moves, LocalRun, CodesVersion, NoAnalysis
    <2>2. CASE ~Moves(h, "persist", "codes")
      BY <1>7, <1>s, <1>o, <2>2 DEF Passed, Moves, LocalRun, CodesVersion
    <2>3. QED
      BY <2>1, <2>2
  <1>8. CASE Answered(h)
    <2>1. PICK outcome \in Outcome \ {"pending"} :
            /\ task'[h] = [task[h] EXCEPT !.outcome = outcome]
            /\ \/ /\ Moves(h, "codes", "record_codes") /\ task[h].seen.codes = "pending"
                  /\ outcome = "skipped_disabled"
               \/ /\ Moves(h, "codes_sent", "record_codes")
                  /\ outcome = "written" => ctc'.writes = ctc.writes + 1
               \/ /\ Moves(h, "comment", "record_comment") /\ task[h].seen.comment = "pending"
                  /\ outcome # "skipped_version_conflict"
                  /\ outcome = "written" => ctc'.comments = ctc.comments + 1
      BY <1>8 DEF Answered
    <2>2. /\ task'[h].outcome = outcome /\ task'[h].seen = task[h].seen
          /\ task'[h].analysis = task[h].analysis /\ task'[h].version = task[h].version
          /\ task'[h].attempt = task[h].attempt
      BY <1>t, <2>1 DEF Task
    <2>3. outcome \in CodesDone \cup {"failed"}
          /\ (outcome # "skipped_version_conflict" => outcome \in CommentDone \cup {"failed"})
      BY DEF Outcome, CodesDone, CommentDone
    <2>4. QED
      BY <1>t, <1>s, <1>o, <2>1, <2>2, <2>3 DEF Moves, LocalRun, CodesVersion
  <1>9. QED
    BY <1>1, <1>2, <1>3, <1>4, <1>5, <1>6, <1>7, <1>8, RunMoves DEF RunMove

\* RowMove once more, with the handler that makes the move and its place.
Checkpoint(g) ==
    \/ pc[g] = "persist" /\ row' = AnalysisPersisted(row, task[g].analysis)
    \/ pc[g] = "record_codes" /\ row' = CodesRecorded(row, task[g].outcome)
    \/ pc[g] = "record_comment" /\ row' = CommentRecorded(row, task[g].outcome)
    \/ pc[g] = "complete" /\ row' = Completed(row)

OwnMove(g) ==
    /\ Owns(g)
    /\ \/ row' = LeaseExtended(row)
       \/ Checkpoint(g) /\ pc'[g] # pc[g]
       \/ \E cause \in Cause :
            row' = FailureApplied(row, FailureTarget(cause, row.attempts), cause)

ClaimMove(g) ==
    /\ pc[g] = "claim" /\ pc'[g] # "claim"
    /\ Claimable(row) /\ row' = Claimed(row, WorkerOf[g])

SharedMove ==
    \/ row' = row
    \/ \E g \in Handlers : ClaimMove(g) \/ OwnMove(g)
    \/ row' = [row EXCEPT !.lease = "expired"]
    \/ \E exhausted \in BOOLEAN : row' \in Reconciled(row, exhausted)

\* Every step makes one of these moves.
LEMMA SharedMoves ==
  ASSUME TypeInv, [Next]_vars
  PROVE  SharedMove
  <1>t. pc \in [Handlers -> Stage] /\ task \in [Handlers -> Task]
    BY DEF TypeInv, HandlersTyped
  <1>1. ASSUME NEW g \in Handlers, ClaimWins(g) \/ ClaimFails(g)
        PROVE  SharedMove
    BY <1>t, <1>1 DEF ClaimWins, ClaimFails, Leave, ClaimMove, SharedMove
  <1>2. ASSUME NEW g \in Handlers,
               Persist(g) \/ RecordCodes(g) \/ RecordComment(g) \/ Complete(g)
        PROVE  SharedMove
    <2>1. pc'[g] # pc[g]
      BY <1>t, <1>2 DEF Persist, RecordCodes, RecordComment, Complete, Store, Goto, Leave,
                        Fail, Lose, AfterOutcome
    <2>2. row' = row \/ (Owns(g) /\ Checkpoint(g))
      BY <1>2, StoreMoves DEF Persist, RecordCodes, RecordComment, Complete, Checkpoint, Owns
    <2>3. QED
      BY <2>1, <2>2 DEF OwnMove, SharedMove
  <1>3. ASSUME NEW g \in Handlers, ApplyFailure(g)
        PROVE  SharedMove
    <2>1. task[g].cause \in Cause
      BY <1>t DEF Task
    <2>2. \/ row' = row
          \/ /\ FailureAppliesTo(row, WorkerOf[g], task[g].expected)
             /\ row' = FailureApplied(row, FailureTarget(task[g].cause, task[g].expected),
                                      task[g].cause)
      BY <1>3 DEF ApplyFailure
    <2>3. QED
      BY <2>1, <2>2 DEF FailureAppliesTo, Owns, OwnMove, SharedMove
  <1>4. ASSUME NEW g \in Handlers, Heartbeat(g)
        PROVE  SharedMove
    BY <1>4 DEF Heartbeat, OwnMove, SharedMove
  <1>5. ASSUME NEW g \in Handlers,
               \/ ClaimRefused(g) \/ Unclaimed(g) \/ Load(g) \/ Gather(g) \/ Analyze(g)
               \/ WriteCodes(g) \/ CodesUnanswered(g) \/ WriteComment(g)
               \/ ReadFailure(g) \/ Remove(g) \/ Nak(g) \/ AnswerLost(g)
        PROVE  SharedMove
    BY <1>5 DEF ClaimRefused, Unclaimed, Load, Gather, Analyze, WriteCodes,
                CodesUnanswered, WriteComment, ReadFailure, Remove, Nak, AnswerLost,
                Answer, SharedMove
  <1>6. ASSUME NEW w \in Workers, ReconcilerStep(w)
        PROVE  SharedMove
    BY <1>6 DEF ReconcilerStep, Receive, ReconcileCommits, ReconcileFails,
                DeleteMessage, DeleteFails, SharedMove
  <1>7. CASE LeaseExpires
    BY <1>7 DEF LeaseExpires, SharedMove
  <1>8. CASE \/ \E h \in Handlers, m \in Messages : Fetch(h, m)
             \/ \E p \in patches : CtcAccepts(p) \/ CtcRefuses(p)
             \/ \E w \in Workers : Drain(w) \/ Crash(w) \/ Exit(w) \/ Restart(w)
             \/ \E m \in Messages : AckWaitExpires(m)
             \/ ExternalEdit
             \/ UNCHANGED vars
    BY <1>8 DEF Fetch, CtcAccepts, CtcRefuses, CtcAnswers, Drain, Crash, Exit, Down,
                Restart, AckWaitExpires, ExternalEdit, vars, SharedMove
  <1>9. QED
    BY <1>1, <1>2, <1>3, <1>4, <1>5, <1>6, <1>7, <1>8 DEF Next, HandlerStep

\* What each move does to the parts of the row that record the work.
LEMMA MoveEffects ==
  ASSUME row \in Row, SharedMove
  PROVE  \/ /\ row'.analysis = row.analysis /\ row'.codes = row.codes
            /\ row'.comment = row.comment
         \/ /\ row'.status = "absent" /\ row'.analysis = NoAnalysis
            /\ row'.codes = "pending" /\ row'.comment = "pending"
         \/ \E g \in Handlers : Owns(g) /\ Checkpoint(g) /\ pc'[g] # pc[g]
  <1>1. CASE row' = row \/ row' = [row EXCEPT !.lease = "expired"]
    BY <1>1 DEF Row
  <1>2. ASSUME NEW g \in Handlers, ClaimMove(g)
        PROVE  /\ row'.analysis = row.analysis /\ row'.codes = row.codes
               /\ row'.comment = row.comment
    BY <1>2 DEF ClaimMove, Claimed, Row
  <1>3. ASSUME NEW g \in Handlers, OwnMove(g), ~(Checkpoint(g) /\ pc'[g] # pc[g])
        PROVE  /\ row'.analysis = row.analysis /\ row'.codes = row.codes
               /\ row'.comment = row.comment
    BY <1>3 DEF OwnMove, LeaseExtended, FailureApplied, Row
  <1>4. ASSUME NEW exhausted \in BOOLEAN, row' \in Reconciled(row, exhausted)
        PROVE  \/ /\ row'.analysis = row.analysis /\ row'.codes = row.codes
                  /\ row'.comment = row.comment
               \/ /\ row'.status = "absent" /\ row'.analysis = NoAnalysis
                  /\ row'.codes = "pending" /\ row'.comment = "pending"
    BY <1>4 DEF Reconciled, MaxDeliveryApplied, Deleted, NewRow, Row
  <1>5. QED
    BY <1>1, <1>2, <1>3, <1>4 DEF SharedMove, OwnMove

\* Attempts are counted up while the row is there, and a row does not come back.
LEMMA AttemptsGrow ==
  ASSUME row \in Row, SharedMove, row'.status # "absent"
  PROVE  /\ row.status # "absent"
         /\ row'.attempts \in Nat /\ row'.attempts >= row.attempts
  <1>t. row.attempts \in Nat
    BY DEF Row
  <1>1. CASE row' = row \/ row' = [row EXCEPT !.lease = "expired"]
    BY <1>t, <1>1 DEF Row
  <1>2. ASSUME NEW h \in Handlers, ClaimMove(h)
        PROVE  row.status # "absent" /\ row'.attempts = row.attempts + 1
    BY <1>t, <1>2 DEF ClaimMove, Claimable, Claimed, Row
  <1>3. ASSUME NEW h \in Handlers, OwnMove(h)
        PROVE  row.status # "absent" /\ row'.attempts = row.attempts
    <2>1. row.status = "processing"
      BY <1>3 DEF OwnMove, Owns, OwnedBy
    <2>2. CASE row' = LeaseExtended(row)
      BY <2>1, <2>2 DEF LeaseExtended, Row
    <2>3. CASE Checkpoint(h)
      BY <2>1, <2>3 DEF Checkpoint, AnalysisPersisted, CodesRecorded, CommentRecorded,
                        Completed, Row
    <2>4. CASE \E cause \in Cause :
                 row' = FailureApplied(row, FailureTarget(cause, row.attempts), cause)
      BY <2>1, <2>4 DEF FailureApplied, Row
    <2>5. QED
      BY <1>3, <2>2, <2>3, <2>4 DEF OwnMove
  <1>4. ASSUME NEW exhausted \in BOOLEAN, row' \in Reconciled(row, exhausted)
        PROVE  row.status # "absent" /\ row'.attempts = row.attempts
    <2>1. CASE row' = row
      BY <2>1
    <2>2. CASE row' = MaxDeliveryApplied(row)
      BY <2>2 DEF MaxDeliveryApplied, MaxDeliveryOutcome, TerminalStatus, Row
    <2>3. row' # Deleted(row)
      BY DEF Deleted, NewRow
    <2>4. QED
      BY <1>4, <2>1, <2>2, <2>3 DEF Reconciled, Deleted
  <1>5. QED
    BY <1>t, <1>1, <1>2, <1>3, <1>4 DEF SharedMove

\* An outcome that a step records as written has been written.
LEMMA RecordedStep ==
  ASSUME TypeInv, RunInv, [Next]_vars
  PROVE  RecordedWritesHappened'
  <1>t. row \in Row
    BY DEF TypeInv, TypeOK
  <1>g. /\ ctc.writes > 0 => ctc'.writes > 0
        /\ ctc.comments > 0 => ctc'.comments > 0
    BY CtcGrows DEF RunInv
  <1>1. SharedMove
    BY SharedMoves
  <1>2. CASE row'.codes = row.codes /\ row'.comment = row.comment
    BY <1>g, <1>2 DEF RunInv, RecordedWritesHappened
  <1>3. CASE row'.codes = "pending" /\ row'.comment = "pending"
    BY <1>3 DEF RecordedWritesHappened
  <1>4. ASSUME NEW g \in Handlers, Checkpoint(g)
        PROVE  RecordedWritesHappened'
    <2>1. CASE pc[g] = "record_codes" /\ row' = CodesRecorded(row, task[g].outcome)
      <3>1. row'.codes = task[g].outcome /\ row'.comment = row.comment
        BY <1>t, <2>1 DEF CodesRecorded, Row
      <3>2. QED
        BY <1>g, <2>1, <3>1 DEF RunInv, LocalRun, RecordedWritesHappened
    <2>2. CASE pc[g] = "record_comment" /\ row' = CommentRecorded(row, task[g].outcome)
      <3>1. row'.comment = task[g].outcome /\ row'.codes = row.codes
        BY <1>t, <2>2 DEF CommentRecorded, Row
      <3>2. QED
        BY <1>g, <2>2, <3>1 DEF RunInv, LocalRun, RecordedWritesHappened
    <2>3. CASE row' = AnalysisPersisted(row, task[g].analysis) \/ row' = Completed(row)
      BY <1>t, <1>2, <2>3 DEF AnalysisPersisted, Completed, Row
    <2>4. QED
      BY <1>4, <2>1, <2>2, <2>3 DEF Checkpoint
  <1>5. QED
    BY <1>t, <1>1, <1>2, <1>3, <1>4, MoveEffects

\* An update that a step sends is conditional on the version it was made from.
LEMMA PatchStep ==
  ASSUME TypeInv, RunInv, [Next]_vars
  PROVE  CodesFollowTheEvidence'
  <1>1. CASE patches' \subseteq patches
    BY <1>1 DEF RunInv, CodesFollowTheEvidence
  <1>2. ASSUME NEW h \in Handlers, WriteCodes(h)
        PROVE  CodesFollowTheEvidence'
    <2> DEFINE new == [handler |-> h, attempt |-> task[h].attempt,
                       version |-> CodesVersion(task[h]),
                       analysis |-> task[h].analysis]
    <2>1. patches' = patches \/ patches' = patches \cup {new}
      BY <1>2 DEF WriteCodes
    <2>2. new.version = new.analysis.version
      BY <1>2 DEF WriteCodes, RunInv, LocalRun
    <2>3. QED
      BY <2>1, <2>2 DEF RunInv, CodesFollowTheEvidence
  <1>3. ASSUME NEW h \in Handlers,
               \/ HandlerStep(h) \/ Heartbeat(h)
               \/ \E m \in Messages : Fetch(h, m)
        PROVE  patches' = patches \/ WriteCodes(h)
    BY <1>3 DEF HandlerStep, ClaimWins, ClaimRefused, ClaimFails, Unclaimed, Load,
                Gather, Analyze, Persist, WriteComment, CodesUnanswered, RecordCodes,
                RecordComment, Complete, ReadFailure, ApplyFailure, Remove, Nak,
                AnswerLost, Answer, Heartbeat, Fetch, ctcVars
  <1>4. CASE \/ \E p \in patches : CtcAccepts(p) \/ CtcRefuses(p)
             \/ \E w \in Workers : \/ ReconcilerStep(w) \/ Restart(w)
                                   \/ Drain(w) \/ Crash(w) \/ Exit(w)
             \/ \E m \in Messages : AckWaitExpires(m)
             \/ LeaseExpires \/ ExternalEdit \/ UNCHANGED vars
    <2>1. patches' \subseteq patches
      BY <1>4 DEF CtcAccepts, CtcRefuses, CtcAnswers, ReconcilerStep, Receive,
                  ReconcileCommits, ReconcileFails, DeleteMessage, DeleteFails, Restart,
                  Drain, Crash, Exit, Down, AckWaitExpires, LeaseExpires, ExternalEdit,
                  ctcVars, vars
    <2>2. QED
      BY <1>1, <2>1
  <1>5. QED
    BY <1>1, <1>2, <1>3, <1>4 DEF Next

\* What runs know by themselves holds in every run of the system.
LEMMA RunInvCorrect == Spec => []RunInv
  <1>1. Init => RunInv
    BY DEF Init, RunInv, LocalRun, OwnedRun, CodesFollowTheEvidence, RecordedWritesHappened, NewRow
  <1>2. TypeInv /\ RunInv /\ [Next]_vars => RunInv'
    BY CtcGrows, LocalRunStep, RecordedStep, PatchStep DEF RunInv
  <1>3. QED
    BY <1>1, <1>2, TypeInvariant, PTL DEF Spec

\* A code update, of whichever attempt, is conditional on the version that its
\* analysis was made from: it never overwrites an edit the analysis has not seen.
THEOREM EvidenceCorrect == Spec => []CodesFollowTheEvidence
  <1>1. RunInv => CodesFollowTheEvidence
    BY DEF RunInv
  <1>2. QED
    BY <1>1, RunInvCorrect, PTL

\* What the row says was written to CTC was written, whatever answers were lost and
\* whichever worker recorded it.
THEOREM RecordedCorrect == Spec => []RecordedWritesHappened
  <1>1. RunInv => RecordedWritesHappened
    BY DEF RunInv
  <1>2. QED
    BY <1>1, RunInvCorrect, PTL

-----------------------------------------------------------------------------
(* What a run knows of the row it owns.  A worker_id does not tell two runs of  *)
(* one process apart, so a second one may change the row under the first.  What *)
(* follows holds as long as no such run can begin while the first is under way; *)
(* the two theorems after it say when that is so.                               *)

RunsAlone ==
    \A g, h \in Handlers :
        g # h /\ WorkerOf[g] = WorkerOf[h] /\ pc[h] \in OwnedRun =>
            /\ pc[g] \notin OwnedRun
            /\ ~(pc[g] = "claim" /\ Claimable(row))

\* No run is outlived by its lease: the heartbeat is always in time.
LeasesHold == \A h \in Handlers : pc[h] \in OwnedRun => ~Claimable(row)

\* Every handler is a process of its own.
DistinctIdentities ==
    \A g, h \in Handlers : WorkerOf[g] = WorkerOf[h] => g = h

\* Processes that run one delivery at a time have no two runs of one identity.
THEOREM DistinctAloneCorrect ==
  ASSUME DistinctIdentities
  PROVE  Spec => []RunsAlone
  <1>1. RunsAlone
    BY DEF RunsAlone, DistinctIdentities
  <1>2. QED
    BY <1>1, PTL

\* Nor have processes with many slots, as long as no lease runs out under a run:
\* whoever claims the row then finds it held.
THEOREM HeldAloneCorrect == Spec /\ []LeasesHold => []RunsAlone
  <1>1. Init => RunsAlone
    BY DEF Init, RunsAlone, OwnedRun
  <1>2. TypeInv /\ LeasesHold /\ LeasesHold' /\ RunsAlone /\ [Next]_vars => RunsAlone'
    <2> SUFFICES ASSUME TypeInv, LeasesHold, LeasesHold', RunsAlone, [Next]_vars,
                        NEW g \in Handlers, NEW h \in Handlers, g # h,
                        WorkerOf[g] = WorkerOf[h], pc'[h] \in OwnedRun
                 PROVE  pc'[g] \notin OwnedRun /\ ~Claimable(row)'
      BY DEF RunsAlone
    <2>1. ~Claimable(row)'
      BY DEF LeasesHold
    <2>2. ASSUME NEW k \in Handlers, pc'[k] \in OwnedRun
          PROVE  pc[k] \in OwnedRun \/ ClaimWins(k)
      BY <2>2, RunMoves
      DEF RunMove, Same, Loaded, Gathered, Analyzed, Passed, Answered, Moves, OwnedRun
    <2>3. ASSUME NEW k \in Handlers, ClaimWins(k), NEW j \in Handlers, j # k
          PROVE  pc'[j] \notin OwnedRun
      <3>1. pc[j] \notin OwnedRun
        BY <2>3 DEF ClaimWins, LeasesHold
      <3>2. pc'[j] = pc[j]
        BY <2>3 DEF ClaimWins, TypeInv, HandlersTyped
      <3>3. QED
        BY <3>1, <3>2
    <2>4. pc'[g] \notin OwnedRun
      BY <2>2, <2>3 DEF RunsAlone
    <2>5. QED
      BY <2>1, <2>4
  <1>3. QED
    BY <1>1, <1>2, TypeInvariant, PTL DEF Spec

KnownRun(h) ==
    pc[h] \in OwnedRun /\ Owns(h) =>
        /\ row.attempts = task[h].attempt
        /\ pc[h] \in {"gather", "analyze", "persist"} =>
               /\ row.analysis = task[h].seen.analysis
               /\ row.codes = task[h].seen.codes /\ row.comment = task[h].seen.comment
        /\ pc[h] \in {"codes", "codes_sent", "record_codes"} =>
               /\ row.analysis = task[h].analysis
               /\ row.codes = task[h].seen.codes /\ row.comment = task[h].seen.comment
        /\ pc[h] \in {"comment", "record_comment"} =>
               row.codes \in CodesDone /\ row.comment = task[h].seen.comment
        /\ pc[h] = "complete" =>
               row.codes \in CodesDone /\ row.comment \in CommentDone

\* Codes are recorded after an analysis, and a row completes after both.
Ordered ==
    /\ row.codes # "pending" => row.analysis # NoAnalysis
    /\ CompletedIsWritten

KnownInv == Ordered /\ \A h \in Handlers : KnownRun(h)

\* While a run stays where it is and owns the row afterwards, it has owned it before
\* and nobody has recorded anything.
LEMMA OwnedRowKept ==
  ASSUME RunsAlone, TypeInv, [Next]_vars,
         NEW h \in Handlers, pc[h] \in OwnedRun, Same(h), Owns(h)'
  PROVE  /\ Owns(h)
         /\ row'.attempts = row.attempts /\ row'.analysis = row.analysis
         /\ row'.codes = row.codes /\ row'.comment = row.comment
  <1>t. row \in Row /\ WorkerOf[h] \in Workers
    BY WorkerOfAssumption DEF TypeInv, TypeOK
  <1>o. row'.status = "processing" /\ row'.worker = WorkerOf[h]
    BY DEF Owns, OwnedBy
  <1>s. pc[h] # "claim" /\ pc'[h] = pc[h]
    BY DEF OwnedRun, Same
  <1>1. CASE row' = row \/ row' = [row EXCEPT !.lease = "expired"]
    BY <1>t, <1>o, <1>1 DEF Owns, OwnedBy, Row
  <1>2. ASSUME NEW g \in Handlers, ClaimMove(g)
        PROVE  FALSE
    <2>1. row'.worker = WorkerOf[g]
      BY <1>t, <1>2 DEF ClaimMove, Claimed, Row
    <2>2. g = h
      BY <1>o, <1>2, <2>1 DEF ClaimMove, RunsAlone
    <2>3. QED
      BY <1>s, <1>2, <2>2 DEF ClaimMove
  <1>3. ASSUME NEW g \in Handlers, OwnMove(g)
        PROVE  row' = LeaseExtended(row)
    <2>1. row.worker = WorkerOf[g]
      BY <1>3 DEF OwnMove, Owns, OwnedBy
    <2>2. CASE \E cause \in Cause :
                  row' = FailureApplied(row, FailureTarget(cause, row.attempts), cause)
      BY <1>t, <1>o, <2>2, NoWorkerAssumption DEF FailureApplied, Row
    <2>3. CASE Checkpoint(g) /\ pc'[g] # pc[g]
      <3>1. row'.worker \in {row.worker, NoWorker}
        BY <1>t, <2>3 DEF Checkpoint, AnalysisPersisted, CodesRecorded, CommentRecorded,
                          Completed, Row
      <3>2. g = h
        BY <1>t, <1>o, <2>1, <2>3, <3>1, NoWorkerAssumption
        DEF RunsAlone, Checkpoint, OwnedRun
      <3>3. QED
        BY <1>s, <2>3, <3>2
    <2>4. QED
      BY <1>3, <2>2, <2>3 DEF OwnMove
  <1>4. ASSUME NEW exhausted \in BOOLEAN, row' \in Reconciled(row, exhausted)
        PROVE  row' = row
    BY <1>t, <1>o, <1>4 DEF Reconciled, MaxDeliveryApplied, Deleted, NewRow, Row
  <1>5. CASE row' = LeaseExtended(row)
    BY <1>t, <1>o, <1>5 DEF LeaseExtended, Owns, OwnedBy, Row
  <1>6. QED
    BY <1>1, <1>2, <1>3, <1>4, <1>5, SharedMoves DEF SharedMove

\* Every step keeps what a run knows of its row.
LEMMA KnownRunStep ==
  ASSUME RunsAlone, TypeInv, RunInv, [Next]_vars, NEW h \in Handlers, KnownRun(h)
  PROVE  KnownRun(h)'
  <1>t. row \in Row /\ task[h] \in Task /\ LocalRun(h)
    BY DEF TypeInv, TypeOK, HandlersTyped, RunInv
  <1>1. CASE Same(h)
    <2>1. CASE ~(pc[h] \in OwnedRun /\ Owns(h)')
      BY <1>1, <2>1 DEF KnownRun, Same
    <2>2. CASE pc[h] \in OwnedRun /\ Owns(h)'
      BY <1>1, <2>2, OwnedRowKept DEF KnownRun, Same
    <2>3. QED
      BY <2>1, <2>2
  <1>2. CASE pc'[h] \notin OwnedRun
    BY <1>2 DEF KnownRun
  <1>3. CASE ClaimWins(h)
    <2>1. row'.attempts = row.attempts + 1 /\ task'[h].attempt = row.attempts + 1
          /\ pc'[h] = "load"
      BY <1>3, <1>t DEF ClaimWins, Claimed, Row, TypeInv, HandlersTyped, Task
    <2>2. QED
      BY <2>1 DEF KnownRun
  <1>o. row' = row /\ Owns(h)' => Owns(h)
    BY DEF Owns, OwnedBy
  <1>w. {"load", "gather", "analyze", "persist", "codes", "codes_sent", "record_codes",
         "comment", "record_comment"} \subseteq OwnedRun
    BY DEF OwnedRun
  <1>4. CASE Loaded(h)
    <2>1. /\ task'[h].attempt = task[h].attempt /\ task'[h].seen.analysis = row.analysis
          /\ task'[h].seen.codes = row.codes /\ task'[h].seen.comment = row.comment
      BY <1>4, <1>t DEF Loaded, Task
    <2>2. QED
      BY <1>4, <1>o, <1>w, <2>1 DEF Loaded, KnownRun
  <1>5. CASE Gathered(h)
    <2>1. /\ task'[h].seen = task[h].seen /\ task'[h].attempt = task[h].attempt
          /\ task'[h].analysis = task[h].seen.analysis
          /\ pc'[h] \in {"codes", "analyze"} /\ pc[h] = "gather" /\ row' = row
      BY <1>5, <1>t DEF Gathered, Task
    <2>2. QED
      BY <1>o, <1>w, <2>1 DEF KnownRun
  <1>6. CASE Analyzed(h)
    <2>1. /\ task'[h].seen = task[h].seen /\ task'[h].attempt = task[h].attempt
          /\ pc[h] = "analyze" /\ pc'[h] = "persist" /\ row' = row
      BY <1>6, <1>t DEF Analyzed, Moves, Task
    <2>2. QED
      BY <1>o, <1>w, <2>1 DEF KnownRun
  <1>7. CASE Passed(h)
    <2>t. task'[h] = task[h]
      BY <1>7 DEF Passed
    <2>1. CASE Moves(h, "codes", "codes_sent") /\ row' = row
      BY <1>o, <1>w, <2>t, <2>1 DEF KnownRun, Moves
    <2>2. CASE Moves(h, "codes", "comment") /\ row' = row /\ task[h].seen.codes \in CodesDone
      BY <1>o, <1>w, <2>t, <2>2 DEF KnownRun, Moves
    <2>3. CASE /\ Moves(h, "comment", "complete") /\ row' = row
               /\ task[h].seen.comment \in CommentDone
      BY <1>o, <1>w, <2>t, <2>3 DEF KnownRun, Moves
    <2>4. CASE /\ Moves(h, "persist", "codes") /\ Owns(h)
               /\ row' = AnalysisPersisted(row, task[h].analysis)
      <3>1. /\ row'.attempts = row.attempts /\ row'.analysis = task[h].analysis
            /\ row'.codes = row.codes /\ row'.comment = row.comment
        BY <1>t, <2>4 DEF AnalysisPersisted, Row
      <3>2. QED
        BY <1>w, <2>t, <2>4, <3>1 DEF KnownRun, Moves
    <2>5. CASE /\ Moves(h, "record_codes", "comment") /\ Owns(h)
               /\ row' = CodesRecorded(row, task[h].outcome) /\ task[h].outcome # "failed"
      <3>1. /\ row'.attempts = row.attempts /\ row'.codes = task[h].outcome
            /\ row'.comment = row.comment
        BY <1>t, <2>5 DEF CodesRecorded, Row
      <3>2. task[h].outcome \in CodesDone
        BY <1>t, <2>5 DEF LocalRun, Moves
      <3>3. QED
        BY <1>w, <2>t, <2>5, <3>1, <3>2 DEF KnownRun, Moves
    <2>6. CASE /\ Moves(h, "record_comment", "complete") /\ Owns(h)
               /\ row' = CommentRecorded(row, task[h].outcome) /\ task[h].outcome # "failed"
      <3>1. /\ row'.attempts = row.attempts /\ row'.comment = task[h].outcome
            /\ row'.codes = row.codes
        BY <1>t, <2>6 DEF CommentRecorded, Row
      <3>2. task[h].outcome \in CommentDone
        BY <1>t, <2>6 DEF LocalRun, Moves
      <3>3. QED
        BY <1>w, <2>t, <2>6, <3>1, <3>2 DEF KnownRun, Moves
    <2>7. QED
      BY <1>7, <2>1, <2>2, <2>3, <2>4, <2>5, <2>6 DEF Passed
  <1>8. CASE Answered(h)
    <2>1. /\ task'[h].seen = task[h].seen /\ task'[h].attempt = task[h].attempt
          /\ task'[h].analysis = task[h].analysis /\ row' = row
          /\ \/ pc[h] \in {"codes", "codes_sent"} /\ pc'[h] = "record_codes"
             \/ pc[h] = "comment" /\ pc'[h] = "record_comment"
      BY <1>8, <1>t DEF Answered, Moves, Task
    <2>2. QED
      BY <1>o, <1>w, <2>1 DEF KnownRun
  <1>9. QED
    BY <1>1, <1>2, <1>3, <1>4, <1>5, <1>6, <1>7, <1>8, RunMoves DEF RunMove

-----------------------------------------------------------------------------
(* The refinement: every step is a step of the lifecycle or leaves it alone.   *)

\* The operators on rows that the lifecycle speaks of are the same on both sides.
LEMMA SameRows ==
  /\ Lifecycle!NoAnalysis = NoAnalysis /\ Lifecycle!CodesDone = CodesDone
  /\ Lifecycle!CommentDone = CommentDone /\ Lifecycle!TerminalStatus = TerminalStatus
  BY DEF Lifecycle!NoAnalysis, NoAnalysis, Lifecycle!CodesDone, CodesDone,
         Lifecycle!CommentDone, CommentDone, Lifecycle!TerminalStatus, TerminalStatus

\* A checkpoint of the owner records what the lifecycle lets it record.
LEMMA CheckpointSimulates ==
  ASSUME TypeInv, RunInv, KnownInv, NEW h \in Handlers, Owns(h), Checkpoint(h)
  PROVE  Lifecycle!LifecycleNext
  <1>t. row \in Row /\ task[h] \in Task /\ LocalRun(h) /\ KnownRun(h) /\ Ordered
    BY DEF TypeInv, TypeOK, HandlersTyped, RunInv, KnownInv
  <1>o. row.status = "processing"
    BY DEF Owns, OwnedBy
  <1>d. "pending" \notin CodesDone /\ "pending" \notin CommentDone
    BY DEF CodesDone, CommentDone
  <1>1. CASE pc[h] = "persist" /\ row' = AnalysisPersisted(row, task[h].analysis)
    <2>1. row.analysis = NoAnalysis /\ row.attempts = task[h].attempt
      BY <1>t, <1>1 DEF LocalRun, KnownRun, OwnedRun
    <2>2. /\ task[h].analysis = [attempt |-> row.attempts, version |-> task[h].version]
          /\ task[h].version \in Nat \ {0}
      BY <1>t, <1>1, <2>1 DEF LocalRun, Task
    <2>3. /\ task[h].analysis \in [attempt: 1..row.attempts, version: Nat \ {0}]
          /\ task[h].analysis.attempt = row.attempts
      BY <1>t, <1>1, <2>1, <2>2 DEF Row, LocalRun, OwnedRun
    <2>4. /\ row'.analysis = task[h].analysis /\ row'.status = row.status
          /\ row'.attempts = row.attempts /\ row'.codes = row.codes
          /\ row'.comment = row.comment
      BY <1>t, <1>1 DEF AnalysisPersisted, Row
    <2>5. Lifecycle!SaveAnalysis
      BY <1>o, <2>1, <2>3, <2>4, SameRows DEF Lifecycle!SaveAnalysis, Lifecycle!KeepAnalysis
    <2>6. QED
      BY <2>5 DEF Lifecycle!LifecycleNext
  <1>2. CASE pc[h] = "record_codes" /\ row' = CodesRecorded(row, task[h].outcome)
    <2>1. /\ row.analysis # NoAnalysis /\ row.codes = "pending"
          /\ task[h].outcome \in CodesDone \cup {"failed"}
      BY <1>t, <1>2 DEF LocalRun, KnownRun, OwnedRun
    <2>2. /\ row'.codes = task[h].outcome /\ row'.status = row.status
          /\ row'.attempts = row.attempts /\ row'.analysis = row.analysis
          /\ row'.comment = row.comment
      BY <1>t, <1>2 DEF CodesRecorded, Row
    <2>3. Lifecycle!SettleCodes
      BY <1>o, <2>1, <2>2, SameRows DEF Lifecycle!SettleCodes, Lifecycle!KeepCodes
    <2>4. QED
      BY <2>3 DEF Lifecycle!LifecycleNext
  <1>3. CASE pc[h] = "record_comment" /\ row' = CommentRecorded(row, task[h].outcome)
    <2>1. /\ row.codes \in CodesDone /\ row.comment = "pending"
          /\ task[h].outcome \in CommentDone \cup {"failed"}
      BY <1>t, <1>3 DEF LocalRun, KnownRun, OwnedRun
    <2>2. /\ row'.comment = task[h].outcome /\ row'.status = row.status
          /\ row'.attempts = row.attempts /\ row'.analysis = row.analysis
          /\ row'.codes = row.codes
      BY <1>t, <1>3 DEF CommentRecorded, Row
    <2>3. Lifecycle!SettleComment
      BY <1>o, <1>d, <2>1, <2>2, SameRows DEF Lifecycle!SettleComment, Lifecycle!KeepComment
    <2>4. QED
      BY <2>3 DEF Lifecycle!LifecycleNext
  <1>4. CASE pc[h] = "complete" /\ row' = Completed(row)
    <2>1. row.codes \in CodesDone /\ row.comment \in CommentDone
      BY <1>t, <1>4 DEF KnownRun, OwnedRun
    <2>2. /\ row'.status = "completed" /\ row'.attempts = row.attempts
          /\ row'.analysis = row.analysis /\ row'.codes = row.codes
          /\ row'.comment = row.comment
      BY <1>t, <1>4 DEF Completed, Row
    <2>3. Lifecycle!Finish
      BY <1>o, <1>d, <2>1, <2>2, SameRows
      DEF Lifecycle!Finish, Lifecycle!Conclude, Lifecycle!progress
    <2>4. QED
      BY <2>3 DEF Lifecycle!LifecycleNext
  <1>5. QED
    BY <1>1, <1>2, <1>3, <1>4 DEF Checkpoint

\* A step that is no checkpoint moves the status alone, or forgets the row.
LEMMA UnrecordedSimulates ==
  ASSUME TypeInv, [Next]_vars
  PROVE  \/ \E h \in Handlers : Owns(h) /\ Checkpoint(h) /\ pc'[h] # pc[h]
         \/ [\/ Lifecycle!Begin \/ Lifecycle!TryAgain
             \/ Lifecycle!GiveUp \/ Lifecycle!Forget]_(Lifecycle!lifecycle)
  <1> DEFINE Moved == [\/ Lifecycle!Begin \/ Lifecycle!TryAgain
                       \/ Lifecycle!GiveUp \/ Lifecycle!Forget]_(Lifecycle!lifecycle)
  <1>t. row \in Row
    BY DEF TypeInv, TypeOK
  <1> DEFINE Still == /\ row'.status = row.status /\ row'.attempts = row.attempts
                      /\ row'.analysis = row.analysis /\ row'.codes = row.codes
                      /\ row'.comment = row.comment
  <1>s. Still => UNCHANGED Lifecycle!lifecycle
    BY DEF Lifecycle!lifecycle
  <1>1. CASE row' = row \/ row' = [row EXCEPT !.lease = "expired"]
    <2>1. Still
      BY <1>t, <1>1 DEF Row
    <2>2. QED
      BY <1>s, <2>1
  <1>2. ASSUME NEW h \in Handlers, ClaimMove(h)
        PROVE  Moved
    <2>1. /\ row.status \in {"queued", "processing"} /\ row'.status = "processing"
          /\ row'.attempts = row.attempts + 1 /\ row'.analysis = row.analysis
          /\ row'.codes = row.codes /\ row'.comment = row.comment
      BY <1>t, <1>2 DEF ClaimMove, Claimable, Claimed, Row
    <2>2. Lifecycle!Begin
      BY <2>1 DEF Lifecycle!Begin, Lifecycle!progress
    <2>3. QED
      BY <2>2
  <1>3. ASSUME NEW h \in Handlers, OwnMove(h)
        PROVE  Moved \/ (Owns(h) /\ Checkpoint(h) /\ pc'[h] # pc[h])
    <2>1. CASE row' = LeaseExtended(row)
      <3>1. Still
        BY <1>t, <2>1 DEF LeaseExtended, Row
      <3>2. QED
        BY <1>s, <3>1
    <2>2. ASSUME NEW cause \in Cause,
                 row' = FailureApplied(row, FailureTarget(cause, row.attempts), cause)
          PROVE  Moved
      <3> DEFINE target == FailureTarget(cause, row.attempts)
      <3>1. target \in {"queued", "failed"}
        BY FailureTargetType
      <3>2. row.status = "processing"
        BY <1>3 DEF OwnMove, Owns, OwnedBy
      <3>3. /\ row'.status = target /\ row'.attempts = row.attempts
            /\ row'.analysis = row.analysis /\ row'.codes = row.codes
            /\ row'.comment = row.comment
        <4> HIDE DEF target
        <4>1. QED
          BY <1>t, <2>2 DEF FailureApplied, Row, target
      <3>4. Lifecycle!TryAgain \/ Lifecycle!GiveUp
        <4> HIDE DEF target
        <4>1. QED
          BY <3>1, <3>2, <3>3
          DEF Lifecycle!TryAgain, Lifecycle!GiveUp, Lifecycle!progress
      <3>5. QED
        BY <3>4
    <2>3. QED
      BY <1>3, <2>1, <2>2 DEF OwnMove
  <1>4. ASSUME NEW exhausted \in BOOLEAN, row' \in Reconciled(row, exhausted)
        PROVE  Moved
    <2>1. CASE row' = row
      <3>1. Still
        BY <2>1
      <3>2. QED
        BY <1>s, <3>1
    <2>2. CASE row' = MaxDeliveryApplied(row) /\ row' # row
      <3>1. row.status \in {"queued", "processing"}
        BY <1>t, <2>2 DEF MaxDeliveryApplied, MaxDeliveryOutcome, TerminalStatus, Row, Status
      <3>2. /\ row'.status = "failed" /\ row'.attempts = row.attempts
            /\ row'.analysis = row.analysis /\ row'.codes = row.codes
            /\ row'.comment = row.comment
        BY <1>t, <2>2 DEF MaxDeliveryApplied, Row
      <3>3. Lifecycle!GiveUp
        BY <3>1, <3>2 DEF Lifecycle!GiveUp, Lifecycle!progress
      <3>4. QED
        BY <3>3
    <2>3. CASE row.status \in TerminalStatus /\ row' = Deleted(row)
      <3>1. /\ row'.status = "absent" /\ row'.attempts = 0
            /\ row'.analysis = NoAnalysis /\ row'.codes = "pending"
            /\ row'.comment = "pending"
        BY <2>3 DEF Deleted, NewRow
      <3>2. Lifecycle!Forget
        BY <2>3, <3>1, SameRows DEF Lifecycle!Forget
      <3>3. QED
        BY <3>2
    <2>4. QED
      BY <1>4, <2>1, <2>2, <2>3 DEF Reconciled, Deletable, Deleted
  <1>5. QED
    BY <1>1, <1>2, <1>3, <1>4, SharedMoves DEF SharedMove

\* Every step.
LEMMA StepSimulates ==
  ASSUME TypeInv, RunInv, KnownInv, [Next]_vars
  PROVE  [Lifecycle!LifecycleNext]_(Lifecycle!lifecycle)
  BY UnrecordedSimulates, CheckpointSimulates DEF Lifecycle!LifecycleNext

\* The lifecycle keeps its own order.
LEMMA OrderedStep ==
  ASSUME TypeInv, Ordered, [Lifecycle!LifecycleNext]_(Lifecycle!lifecycle)
  PROVE  Ordered'
  <1>d. "pending" \notin CodesDone
    BY DEF CodesDone
  <1>1. CASE Lifecycle!SaveAnalysis
    <2>1. row'.analysis # NoAnalysis
      BY <1>1 DEF Lifecycle!SaveAnalysis, Lifecycle!KeepAnalysis, NoAnalysis
    <2>2. QED
      BY <1>1, <2>1
      DEF Lifecycle!SaveAnalysis, Lifecycle!KeepAnalysis, Ordered, CompletedIsWritten
  <1>2. CASE Lifecycle!SettleCodes \/ Lifecycle!SettleComment
    BY <1>2, SameRows
    DEF Lifecycle!SettleCodes, Lifecycle!SettleComment, Lifecycle!KeepCodes,
        Lifecycle!KeepComment, Ordered, CompletedIsWritten
  <1>3. CASE Lifecycle!Finish
    BY <1>3, <1>d, SameRows
    DEF Lifecycle!Finish, Lifecycle!Conclude, Lifecycle!progress, Ordered,
        CompletedIsWritten
  <1>4. CASE \/ Lifecycle!Begin \/ Lifecycle!TryAgain \/ Lifecycle!GiveUp
    BY <1>4 DEF Lifecycle!Begin, Lifecycle!TryAgain, Lifecycle!GiveUp, Lifecycle!progress,
                Ordered, CompletedIsWritten
  <1>5. CASE Lifecycle!Forget \/ UNCHANGED Lifecycle!lifecycle
    BY <1>5 DEF Lifecycle!Forget, Lifecycle!lifecycle, Ordered, CompletedIsWritten
  <1>6. QED
    BY <1>1, <1>2, <1>3, <1>4, <1>5 DEF Lifecycle!LifecycleNext

\* What runs know of the row holds throughout.
LEMMA KnownInvCorrect == Spec /\ []RunsAlone => []KnownInv
  <1>1. Init => KnownInv
    BY DEF Init, KnownInv, Ordered, CompletedIsWritten, KnownRun, OwnedRun, NewRow
  <1>2. TypeInv /\ RunInv /\ RunsAlone /\ KnownInv /\ [Next]_vars => KnownInv'
    BY StepSimulates, OrderedStep, KnownRunStep DEF KnownInv
  <1>3. QED
    BY <1>1, <1>2, TypeInvariant, RunInvCorrect, PTL DEF Spec

\* Where no second run of a process joins the first, a run that owns the row runs
\* the attempt the row counts and sees what the row holds.
THEOREM OwnerSeesCorrect == Spec /\ []RunsAlone => []OwnerSeesTheRow
  <1>1. KnownInv => OwnerSeesTheRow
    BY DEF KnownInv, KnownRun, Owns, OwnedBy, OwnerSeesTheRow
  <1>2. QED
    BY <1>1, KnownInvCorrect, PTL

\* There, a completed investigation has its analysis and both write-backs settled.
THEOREM CompletedCorrect == Spec /\ []RunsAlone => []CompletedIsWritten
  <1>1. KnownInv => CompletedIsWritten
    BY DEF KnownInv, Ordered
  <1>2. QED
    BY <1>1, KnownInvCorrect, PTL

\* There, deliveries, leases, failures, crashes and the reconciler implement the
\* lifecycle that clients rely on.
THEOREM LifecycleCorrect == Spec /\ []RunsAlone => LifecycleImplemented
  <1>1. Init => Lifecycle!ProgressInit
    BY SameRows DEF Init, Lifecycle!ProgressInit, NewRow
  <1>2. TypeInv /\ RunInv /\ KnownInv /\ [Next]_vars
          => [Lifecycle!LifecycleNext]_(Lifecycle!lifecycle)
    BY StepSimulates
  <1>3. QED
    BY <1>1, <1>2, TypeInvariant, RunInvCorrect, KnownInvCorrect, PTL
    DEF Spec, LifecycleImplemented, Lifecycle!LifecycleSpec

-----------------------------------------------------------------------------
(* Progress, whoever shares an identity.  Runs that hold one row together may   *)
(* replace what the other recorded, and none of them knows what the row holds.  *)
(* What stays true of a run is what it has seen or done: each of the steps      *)
(* before its own has been recorded by somebody.                                *)

BeforeComment == {"codes", "codes_sent", "record_codes"}
BeforeCodes == {"gather", "analyze", "persist"}
AtComment == {"comment", "record_comment"}

ProgressRun(h) ==
    pc[h] \in OwnedRun /\ row.status # "absent" =>
        /\ task[h].attempt <= row.attempts
        /\ pc[h] \in BeforeCodes /\ task[h].seen.analysis # NoAnalysis =>
               row.analysis # NoAnalysis
        /\ pc[h] \in BeforeCodes \cup BeforeComment /\ task[h].seen.codes # "pending" =>
               row.codes # "pending"
        /\ pc[h] \in BeforeCodes \cup BeforeComment \cup AtComment
               /\ task[h].seen.comment # "pending" => row.comment # "pending"
        /\ pc[h] \in BeforeComment => row.analysis # NoAnalysis
        /\ pc[h] \in AtComment => row.codes # "pending"
        /\ pc[h] = "complete" => row.comment # "pending"

ProgressInv == \A h \in Handlers : ProgressRun(h)

\* What a checkpoint records is something.
LEMMA CheckpointRecords ==
  ASSUME TypeInv, RunInv, NEW g \in Handlers, Checkpoint(g)
  PROVE  /\ row.analysis # NoAnalysis => row'.analysis # NoAnalysis
         /\ row.codes # "pending" => row'.codes # "pending"
         /\ row.comment # "pending" => row'.comment # "pending"
  <1>t. row \in Row /\ task[g] \in Task /\ LocalRun(g)
    BY DEF TypeInv, TypeOK, HandlersTyped, RunInv
  <1>1. CASE pc[g] = "persist" /\ row' = AnalysisPersisted(row, task[g].analysis)
    <2>1. task[g].analysis # NoAnalysis
      BY <1>t, <1>1 DEF LocalRun, NoAnalysis
    <2>2. /\ row'.analysis = task[g].analysis
          /\ row'.codes = row.codes /\ row'.comment = row.comment
      BY <1>t, <1>1 DEF AnalysisPersisted, Row
    <2>3. QED
      BY <2>1, <2>2
  <1>2. CASE pc[g] = "record_codes" /\ row' = CodesRecorded(row, task[g].outcome)
    <2>1. task[g].outcome # "pending"
      BY <1>t, <1>2 DEF LocalRun, CodesDone
    <2>2. /\ row'.codes = task[g].outcome
          /\ row'.analysis = row.analysis /\ row'.comment = row.comment
      BY <1>t, <1>2 DEF CodesRecorded, Row
    <2>3. QED
      BY <2>1, <2>2
  <1>3. CASE pc[g] = "record_comment" /\ row' = CommentRecorded(row, task[g].outcome)
    <2>1. task[g].outcome # "pending"
      BY <1>t, <1>3 DEF LocalRun, CommentDone
    <2>2. /\ row'.comment = task[g].outcome
          /\ row'.analysis = row.analysis /\ row'.codes = row.codes
      BY <1>t, <1>3 DEF CommentRecorded, Row
    <2>3. QED
      BY <2>1, <2>2
  <1>4. CASE row' = Completed(row)
    BY <1>t, <1>4 DEF Completed, Row
  <1>5. QED
    BY <1>1, <1>2, <1>3, <1>4 DEF Checkpoint

\* What is recorded stays recorded while the row is there, and attempts are counted up.
LEMMA RecordKept ==
  ASSUME TypeInv, RunInv, [Next]_vars, row'.status # "absent"
  PROVE  /\ row.status # "absent"
         /\ row'.attempts \in Nat /\ row'.attempts >= row.attempts
         /\ row.analysis # NoAnalysis => row'.analysis # NoAnalysis
         /\ row.codes # "pending" => row'.codes # "pending"
         /\ row.comment # "pending" => row'.comment # "pending"
  <1>1. row \in Row /\ SharedMove
    BY SharedMoves DEF TypeInv, TypeOK
  <1>2. /\ row.status # "absent"
        /\ row'.attempts \in Nat /\ row'.attempts >= row.attempts
    BY <1>1, AttemptsGrow
  <1>3. QED
    BY <1>1, <1>2, MoveEffects, CheckpointRecords

\* Every step keeps what is known of the steps before a run's own.
LEMMA ProgressRunStep ==
  ASSUME TypeInv, RunInv, [Next]_vars, NEW h \in Handlers, ProgressRun(h)
  PROVE  ProgressRun(h)'
  <1> SUFFICES ASSUME pc'[h] \in OwnedRun, row'.status # "absent"
               PROVE  ProgressRun(h)'
    BY DEF ProgressRun
  <1>t. /\ row \in Row /\ task[h] \in Task /\ LocalRun(h)
        /\ row.attempts \in Nat /\ task[h].attempt \in Nat
    BY DEF TypeInv, TypeOK, HandlersTyped, RunInv, Row, Task
  <1>k. /\ row.status # "absent"
        /\ row'.attempts \in Nat /\ row'.attempts >= row.attempts
        /\ row.analysis # NoAnalysis => row'.analysis # NoAnalysis
        /\ row.codes # "pending" => row'.codes # "pending"
        /\ row.comment # "pending" => row'.comment # "pending"
    BY RecordKept
  <1>p. pc[h] \in OwnedRun =>
        /\ task[h].attempt <= row'.attempts
        /\ pc[h] \in BeforeCodes /\ task[h].seen.analysis # NoAnalysis =>
               row'.analysis # NoAnalysis
        /\ pc[h] \in BeforeCodes \cup BeforeComment /\ task[h].seen.codes # "pending" =>
               row'.codes # "pending"
        /\ pc[h] \in BeforeCodes \cup BeforeComment \cup AtComment
               /\ task[h].seen.comment # "pending" => row'.comment # "pending"
        /\ pc[h] \in BeforeComment => row'.analysis # NoAnalysis
        /\ pc[h] \in AtComment => row'.codes # "pending"
        /\ pc[h] = "complete" => row'.comment # "pending"
    BY <1>t, <1>k DEF ProgressRun
  <1>w. OwnedRun = {"load", "complete"} \cup BeforeCodes \cup BeforeComment \cup AtComment
    BY DEF OwnedRun, BeforeCodes, BeforeComment, AtComment
  <1>1. CASE Same(h)
    BY <1>1, <1>p DEF Same, ProgressRun
  <1>2. CASE ClaimWins(h)
    <2>1. /\ row'.attempts = row.attempts + 1 /\ task'[h].attempt = row.attempts + 1
          /\ pc'[h] = "load"
      BY <1>2, <1>t DEF ClaimWins, Claimed, Row, TypeInv, HandlersTyped, Task
    <2>2. QED
      BY <1>t, <2>1 DEF ProgressRun, BeforeCodes, BeforeComment, AtComment
  <1>3. CASE Loaded(h)
    <2>1. /\ task'[h].attempt = task[h].attempt /\ task'[h].seen.analysis = row.analysis
          /\ task'[h].seen.codes = row.codes /\ task'[h].seen.comment = row.comment
          /\ row' = row /\ pc[h] = "load" /\ pc'[h] \in {"gather", "complete"}
          /\ pc'[h] = "complete" => row.comment # "pending"
      BY <1>3, <1>t DEF Loaded, Task, CommentDone
    <2>2. QED
      BY <1>p, <1>w, <2>1 DEF ProgressRun, BeforeCodes, BeforeComment, AtComment
  <1>4. CASE Gathered(h)
    <2>1. /\ task'[h].seen = task[h].seen /\ task'[h].attempt = task[h].attempt
          /\ pc[h] = "gather"
          /\ pc'[h] = IF task[h].seen.analysis # NoAnalysis THEN "codes" ELSE "analyze"
      BY <1>4, <1>t DEF Gathered, Task
    <2>2. QED
      BY <1>p, <1>w, <2>1 DEF ProgressRun, BeforeCodes, BeforeComment, AtComment
  <1>5. CASE Analyzed(h)
    <2>1. /\ task'[h].seen = task[h].seen /\ task'[h].attempt = task[h].attempt
          /\ pc[h] = "analyze" /\ pc'[h] = "persist"
      BY <1>5, <1>t DEF Analyzed, Moves, Task
    <2>2. QED
      BY <1>p, <1>w, <2>1 DEF ProgressRun, BeforeCodes, BeforeComment, AtComment
  <1>6. CASE Passed(h)
    <2>t. task'[h] = task[h]
      BY <1>6 DEF Passed
    <2>1. CASE Moves(h, "codes", "codes_sent")
      BY <1>p, <1>w, <2>t, <2>1 DEF Moves, ProgressRun, BeforeCodes, BeforeComment, AtComment
    <2>2. CASE Moves(h, "codes", "comment")
      <3>1. task[h].seen.codes # "pending"
        BY <1>6, <2>2 DEF Passed, Moves, CodesDone
      <3>2. QED
        BY <1>p, <1>w, <2>t, <2>2, <3>1
        DEF Moves, ProgressRun, BeforeCodes, BeforeComment, AtComment
    <2>3. CASE Moves(h, "comment", "complete")
      <3>1. task[h].seen.comment # "pending"
        BY <1>6, <2>3 DEF Passed, Moves, CommentDone
      <3>2. QED
        BY <1>p, <1>w, <2>t, <2>3, <3>1
        DEF Moves, ProgressRun, BeforeCodes, BeforeComment, AtComment
    <2>4. CASE /\ Moves(h, "persist", "codes")
               /\ row' = AnalysisPersisted(row, task[h].analysis)
      <3>1. row'.analysis # NoAnalysis
        BY <1>t, <2>4 DEF AnalysisPersisted, Row, LocalRun, Moves, NoAnalysis
      <3>2. QED
        BY <1>p, <1>w, <2>t, <2>4, <3>1
        DEF Moves, ProgressRun, BeforeCodes, BeforeComment, AtComment
    <2>5. CASE /\ Moves(h, "record_codes", "comment")
               /\ row' = CodesRecorded(row, task[h].outcome)
      <3>1. row'.codes # "pending"
        BY <1>t, <2>5 DEF CodesRecorded, Row, LocalRun, Moves, CodesDone
      <3>2. QED
        BY <1>p, <1>w, <2>t, <2>5, <3>1
        DEF Moves, ProgressRun, BeforeCodes, BeforeComment, AtComment
    <2>6. CASE /\ Moves(h, "record_comment", "complete")
               /\ row' = CommentRecorded(row, task[h].outcome)
      <3>1. row'.comment # "pending"
        BY <1>t, <2>6 DEF CommentRecorded, Row, LocalRun, Moves, CommentDone
      <3>2. QED
        BY <1>p, <1>w, <2>t, <2>6, <3>1
        DEF Moves, ProgressRun, BeforeCodes, BeforeComment, AtComment
    <2>7. QED
      BY <1>6, <2>1, <2>2, <2>3, <2>4, <2>5, <2>6 DEF Passed
  <1>7. CASE Answered(h)
    <2>1. /\ task'[h].seen = task[h].seen /\ task'[h].attempt = task[h].attempt
          /\ \/ pc[h] \in {"codes", "codes_sent"} /\ pc'[h] = "record_codes"
             \/ pc[h] = "comment" /\ pc'[h] = "record_comment"
      BY <1>7, <1>t DEF Answered, Moves, Task
    <2>2. QED
      BY <1>p, <1>w, <2>1 DEF ProgressRun, BeforeCodes, BeforeComment, AtComment
  <1>8. QED
    BY <1>1, <1>2, <1>3, <1>4, <1>5, <1>6, <1>7, RunMoves DEF RunMove

\* A checkpoint, of any run that shares the owner's identity, records the next thing
\* or another version of one that is there.
LEMMA CheckpointProgresses ==
  ASSUME TypeInv, RunInv, ProgressInv, NEW h \in Handlers, Owns(h), Checkpoint(h)
  PROVE  \/ Lifecycle!KeepAnalysis \/ Lifecycle!KeepCodes
         \/ Lifecycle!KeepComment \/ Lifecycle!Conclude
  <1>t. /\ row \in Row /\ task[h] \in Task /\ LocalRun(h) /\ ProgressRun(h)
        /\ row.attempts \in Nat
    BY DEF TypeInv, TypeOK, HandlersTyped, RunInv, ProgressInv, Row
  <1>o. row.status = "processing"
    BY DEF Owns, OwnedBy
  <1>1. CASE pc[h] = "persist" /\ row' = AnalysisPersisted(row, task[h].analysis)
    <2>1. task[h].attempt \in 1..row.attempts
      <3>1. task[h].attempt <= row.attempts /\ task[h].attempt # 0
        BY <1>t, <1>o, <1>1 DEF LocalRun, ProgressRun, OwnedRun
      <3>2. QED
        BY <1>t, <3>1 DEF Task
    <2>2. /\ task[h].analysis = [attempt |-> task[h].attempt, version |-> task[h].version]
          /\ task[h].version \in Nat \ {0}
      BY <1>t, <1>1 DEF LocalRun, Task
    <2>3. task[h].analysis \in [attempt: 1..row.attempts, version: Nat \ {0}]
      BY <2>1, <2>2
    <2>4. /\ row'.analysis = task[h].analysis /\ row'.status = row.status
          /\ row'.attempts = row.attempts /\ row'.codes = row.codes
          /\ row'.comment = row.comment
      BY <1>t, <1>1 DEF AnalysisPersisted, Row
    <2>5. QED
      BY <1>o, <2>3, <2>4 DEF Lifecycle!KeepAnalysis
  <1>2. CASE pc[h] = "record_codes" /\ row' = CodesRecorded(row, task[h].outcome)
    <2>1. row.analysis # NoAnalysis /\ task[h].outcome \in CodesDone \cup {"failed"}
      BY <1>t, <1>o, <1>2 DEF LocalRun, ProgressRun, OwnedRun, BeforeComment
    <2>2. /\ row'.codes = task[h].outcome /\ row'.status = row.status
          /\ row'.attempts = row.attempts /\ row'.analysis = row.analysis
          /\ row'.comment = row.comment
      BY <1>t, <1>2 DEF CodesRecorded, Row
    <2>3. QED
      BY <1>o, <2>1, <2>2, SameRows DEF Lifecycle!KeepCodes
  <1>3. CASE pc[h] = "record_comment" /\ row' = CommentRecorded(row, task[h].outcome)
    <2>1. row.codes # "pending" /\ task[h].outcome \in CommentDone \cup {"failed"}
      BY <1>t, <1>o, <1>3 DEF LocalRun, ProgressRun, OwnedRun, AtComment
    <2>2. /\ row'.comment = task[h].outcome /\ row'.status = row.status
          /\ row'.attempts = row.attempts /\ row'.analysis = row.analysis
          /\ row'.codes = row.codes
      BY <1>t, <1>3 DEF CommentRecorded, Row
    <2>3. QED
      BY <1>o, <2>1, <2>2, SameRows DEF Lifecycle!KeepComment
  <1>4. CASE pc[h] = "complete" /\ row' = Completed(row)
    <2>1. row.comment # "pending"
      BY <1>t, <1>o, <1>4 DEF ProgressRun, OwnedRun
    <2>2. /\ row'.status = "completed" /\ row'.attempts = row.attempts
          /\ row'.analysis = row.analysis /\ row'.codes = row.codes
          /\ row'.comment = row.comment
      BY <1>t, <1>4 DEF Completed, Row
    <2>3. QED
      BY <1>o, <2>1, <2>2 DEF Lifecycle!Conclude, Lifecycle!progress
  <1>5. QED
    BY <1>1, <1>2, <1>3, <1>4 DEF Checkpoint

\* Deliveries, leases, failures, crashes and the reconciler implement the progress
\* that clients see, however many runs of one process hold the row together.
THEOREM ProgressCorrect == Spec => ProgressImplemented
  <1>1. Init => Lifecycle!ProgressInit /\ ProgressInv
    BY SameRows DEF Init, Lifecycle!ProgressInit, NewRow, ProgressInv, ProgressRun, OwnedRun
  <1>2. TypeInv /\ RunInv /\ ProgressInv /\ [Next]_vars
          => [Lifecycle!ProgressNext]_(Lifecycle!lifecycle)
    BY UnrecordedSimulates, CheckpointProgresses DEF Lifecycle!ProgressNext
  <1>3. TypeInv /\ RunInv /\ ProgressInv /\ [Next]_vars => ProgressInv'
    BY ProgressRunStep DEF ProgressInv
  <1>4. QED
    BY <1>1, <1>2, <1>3, TypeInvariant, RunInvCorrect, PTL
    DEF Spec, ProgressImplemented, Lifecycle!ProgressSpec

-----------------------------------------------------------------------------
(* One analysis.  Updates that are under way, the runs that send or resume      *)
(* them and CTC itself all carry the analysis of the row: it is never replaced, *)
(* and once its codes are in CTC the version it was made from is gone.          *)

OneAnalysis(a) ==
    /\ row.status # "absent" => row.analysis = a
    /\ \A h \in Handlers :
         /\ pc[h] = "gather" => task[h].seen.analysis \in {a, NoAnalysis}
         /\ pc[h] \in {"codes", "codes_sent"} => task[h].analysis = a
    /\ \A p \in patches : p.analysis = a /\ a # NoAnalysis
    /\ \/ ctc.writes = 0 /\ ctc.codes = NoAnalysis
       \/ /\ ctc.writes = 1 /\ ctc.codes = a
          /\ a # NoAnalysis /\ ctc.version > a.version

OneAnalysisInv == \E a \in Analysis : OneAnalysis(a)

\* What a step does to the codes in CTC.
LEMMA CodesMoves ==
  ASSUME TypeInv, [Next]_vars
  PROVE  \/ \E p \in patches : CtcAccepts(p)
         \/ /\ ctc'.writes = ctc.writes /\ ctc'.codes = ctc.codes
            /\ ctc'.version \in Nat /\ ctc'.version >= ctc.version
  <1> DEFINE Kept == /\ ctc'.writes = ctc.writes /\ ctc'.codes = ctc.codes
                     /\ ctc'.version \in Nat /\ ctc'.version >= ctc.version
  <1>1. ctc \in Ctc /\ ctc.version \in Nat
    BY DEF TypeInv, TypeOK, Ctc
  <1>2. CASE ctc' = ctc
    BY <1>2, <1>1
  <1>3. ASSUME NEW h \in Handlers, WriteComment(h)
        PROVE  Kept
    <2>1. ctc' = ctc \/ ctc' = [ctc EXCEPT !.comments = ctc.comments + 1]
                     \/ ctc' = [ctc EXCEPT !.comments = ctc.comments]
      BY <1>3 DEF WriteComment
    <2>2. QED
      BY <1>1, <2>1 DEF Ctc
  <1>4. CASE ExternalEdit
    BY <1>1, <1>4 DEF ExternalEdit, Ctc
  <1>5. ASSUME NEW h \in Handlers,
               \/ HandlerStep(h) \/ Heartbeat(h)
               \/ \E m \in Messages : Fetch(h, m)
        PROVE  ctc' = ctc \/ WriteComment(h)
    BY <1>5 DEF HandlerStep, ClaimWins, ClaimRefused, ClaimFails, Unclaimed, Load,
                Gather, Analyze, Persist, WriteCodes, CodesUnanswered, RecordCodes,
                RecordComment, Complete, ReadFailure, ApplyFailure, Remove, Nak,
                AnswerLost, Answer, Heartbeat, Fetch, ctcVars
  <1>6. CASE \/ \E p \in patches : CtcRefuses(p)
             \/ \E w \in Workers : \/ ReconcilerStep(w) \/ Restart(w)
                                   \/ Drain(w) \/ Crash(w) \/ Exit(w)
             \/ \E m \in Messages : AckWaitExpires(m)
             \/ LeaseExpires \/ UNCHANGED vars
    <2>1. ctc' = ctc
      BY <1>6 DEF CtcRefuses, ReconcilerStep, Receive, ReconcileCommits, ReconcileFails,
                  DeleteMessage, DeleteFails, Restart, Drain, Crash, Exit, Down,
                  AckWaitExpires, LeaseExpires, ctcVars, vars
    <2>2. QED
      BY <1>2, <2>1
  <1>7. QED
    BY <1>2, <1>3, <1>4, <1>5, <1>6 DEF Next

\* What a step does to the updates that are under way.
LEMMA PatchMoves ==
  ASSUME [Next]_vars
  PROVE  \/ patches' \subseteq patches
         \/ \E h \in Handlers :
              /\ pc[h] = "codes"
              /\ \A p \in patches' \ patches : p.analysis = task[h].analysis
  <1>1. ASSUME NEW h \in Handlers, WriteCodes(h)
        PROVE  \/ patches' \subseteq patches
               \/ /\ pc[h] = "codes"
                  /\ \A p \in patches' \ patches : p.analysis = task[h].analysis
    BY <1>1 DEF WriteCodes
  <1>2. ASSUME NEW h \in Handlers,
               \/ HandlerStep(h) \/ Heartbeat(h)
               \/ \E m \in Messages : Fetch(h, m)
        PROVE  patches' = patches \/ WriteCodes(h)
    BY <1>2 DEF HandlerStep, ClaimWins, ClaimRefused, ClaimFails, Unclaimed, Load,
                Gather, Analyze, Persist, WriteComment, CodesUnanswered, RecordCodes,
                RecordComment, Complete, ReadFailure, ApplyFailure, Remove, Nak,
                AnswerLost, Answer, Heartbeat, Fetch, ctcVars
  <1>3. CASE \/ \E p \in patches : CtcAccepts(p) \/ CtcRefuses(p)
             \/ \E w \in Workers : \/ ReconcilerStep(w) \/ Restart(w)
                                   \/ Drain(w) \/ Crash(w) \/ Exit(w)
             \/ \E m \in Messages : AckWaitExpires(m)
             \/ LeaseExpires \/ ExternalEdit \/ UNCHANGED vars
    BY <1>3 DEF CtcAccepts, CtcRefuses, CtcAnswers, ReconcilerStep, Receive,
                ReconcileCommits, ReconcileFails, DeleteMessage, DeleteFails, Restart,
                Drain, Crash, Exit, Down, AckWaitExpires, LeaseExpires, ExternalEdit,
                ctcVars, vars
  <1>4. QED
    BY <1>1, <1>2, <1>3 DEF Next

\* The row's analysis is saved once: it is the one it was, or the first.
LEMMA AnalysisKept ==
  ASSUME [Lifecycle!LifecycleNext]_(Lifecycle!lifecycle), row'.status # "absent"
  PROVE  /\ row.status # "absent"
         /\ row'.analysis = row.analysis \/ row.analysis = NoAnalysis
  <1>1. CASE \/ Lifecycle!Begin \/ Lifecycle!Finish \/ Lifecycle!TryAgain \/ Lifecycle!GiveUp
    BY <1>1 DEF Lifecycle!Begin, Lifecycle!Finish, Lifecycle!Conclude, Lifecycle!TryAgain,
                Lifecycle!GiveUp, Lifecycle!progress
  <1>2. CASE \/ Lifecycle!SaveAnalysis \/ Lifecycle!SettleCodes \/ Lifecycle!SettleComment
    BY <1>2, SameRows
    DEF Lifecycle!SaveAnalysis, Lifecycle!SettleCodes, Lifecycle!SettleComment,
        Lifecycle!KeepAnalysis, Lifecycle!KeepCodes, Lifecycle!KeepComment
  <1>3. CASE Lifecycle!Forget \/ UNCHANGED Lifecycle!lifecycle
    BY <1>3 DEF Lifecycle!Forget, Lifecycle!lifecycle
  <1>4. QED
    BY <1>1, <1>2, <1>3 DEF Lifecycle!LifecycleNext

\* What a run carries after a step is the row's analysis, the old one or the first.
LEMMA CarriedStep ==
  ASSUME TypeInv, RunInv, [Next]_vars, NEW a, NEW b, OneAnalysis(a),
         row'.status # "absent" => row'.analysis = b, a = b \/ a = NoAnalysis,
         NEW h \in Handlers
  PROVE  /\ pc'[h] = "gather" => task'[h].seen.analysis \in {b, NoAnalysis}
         /\ pc'[h] \in {"codes", "codes_sent"} => task'[h].analysis = b
  <1>t. row \in Row /\ task[h] \in Task /\ LocalRun(h)
    BY DEF TypeInv, TypeOK, HandlersTyped, RunInv
  <1>a. /\ pc[h] = "gather" => task[h].seen.analysis \in {a, NoAnalysis}
        /\ pc[h] \in {"codes", "codes_sent"} =>
               task[h].analysis = a /\ a # NoAnalysis /\ a = b
    BY <1>t DEF OneAnalysis, LocalRun
  <1>1. CASE Same(h)
    BY <1>1, <1>a DEF Same
  <1>2. CASE pc'[h] \notin OwnedRun
    BY <1>2 DEF OwnedRun
  <1>3. CASE ClaimWins(h)
    BY <1>3 DEF ClaimWins, TypeInv, HandlersTyped
  <1>4. CASE Loaded(h)
    <2>1. task'[h].seen.analysis = row.analysis /\ row.analysis = a
      BY <1>4, <1>t DEF Loaded, Task, OneAnalysis
    <2>2. QED
      BY <1>4, <2>1 DEF Loaded
  <1>5. CASE Gathered(h)
    <2>1. task'[h].analysis = task[h].seen.analysis
      BY <1>5, <1>t DEF Gathered, Task
    <2>2. QED
      BY <1>5, <1>a, <2>1 DEF Gathered
  <1>6. CASE Analyzed(h)
    BY <1>6 DEF Analyzed, Moves
  <1>7. CASE Passed(h)
    <2>1. CASE /\ Moves(h, "persist", "codes") /\ Owns(h)
               /\ row' = AnalysisPersisted(row, task[h].analysis)
      <3>1. row'.analysis = task[h].analysis /\ row'.status = "processing"
        BY <1>t, <2>1 DEF AnalysisPersisted, Row, Owns, OwnedBy
      <3>2. QED
        BY <1>7, <2>1, <3>1 DEF Passed, Moves
    <2>2. CASE ~Moves(h, "persist", "codes")
      BY <1>7, <1>a, <2>2 DEF Passed, Moves
    <2>3. QED
      BY <1>7, <2>1, <2>2 DEF Passed, Moves
  <1>8. CASE Answered(h)
    BY <1>8 DEF Answered, Moves
  <1>9. QED
    BY <1>1, <1>2, <1>3, <1>4, <1>5, <1>6, <1>7, <1>8, RunMoves DEF RunMove

\* There is one analysis after every step.
LEMMA OneAnalysisStep ==
  ASSUME TypeInv, RunInv, KnownInv, OneAnalysisInv, [Next]_vars
  PROVE  OneAnalysisInv'
  <1>1. PICK a \in Analysis : OneAnalysis(a)
    BY DEF OneAnalysisInv
  <1>2. PICK b \in Analysis : /\ row'.status # "absent" => row'.analysis = b
                              /\ a = b \/ a = NoAnalysis
    <2>1. CASE row'.status = "absent"
      BY <2>1
    <2>2. CASE row'.status # "absent"
      <3>1. row.analysis = a /\ (row'.analysis = row.analysis \/ row.analysis = NoAnalysis)
        BY <1>1, <2>2, StepSimulates, AnalysisKept DEF OneAnalysis
      <3>2. row'.analysis \in Analysis
        BY TypeStep DEF TypeInv, TypeOK, Row
      <3>3. QED
        BY <3>1, <3>2
    <2>3. QED
      BY <2>1, <2>2
  <1>3. \A h \in Handlers :
           /\ pc'[h] = "gather" => task'[h].seen.analysis \in {b, NoAnalysis}
           /\ pc'[h] \in {"codes", "codes_sent"} => task'[h].analysis = b
    BY <1>1, <1>2, CarriedStep
  <1>4. \A p \in patches : p.analysis = a /\ a # NoAnalysis
    BY <1>1 DEF OneAnalysis
  <1>5. \A p \in patches' : p.analysis = b /\ b # NoAnalysis
    <2>1. CASE patches' \subseteq patches
      BY <1>2, <1>4, <2>1
    <2>2. ASSUME NEW h \in Handlers, pc[h] = "codes",
                 \A p \in patches' \ patches : p.analysis = task[h].analysis
          PROVE  \A p \in patches' : p.analysis = b /\ b # NoAnalysis
      <3>1. task[h].analysis = a /\ a # NoAnalysis
        BY <1>1, <2>2 DEF OneAnalysis, RunInv, LocalRun
      <3>2. QED
        BY <1>2, <1>4, <2>2, <3>1
    <2>3. QED
      BY <2>1, <2>2, PatchMoves
  <1>6. \/ ctc'.writes = 0 /\ ctc'.codes = NoAnalysis
        \/ /\ ctc'.writes = 1 /\ ctc'.codes = b
           /\ b # NoAnalysis /\ ctc'.version > b.version
    <2>t. ctc \in Ctc /\ ctc.version \in Nat /\ a.version \in Nat
      BY DEF TypeInv, TypeOK, Ctc, Analysis
    <2>1. ASSUME NEW p \in patches, CtcAccepts(p)
          PROVE  /\ ctc'.writes = 1 /\ ctc'.codes = b
                 /\ b # NoAnalysis /\ ctc'.version > b.version
      <3>1. p.analysis = a /\ a # NoAnalysis /\ a = b
        BY <1>2, <1>4
      <3>2. ctc.version = a.version
        BY <2>1, <3>1 DEF CtcAccepts, RunInv, CodesFollowTheEvidence
      <3>3. ctc.writes = 0
        BY <1>1, <2>t, <3>2 DEF OneAnalysis
      <3>4. ctc'.writes = 1 /\ ctc'.codes = a /\ ctc'.version = ctc.version + 1
        BY <2>t, <2>1, <3>1, <3>3 DEF CtcAccepts, Ctc
      <3>5. QED
        BY <2>t, <3>1, <3>2, <3>4
    <2>2. CASE /\ ctc'.writes = ctc.writes /\ ctc'.codes = ctc.codes
               /\ ctc'.version \in Nat /\ ctc'.version >= ctc.version
      BY <1>1, <1>2, <2>t, <2>2 DEF OneAnalysis
    <2>3. QED
      BY <2>1, <2>2, CodesMoves
  <1>7. QED
    BY <1>2, <1>3, <1>5, <1>6 DEF OneAnalysisInv, OneAnalysis

\* There is always one analysis.
LEMMA OneAnalysisCorrect == Spec /\ []RunsAlone => []OneAnalysisInv
  <1>1. Init => OneAnalysisInv
    <2>1. Init => OneAnalysis(NoAnalysis)
      BY DEF Init, OneAnalysis, NewRow
    <2>2. QED
      BY <2>1, NoAnalysisType DEF OneAnalysisInv
  <1>2. TypeInv /\ RunInv /\ KnownInv /\ OneAnalysisInv /\ [Next]_vars => OneAnalysisInv'
    BY OneAnalysisStep
  <1>3. QED
    BY <1>1, <1>2, TypeInvariant, RunInvCorrect, KnownInvCorrect, PTL DEF Spec

\* Where no second run of a process joins the first, CTC applies the codes of an
\* investigation once at most, whatever is retried and however late it arrives.
THEOREM CodesOnceCorrect == Spec /\ []RunsAlone => []CodesWrittenOnce
  <1>1. OneAnalysisInv => CodesWrittenOnce
    BY DEF OneAnalysisInv, OneAnalysis, CodesWrittenOnce
  <1>2. QED
    BY <1>1, OneAnalysisCorrect, PTL

\* There, the codes in CTC are those of the analysis that the row reports.
THEOREM ReportedCorrect == Spec /\ []RunsAlone => []WrittenCodesAreReported
  <1>1. OneAnalysisInv => WrittenCodesAreReported
    BY DEF OneAnalysisInv, OneAnalysis, WrittenCodesAreReported
  <1>2. QED
    BY <1>1, OneAnalysisCorrect, PTL

-----------------------------------------------------------------------------
(* One comment per attempt.  OneCommentPerAttempt is not inductive: the runs    *)
(* that have yet to post must be counted with the comments that were posted.    *)
(* Shared identities do no harm here.                                           *)

Uncommented == {h \in Handlers : pc[h] \in {"load", "gather", "analyze", "persist",
                                            "codes", "codes_sent", "record_codes",
                                            "comment"}}

CommentInv ==
    row.status # "absent" => ctc.comments + Cardinality(Uncommented) <= row.attempts

\* A comment is posted in its stage only.
LEMMA CommentMoves ==
  ASSUME TypeInv, [Next]_vars
  PROVE  \/ \E h \in Handlers : WriteComment(h)
         \/ ctc'.comments = ctc.comments
  <1>1. ctc \in Ctc
    BY DEF TypeInv, TypeOK
  <1>2. CASE \E p \in patches : CtcAccepts(p)
    BY <1>1, <1>2 DEF CtcAccepts, Ctc
  <1>3. CASE ExternalEdit
    BY <1>1, <1>3 DEF ExternalEdit, Ctc
  <1>4. ASSUME NEW h \in Handlers,
               \/ HandlerStep(h) \/ Heartbeat(h)
               \/ \E m \in Messages : Fetch(h, m)
        PROVE  ctc' = ctc \/ WriteComment(h)
    BY <1>4 DEF HandlerStep, ClaimWins, ClaimRefused, ClaimFails, Unclaimed, Load,
                Gather, Analyze, Persist, WriteCodes, CodesUnanswered, RecordCodes,
                RecordComment, Complete, ReadFailure, ApplyFailure, Remove, Nak,
                AnswerLost, Answer, Heartbeat, Fetch, ctcVars
  <1>5. CASE \/ \E p \in patches : CtcRefuses(p)
             \/ \E w \in Workers : \/ ReconcilerStep(w) \/ Restart(w)
                                   \/ Drain(w) \/ Crash(w) \/ Exit(w)
             \/ \E m \in Messages : AckWaitExpires(m)
             \/ LeaseExpires \/ UNCHANGED vars
    BY <1>5 DEF CtcRefuses, ReconcilerStep, Receive, ReconcileCommits, ReconcileFails,
                DeleteMessage, DeleteFails, Restart, Drain, Crash, Exit, Down,
                AckWaitExpires, LeaseExpires, ctcVars, vars
  <1>6. QED
    BY <1>2, <1>3, <1>4, <1>5 DEF Next

\* Only a claim makes a run that has yet to comment.
LEMMA UncommentedMoves ==
  ASSUME TypeInv, [Next]_vars, NEW h \in Handlers, h \in Uncommented'
  PROVE  h \in Uncommented \/ ClaimWins(h)
  <1>1. CASE Same(h)
    BY <1>1 DEF Same, Uncommented
  <1>2. CASE pc'[h] \notin OwnedRun
    BY <1>2 DEF OwnedRun, Uncommented
  <1>3. CASE Loaded(h) \/ Gathered(h) \/ Analyzed(h) \/ Passed(h) \/ Answered(h)
    BY <1>3 DEF Loaded, Gathered, Analyzed, Passed, Answered, Moves, Uncommented
  <1>4. QED
    BY <1>1, <1>2, <1>3, RunMoves DEF RunMove

\* A claim pays for the comment of its run, and posting uses it up.
LEMMA CommentStep ==
  ASSUME IsFiniteSet(Handlers), TypeInv, CommentInv, [Next]_vars
  PROVE  CommentInv'
  <1> SUFFICES ASSUME row'.status # "absent"
               PROVE  ctc'.comments + Cardinality(Uncommented') <= row'.attempts
    BY DEF CommentInv
  <1>t. /\ row \in Row /\ ctc \in Ctc /\ row.attempts \in Nat /\ ctc.comments \in Nat
        /\ pc \in [Handlers -> Stage]
    BY DEF TypeInv, TypeOK, HandlersTyped, Row, Ctc
  <1>a. /\ row.status # "absent"
        /\ row'.attempts \in Nat /\ row'.attempts >= row.attempts
    BY <1>t, SharedMoves, AttemptsGrow
  <1>b. ctc.comments + Cardinality(Uncommented) <= row.attempts
    BY <1>a DEF CommentInv
  <1>f. /\ IsFiniteSet(Uncommented) /\ Cardinality(Uncommented) \in Nat
        /\ IsFiniteSet(Uncommented') /\ Cardinality(Uncommented') \in Nat
    <2>1. Uncommented \in SUBSET Handlers /\ Uncommented' \in SUBSET Handlers
      BY DEF Uncommented
    <2>2. QED
      BY <2>1, FS_Subset, FS_CardinalityType
  <1>1. ASSUME NEW h \in Handlers, ClaimWins(h)
        PROVE  ctc'.comments + Cardinality(Uncommented') <= row'.attempts
    <2>1. ctc'.comments = ctc.comments /\ row'.attempts = row.attempts + 1
      BY <1>t, <1>1 DEF ClaimWins, Claimed, Row, ctcVars
    <2>2. Uncommented' \subseteq Uncommented \cup {h}
      <3>1. \A g \in Handlers : g # h => pc'[g] = pc[g]
        BY <1>t, <1>1 DEF ClaimWins
      <3>2. QED
        BY <3>1 DEF Uncommented
    <2>3. Cardinality(Uncommented') <= Cardinality(Uncommented) + 1
      <3>1. /\ IsFiniteSet(Uncommented \cup {h})
            /\ Cardinality(Uncommented \cup {h}) <= Cardinality(Uncommented) + 1
        <4>1. /\ IsFiniteSet(Uncommented \cup {h})
              /\ Cardinality(Uncommented \cup {h}) =
                     IF h \in Uncommented THEN Cardinality(Uncommented)
                                         ELSE Cardinality(Uncommented) + 1
          BY <1>f, FS_AddElement, Zenon
        <4>2. QED
          BY <1>f, <4>1
      <3>2. /\ Cardinality(Uncommented') <= Cardinality(Uncommented \cup {h})
            /\ Cardinality(Uncommented \cup {h}) \in Nat
        BY <2>2, <3>1, FS_Subset, FS_CardinalityType
      <3>3. QED
        BY <1>f, <3>1, <3>2
    <2>4. QED
      BY <1>t, <1>b, <1>f, <2>1, <2>3
  <1>2. ASSUME \A h \in Handlers : ~ClaimWins(h)
        PROVE  /\ Uncommented' \subseteq Uncommented
               /\ Cardinality(Uncommented') <= Cardinality(Uncommented)
    <2>1. Uncommented' \subseteq Uncommented
      <3>1. \A h \in Uncommented' : h \in Handlers
        BY DEF Uncommented
      <3>2. QED
        BY <1>2, <3>1, UncommentedMoves
    <2>2. QED
      BY <1>f, <2>1, FS_Subset
  <1>3. ASSUME NEW h \in Handlers, WriteComment(h)
        PROVE  ctc'.comments + Cardinality(Uncommented') <= row'.attempts
    <2>1. row' = row /\ h \in Uncommented /\ h \notin Uncommented'
          /\ \A g \in Handlers : g # h => pc'[g] = pc[g]
      <3>1. /\ pc[h] = "comment" /\ row' = row
            /\ \E stage : pc' = [pc EXCEPT ![h] = stage]
            /\ pc'[h] \in {"record_comment", "complete", "read_failure"}
        BY <1>t, <1>3 DEF WriteComment, CommentUnanswered, Fail, Resume, Goto
      <3>2. QED
        BY <1>t, <3>1 DEF Uncommented
    <2>2. ctc'.comments \in Nat /\ ctc'.comments <= ctc.comments + 1
      <3>1. \/ ctc' = ctc \/ ctc' = [ctc EXCEPT !.comments = ctc.comments + 1]
            \/ ctc' = [ctc EXCEPT !.comments = ctc.comments]
        BY <1>3 DEF WriteComment
      <3>2. QED
        BY <1>t, <3>1 DEF Ctc
    <2>3. Cardinality(Uncommented') <= Cardinality(Uncommented) - 1
      <3>1. Uncommented' \in SUBSET (Uncommented \ {h})
        BY <2>1 DEF Uncommented
      <3>2. /\ IsFiniteSet(Uncommented \ {h})
            /\ Cardinality(Uncommented \ {h}) = Cardinality(Uncommented) - 1
        BY <1>f, <2>1, FS_RemoveElement
      <3>3. Cardinality(Uncommented') <= Cardinality(Uncommented \ {h})
        BY <3>1, <3>2, FS_Subset
      <3>4. QED
        BY <3>2, <3>3
    <2>4. QED
      BY <1>t, <1>b, <1>f, <2>1, <2>2, <2>3
  <1>4. CASE (\A h \in Handlers : ~ClaimWins(h)) /\ ctc'.comments = ctc.comments
    BY <1>t, <1>a, <1>b, <1>f, <1>2, <1>4
  <1>5. QED
    BY <1>1, <1>3, <1>4, CommentMoves

\* Comments are bounded by the attempts, in every state before the row is deleted:
\* a retried attempt may comment again, a redelivered or abandoned one may not.
THEOREM OneCommentCorrect ==
  ASSUME IsFiniteSet(Handlers)
  PROVE  Spec => []OneCommentPerAttempt
  <1>1. Init => CommentInv
    <2> SUFFICES ASSUME Init
                 PROVE  CommentInv
      OBVIOUS
    <2>1. Uncommented = {}
      BY DEF Init, Uncommented
    <2>2. Cardinality(Uncommented) = 0
      BY <2>1, FS_EmptySet, Zenon
    <2>3. ctc.comments = 0 /\ row.attempts = 0
      BY DEF Init, NewRow
    <2>4. QED
      BY <2>2, <2>3 DEF CommentInv
  <1>2. TypeInv /\ CommentInv /\ [Next]_vars => CommentInv'
    BY CommentStep
  <1>3. TypeInv /\ CommentInv => OneCommentPerAttempt
    <2> SUFFICES ASSUME TypeInv, CommentInv, row.status # "absent"
                 PROVE  ctc.comments <= row.attempts
      BY DEF OneCommentPerAttempt
    <2>1. Uncommented \in SUBSET Handlers
      BY DEF Uncommented
    <2>2. Cardinality(Uncommented) \in Nat
      BY <2>1, FS_Subset, FS_CardinalityType
    <2>3. ctc.comments \in Nat /\ row.attempts \in Nat
      BY DEF TypeInv, TypeOK, Ctc, Row
    <2>4. QED
      BY <2>2, <2>3 DEF CommentInv
  <1>4. QED
    BY <1>1, <1>2, <1>3, TypeInvariant, PTL DEF Spec
=============================================================================
