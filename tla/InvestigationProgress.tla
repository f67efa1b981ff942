------------------------ MODULE InvestigationProgress ------------------------
(***************************************************************************)
(* What an investigation is to the clients that poll it, whatever becomes  *)
(* of its workers: attempts are counted, the analysis, the codes outcome   *)
(* and the comment outcome are recorded in that order, nothing recorded is *)
(* taken back, and only with all three can the investigation complete.     *)
(*                                                                         *)
(* A worker_id does not tell two runs of one process apart.  Such runs may *)
(* replace what the other has recorded, so an outcome may change here once *)
(* it is there; InvestigationLifecycle is the promise without such twins.  *)
(***************************************************************************)
EXTENDS InvestigationRow

VARIABLES status, attempts, analysis, codes, comment

progress == <<analysis, codes, comment>>
lifecycle == <<status, attempts, analysis, codes, comment>>

ProgressInit ==
    /\ status = "queued"
    /\ attempts = 0
    /\ analysis = NoAnalysis
    /\ codes = "pending"
    /\ comment = "pending"

\* A new attempt, of a queued investigation or of one whose worker was lost.
Begin ==
    /\ status \in {"queued", "processing"}
    /\ status' = "processing"
    /\ attempts' = attempts + 1
    /\ UNCHANGED progress

\* An analysis is generated by one of the attempts.
KeepAnalysis ==
    /\ status = "processing"
    /\ analysis' \in [attempt: 1..attempts, version: Nat \ {0}]
    /\ UNCHANGED <<status, attempts, codes, comment>>

KeepCodes ==
    /\ status = "processing"
    /\ analysis # NoAnalysis
    /\ codes' \in CodesDone \cup {"failed"}
    /\ UNCHANGED <<status, attempts, analysis, comment>>

KeepComment ==
    /\ status = "processing"
    /\ codes # "pending"
    /\ comment' \in CommentDone \cup {"failed"}
    /\ UNCHANGED <<status, attempts, analysis, codes>>

Conclude ==
    /\ status = "processing"
    /\ comment # "pending"
    /\ status' = "completed"
    /\ UNCHANGED <<attempts, progress>>

TryAgain ==
    /\ status = "processing"
    /\ status' = "queued"
    /\ UNCHANGED <<attempts, progress>>

GiveUp ==
    /\ status \in {"queued", "processing"}
    /\ status' = "failed"
    /\ UNCHANGED <<attempts, progress>>

Forget ==
    /\ status \in TerminalStatus
    /\ status' = "absent"
    /\ attempts' = 0
    /\ analysis' = NoAnalysis
    /\ codes' = "pending"
    /\ comment' = "pending"

ProgressNext ==
    \/ Begin \/ KeepAnalysis \/ KeepCodes \/ KeepComment
    \/ Conclude \/ TryAgain \/ GiveUp \/ Forget

ProgressSpec == ProgressInit /\ [][ProgressNext]_lifecycle
=============================================================================
