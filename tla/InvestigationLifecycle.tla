------------------------ MODULE InvestigationLifecycle ------------------------
(***************************************************************************)
(* An investigation whose runs never share a worker identity: each step is *)
(* recorded once, by the attempt under way, and it completes with two      *)
(* write-backs that succeeded.                                             *)
(*                                                                         *)
(* This is the promise; InvestigationDelivery is how queue, leases and     *)
(* reconciler keep it.                                                     *)
(***************************************************************************)
EXTENDS InvestigationProgress

SaveAnalysis ==
    /\ analysis = NoAnalysis
    /\ KeepAnalysis
    /\ analysis'.attempt = attempts

SettleCodes == codes = "pending" /\ KeepCodes

SettleComment ==
    /\ codes \in CodesDone
    /\ comment = "pending"
    /\ KeepComment

Finish ==
    /\ codes \in CodesDone
    /\ comment \in CommentDone
    /\ Conclude

LifecycleNext ==
    \/ Begin \/ SaveAnalysis \/ SettleCodes \/ SettleComment
    \/ Finish \/ TryAgain \/ GiveUp \/ Forget

LifecycleSpec == ProgressInit /\ [][LifecycleNext]_lifecycle
=============================================================================
